---------------------------- MODULE ActionsProofs ----------------------------
(***************************************************************************)
(* Proofs about Automation, Connectors and Webhooks, for any values of     *)
(* their constants: what leaves the program, and what is kept of it.       *)
(***************************************************************************)
EXTENDS Automation, Connectors, Webhooks, FiniteSetTheorems, TLAPS

(* Appending to a sequence keeps what it has, and adds one element.        *)
LEMMA Appended ==
    ASSUME NEW S, NEW s \in Seq(S), NEW e \in S
    PROVE  /\ Append(s, e) \in Seq(S) /\ Len(Append(s, e)) = Len(s) + 1
           /\ DOMAIN Append(s, e) = DOMAIN s \cup {Len(s) + 1}
           /\ Len(s) + 1 \notin DOMAIN s /\ Len(s) \in Nat
           /\ \A i \in DOMAIN s : Append(s, e)[i] = s[i] /\ i <= Len(s) /\ i \in Nat
           /\ Append(s, e)[Len(s) + 1] = e
  OBVIOUS

(* What is read from a sequence is one of its elements.                    *)
LEMMA ElementOf ==
    ASSUME NEW S, NEW s \in Seq(S), NEW i \in DOMAIN s
    PROVE  s[i] \in S /\ i \in Nat /\ i <= Len(s)
  OBVIOUS

(* Replacing an element keeps the others.                                  *)
LEMMA Replaced ==
    ASSUME NEW S, NEW s \in Seq(S), NEW i \in DOMAIN s, NEW e \in S
    PROVE  /\ [s EXCEPT ![i] = e] \in Seq(S) /\ DOMAIN [s EXCEPT ![i] = e] = DOMAIN s
           /\ Len([s EXCEPT ![i] = e]) = Len(s)
           /\ [s EXCEPT ![i] = e][i] = e
           /\ \A j \in DOMAIN s : j # i => [s EXCEPT ![i] = e][j] = s[j]
  OBVIOUS
-----------------------------------------------------------------------------
(* Automation.                                                             *)
AutoActions == {"created", "paused", "resumed", "cancelled", "dry_run"}

\* The entries of a task that say its status, and the last of them.
Own(t) == {i \in DOMAIN auditLog : auditLog[i][1] = t /\ auditLog[i][2] # "dry_run"}

Retold(t) ==
    \/ Own(t) = {} /\ autoStatus[t] = "none"
    \/ \E m \in Own(t) : (\A j \in Own(t) : j <= m) /\ autoStatus[t] = StatusAfter[auditLog[m][2]]

AutoInv ==
    /\ autoStatus \in [AutoTasks -> AutoStatuses \cup {"none"}]
    /\ dryRuns \in [AutoTasks -> Nat]
    /\ auditLog \in Seq(AutoTasks \X AutoActions) /\ Len(auditLog) <= MaxAudits
    /\ \A t \in AutoTasks : Retold(t)

(* A change and its entry: the log retells the new status.                 *)
LEMMA ChangeRetold ==
    ASSUME AutoInv, NEW t \in AutoTasks, NEW from, NEW to \in AutoStatuses, NEW action \in AutoActions,
           action # "dry_run", StatusAfter[action] = to, Change(t, from, to, action)
    PROVE  AutoInv'
<1>1. /\ auditLog' = Append(auditLog, <<t, action>>) /\ autoStatus' = [autoStatus EXCEPT ![t] = to]
      /\ dryRuns' = dryRuns /\ Len(auditLog) < MaxAudits
  BY DEF Change, Audited
<1>2. auditLog \in Seq(AutoTasks \X AutoActions) /\ <<t, action>> \in AutoTasks \X AutoActions
  BY DEF AutoInv
<1>3. /\ auditLog' \in Seq(AutoTasks \X AutoActions) /\ Len(auditLog') = Len(auditLog) + 1
      /\ DOMAIN auditLog' = DOMAIN auditLog \cup {Len(auditLog) + 1}
      /\ Len(auditLog) + 1 \notin DOMAIN auditLog /\ Len(auditLog) \in Nat
      /\ \A i \in DOMAIN auditLog : auditLog'[i] = auditLog[i] /\ i <= Len(auditLog) /\ i \in Nat
      /\ auditLog'[Len(auditLog) + 1] = <<t, action>>
  BY <1>1, <1>2, Appended
<1>4. ASSUME NEW u \in AutoTasks PROVE Retold(u)'
  <2>1. CASE u = t
    <3> DEFINE m == Len(auditLog) + 1
    <3>1. autoStatus'[u] = StatusAfter[auditLog'[m][2]]
      BY <1>1, <1>3, <2>1 DEF AutoInv
    <3>2. auditLog'[m][1] = u /\ auditLog'[m][2] # "dry_run"
      BY <1>3, <2>1
    <3>3. \A j \in DOMAIN auditLog' : j <= m
      BY <1>3
    <3>4. m \in Own(u)' /\ \A j \in Own(u)' : j <= m
      BY <3>2, <3>3, <1>3 DEF Own
    <3> QED
      BY <3>1, <3>4 DEF Retold
  <2>2. CASE u # t
    <3>1. autoStatus'[u] = autoStatus[u]
      BY <1>1, <2>2 DEF AutoInv
    <3>2. Own(u)' = Own(u) /\ \A i \in Own(u) : auditLog'[i] = auditLog[i]
      BY <1>3, <2>2 DEF Own
    <3>3. Retold(u)
      BY DEF AutoInv
    <3> QED
      BY <3>1, <3>2, <3>3 DEF Retold
  <2> QED
    BY <2>1, <2>2
<1>5. /\ autoStatus' \in [AutoTasks -> AutoStatuses \cup {"none"}] /\ dryRuns' \in [AutoTasks -> Nat]
      /\ Len(auditLog') <= MaxAudits
  BY <1>1, <1>3, AutomationAssumption DEF AutoInv
<1> QED
  BY <1>3, <1>4, <1>5 DEF AutoInv

(* A dry run appends to the log and changes no status.                     *)
LEMMA DryRunRetold ==
    ASSUME AutoInv, NEW t \in AutoTasks, DryRun(t)
    PROVE  AutoInv'
<1>1. /\ auditLog' = Append(auditLog, <<t, "dry_run">>) /\ autoStatus' = autoStatus
      /\ dryRuns' = [dryRuns EXCEPT ![t] = @ + 1] /\ Len(auditLog) < MaxAudits
  BY DEF DryRun, Audited
<1>2. auditLog \in Seq(AutoTasks \X AutoActions) /\ <<t, "dry_run">> \in AutoTasks \X AutoActions
  BY DEF AutoInv, AutoActions
<1>3. /\ auditLog' \in Seq(AutoTasks \X AutoActions) /\ Len(auditLog') = Len(auditLog) + 1
      /\ DOMAIN auditLog' = DOMAIN auditLog \cup {Len(auditLog) + 1}
      /\ Len(auditLog) \in Nat
      /\ \A i \in DOMAIN auditLog : auditLog'[i] = auditLog[i]
      /\ auditLog'[Len(auditLog) + 1] = <<t, "dry_run">>
  BY <1>1, <1>2, Appended
<1>4. ASSUME NEW u \in AutoTasks PROVE Retold(u)'
  <2>1. Own(u)' = Own(u) /\ \A i \in Own(u) : auditLog'[i] = auditLog[i]
    BY <1>3 DEF Own
  <2>2. Retold(u)
    BY DEF AutoInv
  <2> QED
    BY <1>1, <2>1, <2>2 DEF Retold
<1>5. dryRuns' \in [AutoTasks -> Nat] /\ Len(auditLog') <= MaxAudits
  BY <1>1, <1>3, AutomationAssumption DEF AutoInv
<1> QED
  BY <1>1, <1>3, <1>4, <1>5 DEF AutoInv

(* Every handler of the automation keeps log and status together.          *)
LEMMA AutoNext == AutoInv /\ [AutoStep]_autoVars => AutoInv'
<1> SUFFICES ASSUME AutoInv, [AutoStep]_autoVars PROVE AutoInv'
  OBVIOUS
<1>1. ASSUME NEW t \in AutoTasks, CreateAutomation(t) PROVE AutoInv'
  BY <1>1, ChangeRetold DEF CreateAutomation, AutoStatuses, AutoActions, StatusAfter
<1>2. ASSUME NEW t \in AutoTasks, PauseAutomation(t) PROVE AutoInv'
  BY <1>2, ChangeRetold DEF PauseAutomation, AutoStatuses, AutoActions, StatusAfter
<1>3. ASSUME NEW t \in AutoTasks, ResumeAutomation(t) PROVE AutoInv'
  BY <1>3, ChangeRetold DEF ResumeAutomation, AutoStatuses, AutoActions, StatusAfter
<1>4. ASSUME NEW t \in AutoTasks, DeleteAutomation(t) PROVE AutoInv'
  BY <1>4, ChangeRetold DEF DeleteAutomation, AutoStatuses, AutoActions, StatusAfter
<1>5. CASE UNCHANGED autoVars
  <2>1. \A t \in AutoTasks : Own(t)' = Own(t)
    BY <1>5 DEF autoVars, Own
  <2> QED
    BY <1>5, <2>1 DEF autoVars, AutoInv, Retold
<1> QED
  BY <1>1, <1>2, <1>3, <1>4, <1>5, DryRunRetold DEF AutoStep

(* The status of a task is what the last entry of its own says.            *)
LEMMA RetoldInLog == AutoInv => LogRetellsStatus
<1> SUFFICES ASSUME AutoInv, NEW t \in AutoTasks
             PROVE  IF Own(t) = {} THEN autoStatus[t] = "none"
                    ELSE autoStatus[t] = StatusAfter[auditLog[CHOOSE i \in Own(t) : \A j \in Own(t) : j <= i][2]]
  BY DEF LogRetellsStatus, Own
<1>1. Retold(t)
  BY DEF AutoInv
<1>2. CASE Own(t) = {}
  BY <1>1, <1>2 DEF Retold
<1>3. CASE Own(t) # {}
  <2>1. PICK m \in Own(t) : (\A j \in Own(t) : j <= m) /\ autoStatus[t] = StatusAfter[auditLog[m][2]]
    BY <1>1, <1>3 DEF Retold
  <2>2. \A i \in Own(t) : i \in Int
    BY DEF Own, AutoInv
  <2> DEFINE last == CHOOSE i \in Own(t) : \A j \in Own(t) : j <= i
  <2>3. last \in Own(t) /\ \A j \in Own(t) : j <= last
    BY <2>1
  <2>4. last = m
    BY <2>1, <2>2, <2>3
  <2> QED
    BY <1>3, <2>1, <2>4
<1> QED
  BY <1>2, <1>3

(* No automation exists at the start, and nothing is logged.               *)
LEMMA AutoInitially == AutoInit => AutoInv
<1> SUFFICES ASSUME AutoInit PROVE AutoInv
  OBVIOUS
<1>1. \A t \in AutoTasks : Own(t) = {}
  BY DEF AutoInit, Own
<1> QED
  BY <1>1, AutomationAssumption DEF AutoInit, AutoInv, Retold

(* The inductive invariant of the automation tasks.                        *)
THEOREM AutoInvariant == AutoSpec => []AutoInv
  BY AutoInitially, AutoNext, PTL DEF AutoSpec

(* Replaying the log of a task ends where the task is, for any tasks and   *)
(* any sequence of calls (automation_tasks.py:89-166).                     *)
THEOREM LogsRetell == AutoSpec => []LogRetellsStatus
  BY AutoInvariant, RetoldInLog, PTL

(* No handler brings a cancelled automation back.                          *)
LEMMA CancelledStep ==
    ASSUME AutoInv, [AutoStep]_autoVars, NEW t \in AutoTasks, autoStatus[t] = "cancelled"
    PROVE  autoStatus'[t] = "cancelled"
  BY DEF AutoInv, AutoStep, autoVars, CreateAutomation, PauseAutomation, ResumeAutomation,
         DeleteAutomation, DryRun, Change

(* A cancelled task stays cancelled (automation_tasks.py:126-166).         *)
THEOREM NoneComesBack == AutoSpec => CancelledForGood
<1>1. AutoInv /\ [AutoStep]_autoVars =>
          [\A t \in AutoTasks : autoStatus[t] = "cancelled" => autoStatus'[t] = "cancelled"]_autoVars
  BY CancelledStep
<1> QED
  BY <1>1, AutoInvariant, PTL DEF AutoSpec, CancelledForGood
-----------------------------------------------------------------------------
(* Connectors.                                                             *)
Vias == {"email", "scm", "ci"}

ConnectorsTyped ==
    /\ confirmations \in Seq([via : Vias, data : Payloads, used : BOOLEAN])
    /\ executed \in Seq([via : Vias, data : Payloads, id : Nat, status : {"sent", "failed", "committed"}, at : Nat])
    /\ delivered \in Seq([id : Nat, domain : Domains, at : Nat])
    /\ bucket \in [Domains -> SUBSET [row : Nat, at : 0..MaxTime]]
    /\ sending \in [id : Nat, data : Payloads] \cup {NoCall}
    /\ clock \in 0..MaxTime /\ perRequest \in BOOLEAN /\ died \in BOOLEAN

\* What was executed or delivered spent its confirmation, once; the mail being
\* sent has spent its own and left no trace yet.
ConfirmationsSpent ==
    /\ \A i \in DOMAIN executed : /\ executed[i].id \in DOMAIN confirmations
                                  /\ confirmations[executed[i].id].used
    /\ \A i \in DOMAIN delivered : /\ delivered[i].id \in DOMAIN confirmations
                                   /\ confirmations[delivered[i].id].used
    /\ \A i, j \in DOMAIN executed : executed[i].id = executed[j].id => i = j
    /\ \A i, j \in DOMAIN delivered : delivered[i].id = delivered[j].id => i = j
    /\ sending # NoCall =>
          /\ sending.id \in DOMAIN confirmations
          /\ confirmations[sending.id].used /\ confirmations[sending.id].data = sending.data
          /\ \A i \in DOMAIN executed : executed[i].id # sending.id
          /\ \A i \in DOMAIN delivered : delivered[i].id # sending.id

ConnectorInv == ConnectorsTyped /\ ConfirmationsSpent /\ ExecutedAsPreviewed

(* A preview adds a confirmation nobody has used.                          *)
LEMMA PreviewKeeps ==
    ASSUME ConnectorInv, sending = NoCall, NEW via \in Vias, NEW data \in Payloads,
           confirmations' = Append(confirmations, Confirmation(via, data)),
           UNCHANGED <<perRequest, executed, delivered, bucket, sending, clock, died>>
    PROVE  ConnectorInv'
<1> DEFINE S == [via : Vias, data : Payloads, used : BOOLEAN]
<1>1. confirmations \in Seq(S) /\ Confirmation(via, data) \in S
  BY DEF ConnectorInv, ConnectorsTyped, Confirmation
<1> HIDE DEF S
<1>2. /\ confirmations' \in Seq(S)
      /\ \A i \in DOMAIN confirmations : i \in DOMAIN confirmations' /\ confirmations'[i] = confirmations[i]
  BY <1>1, Appended
<1>3. ConnectorsTyped'
  BY <1>2 DEF ConnectorInv, ConnectorsTyped, S
<1>4. ConfirmationsSpent' /\ ExecutedAsPreviewed'
  <2>1. \A i \in DOMAIN executed : executed[i].id \in DOMAIN confirmations
    BY DEF ConnectorInv, ConfirmationsSpent
  <2> QED
    BY <1>2, <2>1 DEF ConnectorInv, ConfirmationsSpent, ExecutedAsPreviewed
<1> QED
  BY <1>3, <1>4 DEF ConnectorInv

(* A confirmation marked as used keeps what it was issued for.             *)
LEMMA UsedConfirmation ==
    ASSUME NEW c \in [via : Vias, data : Payloads, used : BOOLEAN]
    PROVE  /\ [c EXCEPT !.used = TRUE] \in [via : Vias, data : Payloads, used : BOOLEAN]
           /\ [c EXCEPT !.used = TRUE].used /\ [c EXCEPT !.used = TRUE].data = c.data
           /\ [c EXCEPT !.used = TRUE].via = c.via
  OBVIOUS

(* A confirmation is spent.                                                *)
LEMMA SpentConfirmation ==
    ASSUME NEW s \in Seq([via : Vias, data : Payloads, used : BOOLEAN]), NEW id \in DOMAIN s
    PROVE  /\ [s EXCEPT ![id].used = TRUE] \in Seq([via : Vias, data : Payloads, used : BOOLEAN])
           /\ DOMAIN [s EXCEPT ![id].used = TRUE] = DOMAIN s
           /\ [s EXCEPT ![id].used = TRUE][id].used
           /\ [s EXCEPT ![id].used = TRUE][id].data = s[id].data
           /\ \A i \in DOMAIN s : i # id => [s EXCEPT ![id].used = TRUE][i] = s[i]
<1> DEFINE S == [via : Vias, data : Payloads, used : BOOLEAN]
           c == [s[id] EXCEPT !.used = TRUE]
<1>1. s[id] \in S
  BY ElementOf
<1>2. c \in S /\ c.used /\ c.data = s[id].data
  BY <1>1, UsedConfirmation
<1>3. [s EXCEPT ![id].used = TRUE] = [s EXCEPT ![id] = c]
  OBVIOUS
<1> HIDE DEF c
<1>4. /\ [s EXCEPT ![id] = c] \in Seq(S) /\ DOMAIN [s EXCEPT ![id] = c] = DOMAIN s
      /\ [s EXCEPT ![id] = c][id] = c
      /\ \A i \in DOMAIN s : i # id => [s EXCEPT ![id] = c][i] = s[i]
  BY <1>2, Replaced
<1> QED
  BY <1>2, <1>3, <1>4

(* Using up a confirmation, before the limiter is asked.                   *)
LEMMA ConfirmEmailKeeps ==
    ASSUME ConnectorInv, NEW data \in Payloads, NEW id \in DOMAIN confirmations, ConfirmEmail(id, data)
    PROVE  ConnectorInv'
<1>1. /\ sending = NoCall /\ ~confirmations[id].used /\ confirmations[id].data = data
      /\ confirmations' = [confirmations EXCEPT ![id].used = TRUE]
      /\ sending' = [id |-> id, data |-> data]
      /\ UNCHANGED <<perRequest, executed, delivered, bucket, clock, died>>
      /\ ConnectorsTyped /\ ConfirmationsSpent /\ ExecutedAsPreviewed
      /\ id \in Nat
  BY DEF ConfirmEmail, Matches, ConnectorInv, ConnectorsTyped
<1>2. /\ confirmations' \in Seq([via : Vias, data : Payloads, used : BOOLEAN])
      /\ DOMAIN confirmations' = DOMAIN confirmations
      /\ confirmations'[id].used /\ confirmations'[id].data = confirmations[id].data
      /\ \A i \in DOMAIN confirmations : i # id => confirmations'[i] = confirmations[i]
  BY <1>1, SpentConfirmation DEF ConnectorsTyped
<1>3. sending' \in [id : Nat, data : Payloads] /\ sending'.id = id /\ sending'.data = data
  BY <1>1
<1>4. ConnectorsTyped'
  BY <1>1, <1>2, <1>3 DEF ConnectorsTyped
<1>5. /\ \A i \in DOMAIN executed : executed[i].id # id
      /\ \A i \in DOMAIN delivered : delivered[i].id # id
  BY <1>1 DEF ConfirmationsSpent
<1>6. ConfirmationsSpent'
  BY <1>1, <1>2, <1>3, <1>5 DEF ConfirmationsSpent
<1>7. ExecutedAsPreviewed'
  BY <1>1, <1>2, <1>5 DEF ConfirmationsSpent, ExecutedAsPreviewed
<1> QED
  BY <1>4, <1>6, <1>7 DEF ConnectorInv

(* The times still in the window are of those there were.                  *)
LEMMA RecentTimes ==
    ASSUME ConnectorsTyped, NEW d \in Domains
    PROVE  Times(d) \in SUBSET [row : Nat, at : 0..MaxTime]
  BY DEF Times, Recent, ConnectorsTyped

(* The refused mail leaves the times that count.                           *)
LEMMA RefuseEmailKeeps ==
    ASSUME ConnectorInv, RefuseEmail
    PROVE  ConnectorInv'
<1>0. ConnectorsTyped /\ ConfirmationsSpent /\ ExecutedAsPreviewed
  BY DEF ConnectorInv
<1>1. PICK e \in Domains : /\ bucket' = [bucket EXCEPT ![e] = Times(e)] /\ sending' = NoCall
                           /\ UNCHANGED <<perRequest, confirmations, executed, delivered, clock, died>>
  BY <1>0 DEF RefuseEmail, ConnectorsTyped, Domains
<1>2. bucket' \in [Domains -> SUBSET [row : Nat, at : 0..MaxTime]]
  BY <1>0, <1>1, RecentTimes DEF ConnectorsTyped
<1>3. ConnectorsTyped'
  BY <1>0, <1>1, <1>2 DEF ConnectorsTyped
<1>4. ConfirmationsSpent' /\ ExecutedAsPreviewed'
  BY <1>0, <1>1 DEF ConfirmationsSpent, ExecutedAsPreviewed
<1> QED
  BY <1>3, <1>4 DEF ConnectorInv

(* Time passes.                                                            *)
LEMMA TickKeeps ==
    ASSUME ConnectorInv, Tick
    PROVE  ConnectorInv'
<1>0. /\ ConnectorsTyped /\ ConfirmationsSpent /\ ExecutedAsPreviewed
      /\ clock < MaxTime /\ clock' = clock + 1
      /\ UNCHANGED <<perRequest, confirmations, executed, delivered, bucket, sending, died>>
      /\ MaxTime \in Nat
  BY ConnectorAssumption DEF ConnectorInv, Tick
<1>1. ConnectorsTyped'
  BY <1>0 DEF ConnectorsTyped
<1>2. ConfirmationsSpent' /\ ExecutedAsPreviewed'
  BY <1>0 DEF ConfirmationsSpent, ExecutedAsPreviewed
<1> QED
  BY <1>1, <1>2 DEF ConnectorInv

(* The mail being sent spent its confirmation, and no other mail has its   *)
(* number: when it is delivered, or logged, it is the only one.            *)
LEMMA SendEmailSpends ==
    ASSUME ConnectorInv, NEW reaches \in BOOLEAN, NEW status \in {"sent", "failed"},
           SendEmail(reaches, status)
    PROVE  ConnectorsTyped' /\ ConfirmationsSpent' /\ ExecutedAsPreviewed'
<1>0. /\ ConnectorsTyped /\ ConfirmationsSpent /\ ExecutedAsPreviewed /\ sending # NoCall
      /\ UNCHANGED <<perRequest, confirmations, clock, died>> /\ sending' = NoCall
  BY DEF ConnectorInv, SendEmail
<1>1. PICK s \in [id : Nat, data : Payloads] : s = sending
  BY <1>0 DEF ConnectorsTyped
<1> DEFINE e == DomainOf[s.data]
           m == [id |-> s.id, domain |-> e, at |-> clock]
           x == [via |-> "email", data |-> s.data, id |-> s.id, status |-> status, at |-> clock]
           E == [via : Vias, data : Payloads, id : Nat, status : {"sent", "failed", "committed"}, at : Nat]
           M == [id : Nat, domain : Domains, at : Nat]
<1>2. /\ executed' = Append(executed, x)
      /\ delivered' = IF reaches THEN Append(delivered, m) ELSE delivered
      /\ bucket' = [bucket EXCEPT ![e] = Allowed(e)]
  BY <1>0, <1>1 DEF SendEmail, Entry
<1>3. /\ clock \in Nat /\ e \in Domains /\ x \in E /\ m \in M /\ executed \in Seq(E) /\ delivered \in Seq(M)
      /\ x.via = "email" /\ x.id = s.id /\ x.data = s.data /\ m.id = s.id
  BY <1>0, <1>1, ConnectorAssumption DEF ConnectorsTyped, Domains, Vias
<1>4. /\ s.id \in DOMAIN confirmations /\ confirmations[s.id].used /\ confirmations[s.id].data = s.data
      /\ \A i \in DOMAIN executed : executed[i].id # s.id
      /\ \A i \in DOMAIN delivered : delivered[i].id # s.id
  BY <1>0, <1>1 DEF ConfirmationsSpent
<1> HIDE DEF E, M, m, x, e
<1>5. /\ executed' \in Seq(E) /\ Len(executed) + 1 \notin DOMAIN executed
      /\ DOMAIN executed' = DOMAIN executed \cup {Len(executed) + 1}
      /\ \A i \in DOMAIN executed : executed'[i] = executed[i]
      /\ executed'[Len(executed) + 1] = x
  BY <1>2, <1>3, Appended
<1>6. /\ delivered' \in Seq(M)
      /\ \A i \in DOMAIN delivered' : \/ i \in DOMAIN delivered /\ delivered'[i] = delivered[i]
                                      \/ i = Len(delivered) + 1 /\ delivered'[i] = m
  BY <1>2, <1>3, Appended
<1>7. ConnectorsTyped'
  <2>1. Allowed(e) \in SUBSET [row : Nat, at : 0..MaxTime]
    <3>1. Len(executed) + 1 \in Nat /\ clock \in 0..MaxTime
      BY <1>0, <1>3 DEF ConnectorsTyped
    <3>2. Times(e) \in SUBSET [row : Nat, at : 0..MaxTime]
      BY <1>0, <1>3, RecentTimes DEF ConnectorInv
    <3> QED
      BY <1>3, <3>1, <3>2 DEF Allowed
  <2>2. bucket' \in [Domains -> SUBSET [row : Nat, at : 0..MaxTime]]
    BY <1>0, <1>2, <1>3, <2>1 DEF ConnectorsTyped
  <2>3. /\ confirmations' \in Seq([via : Vias, data : Payloads, used : BOOLEAN])
        /\ sending' \in [id : Nat, data : Payloads] \cup {NoCall}
        /\ clock' \in 0..MaxTime /\ perRequest' \in BOOLEAN /\ died' \in BOOLEAN
    BY <1>0 DEF ConnectorsTyped
  <2> QED
    BY <1>5, <1>6, <2>2, <2>3 DEF ConnectorsTyped, E, M
<1>8. ConfirmationsSpent'
  <2>1. \A i \in DOMAIN executed' : executed'[i].id \in DOMAIN confirmations /\ confirmations[executed'[i].id].used
    BY <1>0, <1>3, <1>4, <1>5 DEF ConfirmationsSpent
  <2>2. \A i \in DOMAIN delivered' : delivered'[i].id \in DOMAIN confirmations /\ confirmations[delivered'[i].id].used
    BY <1>0, <1>3, <1>4, <1>6 DEF ConfirmationsSpent
  <2>3. \A i, j \in DOMAIN executed' : executed'[i].id = executed'[j].id => i = j
    BY <1>0, <1>3, <1>4, <1>5 DEF ConfirmationsSpent
  <2>4. \A i, j \in DOMAIN delivered' : delivered'[i].id = delivered'[j].id => i = j
    BY <1>0, <1>3, <1>4, <1>6 DEF ConfirmationsSpent
  <2> QED
    BY <1>0, <2>1, <2>2, <2>3, <2>4 DEF ConfirmationsSpent
<1>9. ExecutedAsPreviewed'
  <2> SUFFICES ASSUME NEW i \in DOMAIN executed', executed'[i].via \in {"email", "scm"}
               PROVE  confirmations[executed'[i].id].data = executed'[i].data
    BY <1>0 DEF ExecutedAsPreviewed
  <2> QED
    BY <1>0, <1>3, <1>4, <1>5 DEF ExecutedAsPreviewed
<1> QED
  BY <1>7, <1>8, <1>9

(* A stub spends the confirmation and logs its execution in one step.      *)
LEMMA ExecuteStubKeeps ==
    ASSUME ConnectorInv, NEW via \in {"scm", "ci"}, NEW data \in Payloads, NEW id \in DOMAIN confirmations,
           ExecuteStub(via, id, data)
    PROVE  ConnectorInv'
<1> DEFINE x == [via |-> via, data |-> data, id |-> id, status |-> "committed", at |-> clock]
           E == [via : Vias, data : Payloads, id : Nat, status : {"sent", "failed", "committed"}, at : Nat]
<1>0. /\ ConnectorsTyped /\ ConfirmationsSpent /\ ExecutedAsPreviewed
      /\ sending = NoCall /\ sending' = NoCall /\ ~confirmations[id].used
      /\ via = "ci" \/ confirmations[id].data = data
      /\ confirmations' = [confirmations EXCEPT ![id].used = TRUE]
      /\ executed' = Append(executed, x)
      /\ UNCHANGED <<perRequest, delivered, bucket, sending, clock, died>>
  BY DEF ConnectorInv, ExecuteStub, Matches, Entry
<1>1. /\ confirmations' \in Seq([via : Vias, data : Payloads, used : BOOLEAN])
      /\ DOMAIN confirmations' = DOMAIN confirmations
      /\ confirmations'[id].used /\ confirmations'[id].data = confirmations[id].data
      /\ \A i \in DOMAIN confirmations : i # id => confirmations'[i] = confirmations[i]
  BY <1>0, SpentConfirmation DEF ConnectorsTyped
<1>2. /\ x \in E /\ executed \in Seq(E) /\ x.id = id /\ x.via = via /\ x.data = data
  <2>1. clock \in Nat /\ id \in Nat /\ via \in Vias
    BY <1>0, ConnectorAssumption DEF ConnectorsTyped, Vias
  <2> QED
    BY <1>0, <2>1 DEF ConnectorsTyped
<1>3. /\ \A i \in DOMAIN executed : executed[i].id # id
      /\ \A i \in DOMAIN delivered : delivered[i].id # id
  BY <1>0 DEF ConfirmationsSpent
<1> HIDE DEF E, x
<1>4. /\ executed' \in Seq(E) /\ Len(executed) + 1 \notin DOMAIN executed
      /\ Len(executed') = Len(executed) + 1 /\ Len(executed) \in Nat
      /\ DOMAIN executed' = DOMAIN executed \cup {Len(executed) + 1}
      /\ \A i \in DOMAIN executed : executed'[i] = executed[i]
      /\ executed'[Len(executed) + 1] = x
  BY <1>0, <1>2, Appended
<1>5. ConnectorsTyped'
  <2>1. /\ delivered' \in Seq([id : Nat, domain : Domains, at : Nat])
        /\ bucket' \in [Domains -> SUBSET [row : Nat, at : 0..MaxTime]]
        /\ sending' \in [id : Nat, data : Payloads] \cup {NoCall}
        /\ clock' \in 0..MaxTime /\ perRequest' \in BOOLEAN /\ died' \in BOOLEAN
    BY <1>0 DEF ConnectorsTyped
  <2> QED
    BY <1>1, <1>4, <2>1 DEF ConnectorsTyped, E
<1>6. ConfirmationsSpent'
  <2>1. \A i \in DOMAIN executed' : executed'[i].id \in DOMAIN confirmations' /\ confirmations'[executed'[i].id].used
    BY <1>0, <1>1, <1>2, <1>3, <1>4 DEF ConfirmationsSpent
  <2>2. \A i \in DOMAIN delivered' : delivered'[i].id \in DOMAIN confirmations' /\ confirmations'[delivered'[i].id].used
    BY <1>0, <1>1, <1>3 DEF ConfirmationsSpent
  <2>3. \A i, j \in DOMAIN executed' : executed'[i].id = executed'[j].id => i = j
    BY <1>0, <1>2, <1>3, <1>4 DEF ConfirmationsSpent
  <2>4. \A i, j \in DOMAIN delivered' : delivered'[i].id = delivered'[j].id => i = j
    BY <1>0 DEF ConfirmationsSpent
  <2> QED
    BY <1>0, <2>1, <2>2, <2>3, <2>4 DEF ConfirmationsSpent
<1>7. ExecutedAsPreviewed'
  <2> SUFFICES ASSUME NEW i \in DOMAIN executed', executed'[i].via \in {"email", "scm"}
               PROVE  confirmations'[executed'[i].id].data = executed'[i].data
    BY DEF ExecutedAsPreviewed
  <2>1. CASE i \in DOMAIN executed
    BY <1>0, <1>1, <1>3, <1>4, <2>1 DEF ExecutedAsPreviewed, ConfirmationsSpent
  <2>2. CASE i = Len(executed) + 1
    BY <1>0, <1>1, <1>2, <1>4, <2>2
  <2> QED
    BY <1>4, <2>1, <2>2
<1> QED
  BY <1>5, <1>6, <1>7 DEF ConnectorInv

(* The process dies: its limiter is new, and a confirmation stays good for *)
(* one mail.                                                               *)
LEMMA DieSendingKeeps ==
    ASSUME ConnectorInv, NEW reaches \in BOOLEAN, DieSending(reaches)
    PROVE  ConnectorInv'
<1>0. /\ ConnectorsTyped /\ ConfirmationsSpent /\ ExecutedAsPreviewed
      /\ sending # NoCall /\ sending' = NoCall /\ died' = TRUE /\ bucket' = Fresh
      /\ UNCHANGED <<perRequest, confirmations, executed, clock>>
  BY DEF ConnectorInv, DieSending
<1>1. PICK s \in [id : Nat, data : Payloads] : s = sending
  BY <1>0 DEF ConnectorsTyped
<1> DEFINE m == [id |-> s.id, at |-> clock, domain |-> DomainOf[s.data]]
           M == [id : Nat, domain : Domains, at : Nat]
<1>2. delivered' = IF reaches THEN Append(delivered, m) ELSE delivered
  BY <1>1 DEF DieSending
<1>3. m \in M /\ m.id = s.id /\ m.at = clock /\ delivered \in Seq(M) /\ clock \in Nat
  BY <1>0, <1>1, ConnectorAssumption DEF ConnectorsTyped, Domains
<1>4. /\ s.id \in DOMAIN confirmations /\ confirmations[s.id].used
      /\ \A i \in DOMAIN delivered : delivered[i].id # s.id
  BY <1>0, <1>1 DEF ConfirmationsSpent
<1> HIDE DEF M, m
<1>5. /\ delivered' \in Seq(M)
      /\ \A i \in DOMAIN delivered' : \/ i \in DOMAIN delivered /\ delivered'[i] = delivered[i]
                                      \/ i = Len(delivered) + 1 /\ delivered'[i] = m
  BY <1>2, <1>3, Appended
<1>6. bucket' \in [Domains -> SUBSET [row : Nat, at : 0..MaxTime]] /\ \A d \in Domains : bucket'[d] = {}
  BY <1>0 DEF Fresh
<1>7. ConnectorsTyped'
  <2>1. /\ confirmations' \in Seq([via : Vias, data : Payloads, used : BOOLEAN])
        /\ executed' \in Seq([via : Vias, data : Payloads, id : Nat, status : {"sent", "failed", "committed"}, at : Nat])
        /\ sending' \in [id : Nat, data : Payloads] \cup {NoCall}
        /\ clock' \in 0..MaxTime /\ perRequest' \in BOOLEAN /\ died' \in BOOLEAN
    BY <1>0 DEF ConnectorsTyped
  <2> QED
    BY <1>5, <1>6, <2>1 DEF ConnectorsTyped, M
<1>8. ConfirmationsSpent'
  <2>1. \A i \in DOMAIN delivered' : delivered'[i].id \in DOMAIN confirmations /\ confirmations[delivered'[i].id].used
    BY <1>0, <1>3, <1>4, <1>5 DEF ConfirmationsSpent
  <2>2. \A i, j \in DOMAIN delivered' : delivered'[i].id = delivered'[j].id => i = j
    BY <1>0, <1>3, <1>4, <1>5 DEF ConfirmationsSpent
  <2>3. /\ \A i \in DOMAIN executed : /\ executed[i].id \in DOMAIN confirmations
                                      /\ confirmations[executed[i].id].used
        /\ \A i, j \in DOMAIN executed : executed[i].id = executed[j].id => i = j
    BY <1>0 DEF ConfirmationsSpent
  <2> QED
    BY <1>0, <2>1, <2>2, <2>3 DEF ConfirmationsSpent
<1>9. ExecutedAsPreviewed'
  BY <1>0 DEF ExecutedAsPreviewed
<1> QED
  BY <1>7, <1>8, <1>9 DEF ConnectorInv

(* No confirmation is open at the start, and nothing was sent.             *)
LEMMA ConnectorInitially == ConnectorInit => ConnectorInv
<1> SUFFICES ASSUME ConnectorInit PROVE ConnectorInv
  OBVIOUS
<1>1. ConnectorsTyped
  <2>1. /\ confirmations = <<>> /\ executed = <<>> /\ delivered = <<>> /\ sending = NoCall
        /\ perRequest \in BOOLEAN /\ died = FALSE /\ clock \in 0..MaxTime
    BY ConnectorAssumption DEF ConnectorInit
  <2>2. bucket \in [Domains -> SUBSET [row : Nat, at : 0..MaxTime]]
    BY DEF ConnectorInit, Fresh
  <2>3. \A S : <<>> \in Seq(S)
    OBVIOUS
  <2> QED
    BY <2>1, <2>2, <2>3 DEF ConnectorsTyped
<1>2. ConfirmationsSpent /\ ExecutedAsPreviewed
  BY DEF ConnectorInit, ConfirmationsSpent, ExecutedAsPreviewed
<1> QED
  BY <1>1, <1>2 DEF ConnectorInv

(* Every step of a connector keeps the account of its confirmations.       *)
LEMMA ConnectorNext == ConnectorInv /\ [ConnectorStep]_connectorVars => ConnectorInv'
<1> SUFFICES ASSUME ConnectorInv, [ConnectorStep]_connectorVars PROVE ConnectorInv'
  OBVIOUS
<1>1. ASSUME NEW data \in Payloads, PreviewEmail(data) PROVE ConnectorInv'
  BY <1>1, PreviewKeeps DEF PreviewEmail, Vias
<1>2. ASSUME NEW data \in Payloads, NEW via \in {"scm", "ci"}, PreviewStub(via, data) PROVE ConnectorInv'
  BY <1>2, PreviewKeeps DEF PreviewStub, Vias
<1>3. ASSUME NEW reaches \in BOOLEAN, NEW status \in {"sent", "failed"}, SendEmail(reaches, status)
      PROVE  ConnectorInv'
  BY <1>3, SendEmailSpends DEF ConnectorInv
<1>4. CASE UNCHANGED connectorVars
  BY <1>4 DEF connectorVars, ConnectorInv, ConnectorsTyped, ConfirmationsSpent, ExecutedAsPreviewed
<1> QED
  BY <1>1, <1>2, <1>3, <1>4, ConfirmEmailKeeps, ExecuteStubKeeps, RefuseEmailKeeps, TickKeeps, DieSendingKeeps
     DEF ConnectorStep

(* At most one element has a property that no two have.                    *)
LEMMA AtMostOne ==
    ASSUME NEW S, \A i, j \in S : i = j
    PROVE  Cardinality(S) <= 1
<1>1. CASE S = {}
  BY <1>1, FS_EmptySet
<1>2. CASE S # {}
  <2>1. PICK x : S = {x}
    BY <1>2
  <2> QED
    BY <2>1, FS_Singleton
<1> QED
  BY <1>1, <1>2

(* The account says that a confirmation was used for one sending.          *)
LEMMA SentOnce == ConnectorInv => OncePerConfirmation
<1> SUFFICES ASSUME ConnectorInv, NEW id \in DOMAIN confirmations
             PROVE  /\ Cardinality({i \in DOMAIN delivered : delivered[i].id = id}) <= 1
                    /\ Cardinality({i \in DOMAIN executed : executed[i].id = id}) <= 1
  BY DEF OncePerConfirmation
<1> DEFINE D == {i \in DOMAIN delivered : delivered[i].id = id}
           E == {i \in DOMAIN executed : executed[i].id = id}
<1>1. (\A i, j \in D : i = j) /\ (\A i, j \in E : i = j)
  BY DEF ConnectorInv, ConfirmationsSpent
<1> HIDE DEF D, E
<1>2. Cardinality(D) <= 1 /\ Cardinality(E) <= 1
  BY <1>1, AtMostOne
<1> QED
  BY <1>2 DEF D, E

(* The inductive invariant of the connectors.                              *)
THEOREM ConnectorInvariant == ConnectorSpec => []ConnectorInv
  BY ConnectorInitially, ConnectorNext, PTL DEF ConnectorSpec

(* A confirmation is good for one mail and one execution, and what is      *)
(* executed was previewed, for any payloads, domains and deaths            *)
(* (email.py:184-230, scm.py:87-137, ci.py:77-106).                        *)
THEOREM ConfirmationsAreSpentOnce == ConnectorSpec => [](OncePerConfirmation /\ ExecutedAsPreviewed)
<1>1. ConnectorInv => ExecutedAsPreviewed
  BY DEF ConnectorInv
<1> QED
  BY <1>1, SentOnce, ConnectorInvariant, PTL

(* The types hold.                                                         *)
LEMMA ConnectorTypes == ConnectorInv => ConnectorTypeOK
<1> SUFFICES ASSUME ConnectorInv PROVE ConnectorTypeOK
  OBVIOUS
<1>0. ConnectorsTyped /\ ConfirmationsSpent
  BY DEF ConnectorInv
<1>1. ASSUME NEW id \in DOMAIN confirmations PROVE confirmations[id].via \in {"email", "scm", "ci"}
  <2>1. confirmations \in Seq([via : Vias, data : Payloads, used : BOOLEAN])
    BY <1>0 DEF ConnectorsTyped
  <2>2. confirmations[id] \in [via : Vias, data : Payloads, used : BOOLEAN]
    BY <2>1, ElementOf
  <2> QED
    BY <2>2 DEF Vias
<1>2. ASSUME NEW d \in Domains, NEW t \in bucket[d] PROVE t.at \in 0..MaxTime
  BY <1>0, <1>2 DEF ConnectorsTyped
<1> QED
  BY <1>0, <1>1, <1>2 DEF ConnectorTypeOK, ConfirmationsSpent

(* The type invariant of the automation.                                   *)
LEMMA AutoTypes == AutoInv => AutoTypeOK
  BY DEF AutoInv, AutoTypeOK
-----------------------------------------------------------------------------
(* Webhooks.                                                               *)
Outcomes == [hook : Nat, dispatch : Nat, status : {"delivered", "dead_lettered"}, attempt : 1..MaxRetries]

HooksTyped ==
    /\ hooks \in Seq(SUBSET Events)
    /\ deliveries \in Seq(Outcomes)
    /\ deadLetters \in Seq([hook : Nat, dispatch : Nat])
    /\ dispatch \in [todo : Seq(Nat), attempt : 1..MaxRetries, waited : Seq(Nat), dead : BOOLEAN]
    /\ dispatched \in Seq([event : Events, hooks : Seq(Nat)])

\* The hooks of a dispatch are registered, and differ.
DispatchesNameHooks ==
    \A d \in DOMAIN dispatched : \A i \in DOMAIN dispatched[d].hooks :
        /\ dispatched[d].hooks[i] \in DOMAIN hooks
        /\ \A j \in DOMAIN dispatched[d].hooks : i # j => dispatched[d].hooks[i] # dispatched[d].hooks[j]

\* Of a dispatch the first n hooks have an outcome, and only these.
HasRow(h, d) == \E i \in DOMAIN deliveries : deliveries[i].hook = h /\ deliveries[i].dispatch = d

ServedTo(d, n) == \A i \in DOMAIN dispatched[d].hooks : \A h \in Nat :
    h = dispatched[d].hooks[i] => (HasRow(h, d) <=> i <= n)

\* The dispatch that runs has served those it has not left to do.
DispatchUnderWay ==
    dispatch.todo # <<>> => \E n \in Nat :
        /\ ServedTo(Len(dispatched), n) /\ Len(dispatched) \in DOMAIN dispatched
        /\ \A j \in DOMAIN dispatch.todo :
              /\ n + j \in DOMAIN dispatched[Len(dispatched)].hooks
              /\ dispatch.todo[j] = dispatched[Len(dispatched)].hooks[n + j]

\* A letter is dead for a hook to do only between its burial and its record.
Buried(h, d) == \E l \in DOMAIN deadLetters : deadLetters[l].hook = h /\ deadLetters[l].dispatch = d

LettersUnderWay ==
    /\ \A j \in DOMAIN dispatch.todo : \A h \in Nat :
          h = dispatch.todo[j] => (Buried(h, Len(dispatched)) <=> j = 1 /\ dispatch.dead)
    /\ dispatch.dead => dispatch.todo # <<>>

OutcomesTold ==
    /\ \A i \in DOMAIN deliveries :
          /\ deliveries[i].dispatch <= Len(dispatched) /\ deliveries[i].hook \in DOMAIN hooks
          /\ \A j \in DOMAIN deliveries :
                deliveries[i].hook = deliveries[j].hook /\ deliveries[i].dispatch = deliveries[j].dispatch => i = j
          /\ \A h, d \in Nat : h = deliveries[i].hook /\ d = deliveries[i].dispatch =>
                (deliveries[i].status = "dead_lettered" <=> Buried(h, d))
    /\ \A l \in DOMAIN deadLetters : deadLetters[l].dispatch <= Len(dispatched)

HookInv ==
    /\ HooksTyped /\ DispatchesNameHooks /\ OutcomesTold
    /\ \A d \in DOMAIN dispatched : \E n \in Nat : ServedTo(d, n)
    /\ DispatchUnderWay /\ LettersUnderWay

(* A record of a dispatch under way is what its fields say.                *)
LEMMA DispatchRecord ==
    ASSUME NEW r, NEW todo \in Seq(Nat), NEW attempt \in 1..MaxRetries, NEW waited \in Seq(Nat),
           NEW dead \in BOOLEAN, r = [todo |-> todo, attempt |-> attempt, waited |-> waited, dead |-> dead]
    PROVE  /\ r \in [todo : Seq(Nat), attempt : 1..MaxRetries, waited : Seq(Nat), dead : BOOLEAN]
           /\ r.todo = todo /\ r.attempt = attempt /\ r.dead = dead
  OBVIOUS

(* Three attempts, with a delay after each (webhook.py:170-171).           *)
LEMMA ThreeTries == MaxRetries = 3 /\ RetryDelays \in Seq(Nat)
  BY DEF MaxRetries, RetryDelays

(* The empty sequence is one of every set.                                 *)
LEMMA EmptySequence == ASSUME NEW S PROVE <<>> \in Seq(S) /\ DOMAIN <<>> = {}
  OBVIOUS

(* No dispatch is under way: nothing is counted and nothing is waited for. *)
LEMMA NoneDispatched ==
    /\ NoDispatch \in [todo : Seq(Nat), attempt : 1..MaxRetries, waited : Seq(Nat), dead : BOOLEAN]
    /\ NoDispatch.todo = <<>> /\ ~NoDispatch.dead /\ NoDispatch.attempt = 1
<1>1. <<>> \in Seq(Nat) /\ 1 \in 1..MaxRetries
  BY ThreeTries, EmptySequence
<1> QED
  BY <1>1 DEF NoDispatch

(* What is known of a row of the log.                                      *)
LEMMA OutcomeTyped ==
    ASSUME HooksTyped, NEW i \in DOMAIN deliveries
    PROVE  /\ deliveries[i].hook \in Nat /\ deliveries[i].dispatch \in Nat
           /\ deliveries[i].attempt \in 1..MaxRetries
<1>1. deliveries \in Seq(Outcomes)
  BY DEF HooksTyped
<1>2. deliveries[i] \in Outcomes
  BY <1>1, ElementOf
<1> QED
  BY <1>2 DEF Outcomes

(* What is known of a dispatch.                                            *)
LEMMA DispatchTyped ==
    ASSUME HooksTyped
    PROVE  /\ Len(dispatched) \in Nat /\ DOMAIN dispatched = 1..Len(dispatched)
           /\ \A d \in DOMAIN dispatched : dispatched[d].hooks \in Seq(Nat)
           /\ dispatch.todo \in Seq(Nat) /\ dispatch.attempt \in 1..MaxRetries
           /\ dispatch.waited \in Seq(Nat) /\ dispatch.dead \in BOOLEAN
<1> DEFINE S == [event : Events, hooks : Seq(Nat)]
<1>1. dispatched \in Seq(S)
  BY DEF HooksTyped
<1>2. \A d \in DOMAIN dispatched : dispatched[d] \in S
  <2> HIDE DEF S
  <2> QED
    BY <1>1, ElementOf
<1>3. Len(dispatched) \in Nat /\ DOMAIN dispatched = 1..Len(dispatched)
  <2> HIDE DEF S
  <2> QED
    BY <1>1
<1> QED
  BY <1>2, <1>3 DEF HooksTyped

(* A registration changes nothing for the dispatches there were.           *)
LEMMA RegisterHookKeeps ==
    ASSUME HookInv, NEW events \in SUBSET Events, RegisterHook(events)
    PROVE  HookInv'
<1>0. /\ HooksTyped /\ hooks' = Append(hooks, events \cap Events)
      /\ UNCHANGED <<deliveries, deadLetters, dispatch, dispatched>>
  BY DEF HookInv, RegisterHook
<1>1. hooks' \in Seq(SUBSET Events) /\ \A h \in DOMAIN hooks : h \in DOMAIN hooks'
  <2>1. hooks \in Seq(SUBSET Events) /\ events \cap Events \in SUBSET Events
    BY <1>0 DEF HooksTyped
  <2> QED
    BY <1>0, <2>1, Appended
<1>2. HooksTyped'
  BY <1>0, <1>1 DEF HooksTyped
<1>3. DispatchesNameHooks' /\ OutcomesTold'
  BY <1>0, <1>1 DEF HookInv, DispatchesNameHooks, OutcomesTold, Buried
<1>4. \A d \in DOMAIN dispatched, n \in Nat : ServedTo(d, n) => ServedTo(d, n)'
  BY <1>0 DEF ServedTo, HasRow
<1>5. DispatchUnderWay' /\ LettersUnderWay'
  BY <1>0 DEF HookInv, DispatchUnderWay, LettersUnderWay, ServedTo, HasRow, Buried
<1>6. \A d \in DOMAIN dispatched' : \E n \in Nat : ServedTo(d, n)'
  BY <1>0, <1>4 DEF HookInv
<1> QED
  BY <1>2, <1>3, <1>5, <1>6 DEF HookInv

(* The order of a dispatch has each of its hooks once.                     *)
LEMMA OrderedOnce ==
    ASSUME HooksTyped, NEW event, NEW order \in Matching(event)
    PROVE  /\ order \in Seq(Nat)
           /\ \A i \in DOMAIN order : /\ order[i] \in DOMAIN hooks
                                      /\ \A j \in DOMAIN order : i # j => order[i] # order[j]
<1> DEFINE L == {h \in DOMAIN hooks : event \in hooks[h]}
<1>1. Len(hooks) \in Nat /\ DOMAIN hooks = 1..Len(hooks)
  BY DEF HooksTyped
<1>2. IsFiniteSet(L) /\ Cardinality(L) \in Nat /\ L \subseteq Nat
  <2>1. IsFiniteSet(1..Len(hooks)) /\ L \subseteq 1..Len(hooks)
    BY <1>1, FS_Interval
  <2> QED
    BY <2>1, FS_Subset, FS_CardinalityType
<1>3. order \in [1..Cardinality(L) -> L] /\ \A i, j \in 1..Cardinality(L) : i # j => order[i] # order[j]
  BY DEF Matching, SetToSeqs
<1>4. L \subseteq DOMAIN hooks
  OBVIOUS
<1> HIDE DEF L
<1>5. PICK c \in Nat : c = Cardinality(L)
  BY <1>2
<1>6. order \in Seq(Nat) /\ DOMAIN order = 1..c
  <2>1. order \in [1..c -> Nat]
    BY <1>2, <1>3, <1>5
  <2> QED
    BY <1>5, <2>1
<1>7. \A i \in 1..c : order[i] \in L /\ \A j \in 1..c : i # j => order[i] # order[j]
  BY <1>3, <1>5
<1> QED
  BY <1>4, <1>6, <1>7

(* A dispatch starts with the registrations that match, none of them       *)
(* served.                                                                 *)
LEMMA BeginDispatchKeeps ==
    ASSUME HookInv, NEW event \in Events, BeginDispatch(event)
    PROVE  HookInv'
<1>0. HooksTyped /\ DispatchesNameHooks /\ OutcomesTold /\ dispatch.todo = <<>>
      /\ UNCHANGED <<hooks, deliveries, deadLetters>>
  BY DEF HookInv, BeginDispatch
<1>1. PICK order \in Matching(event) :
          /\ order # <<>> /\ dispatched' = Append(dispatched, [event |-> event, hooks |-> order])
          /\ dispatch' = [NoDispatch EXCEPT !.todo = order]
  BY DEF BeginDispatch
<1> DEFINE r == [event |-> event, hooks |-> order]
           S == [event : Events, hooks : Seq(Nat)]
<1>2. /\ order \in Seq(Nat)
      /\ \A i \in DOMAIN order : /\ order[i] \in DOMAIN hooks
                                 /\ \A j \in DOMAIN order : i # j => order[i] # order[j]
  BY <1>0, OrderedOnce
<1>3. r \in S /\ r.hooks = order /\ dispatched \in Seq(S)
  BY <1>0, <1>2 DEF HooksTyped
<1> HIDE DEF r, S
<1>4. PICK m \in Nat : m = Len(dispatched)
  BY <1>3
<1>5. /\ dispatched' \in Seq(S) /\ Len(dispatched') = m + 1
      /\ DOMAIN dispatched' = DOMAIN dispatched \cup {m + 1} /\ m + 1 \notin DOMAIN dispatched
      /\ \A d \in DOMAIN dispatched : dispatched'[d] = dispatched[d]
      /\ dispatched'[m + 1] = r
  BY <1>1, <1>3, <1>4, Appended DEF r
<1>6. /\ dispatch' \in [todo : Seq(Nat), attempt : 1..MaxRetries, waited : Seq(Nat), dead : BOOLEAN]
      /\ dispatch'.todo = order /\ ~dispatch'.dead
  <2>1. dispatch' = [todo |-> order, attempt |-> 1, waited |-> <<>>, dead |-> FALSE]
    BY <1>1 DEF NoDispatch
  <2>2. 1 \in 1..MaxRetries /\ <<>> \in Seq(Nat)
    BY ThreeTries, EmptySequence
  <2> QED
    BY <1>2, <2>1, <2>2
<1>7. HooksTyped'
  BY <1>0, <1>5, <1>6 DEF HooksTyped, S
<1>8. /\ \A i \in DOMAIN deliveries : deliveries[i].dispatch \in Nat /\ deliveries[i].dispatch <= m
      /\ \A l \in DOMAIN deadLetters : deadLetters[l].dispatch \in Nat /\ deadLetters[l].dispatch <= m
  <2>1. \A l \in DOMAIN deadLetters : deadLetters[l].dispatch \in Nat
    <3>1. deadLetters \in Seq([hook : Nat, dispatch : Nat])
      BY <1>0 DEF HooksTyped
    <3>2. \A l \in DOMAIN deadLetters : deadLetters[l] \in [hook : Nat, dispatch : Nat]
      BY <3>1, ElementOf
    <3> QED
      BY <3>2
  <2> QED
    BY <1>0, <1>4, <2>1, OutcomeTyped DEF OutcomesTold
<1>9. DispatchesNameHooks'
  BY <1>0, <1>2, <1>3, <1>5 DEF DispatchesNameHooks
<1>10. OutcomesTold'
  BY <1>0, <1>4, <1>5, <1>8 DEF OutcomesTold, Buried
<1>11. ServedTo(m + 1, 0)'
  <2>1. ASSUME NEW h \in Nat PROVE ~HasRow(h, m + 1)'
    <3>1. \A i \in DOMAIN deliveries : deliveries[i].dispatch # m + 1
      BY <1>8
    <3> QED
      BY <1>0, <3>1 DEF HasRow
  <2>2. \A i \in DOMAIN order : ~(i <= 0)
    BY <1>2
  <2>3. dispatched'[m + 1].hooks = order
    BY <1>3, <1>5
  <2> QED
    BY <2>1, <2>2, <2>3 DEF ServedTo
<1>12. ASSUME NEW d \in DOMAIN dispatched' PROVE \E n \in Nat : ServedTo(d, n)'
  <2>1. CASE d = m + 1
    BY <1>11, <2>1
  <2>2. CASE d # m + 1
    <3>1. d \in DOMAIN dispatched /\ dispatched'[d] = dispatched[d]
      BY <1>5, <2>2
    <3>2. PICK n \in Nat : ServedTo(d, n)
      BY <3>1 DEF HookInv
    <3>3. ServedTo(d, n)'
      <4>1. ASSUME NEW h \in Nat PROVE HasRow(h, d)' <=> HasRow(h, d)
        BY <1>0 DEF HasRow
      <4> QED
        BY <3>1, <3>2, <4>1 DEF ServedTo
    <3> QED
      BY <3>3
  <2> QED
    BY <2>1, <2>2
<1>13. DispatchUnderWay'
  <2>1. \A j \in DOMAIN order : 0 + j = j
    BY <1>2
  <2> QED
    BY <1>3, <1>4, <1>5, <1>6, <1>11, <2>1 DEF DispatchUnderWay
<1>14. LettersUnderWay'
  BY <1>0, <1>5, <1>6, <1>8 DEF LettersUnderWay, Buried
<1> QED
  BY <1>7, <1>9, <1>10, <1>12, <1>13, <1>14 DEF HookInv

(* A sequence that is not empty is its head and what follows it.           *)
LEMMA HeadAndTail ==
    ASSUME NEW S, NEW s \in Seq(S), s # <<>>
    PROVE  /\ Head(s) = s[1] /\ 1 \in DOMAIN s /\ s[1] \in S /\ Tail(s) \in Seq(S)
           /\ \A j \in DOMAIN Tail(s) : j \in Nat /\ j >= 1 /\ j + 1 \in DOMAIN s /\ Tail(s)[j] = s[j + 1]
  OBVIOUS

(* What is known of the hook an attempt is for: it is registered, has no   *)
(* outcome yet, and comes once in its dispatch.                            *)
LEMMA NextHook ==
    ASSUME HookInv, NEW m, m = Len(dispatched), NEW x, x = dispatch.todo[1], dispatch.todo # <<>>
    PROVE  /\ m \in Nat /\ m \in DOMAIN dispatched
           /\ x \in Nat /\ x \in DOMAIN hooks /\ Head(dispatch.todo) = x /\ 1 \in DOMAIN dispatch.todo
           /\ \A j \in DOMAIN dispatch.todo : j \in Nat /\ dispatch.todo[j] \in Nat /\ (dispatch.todo[j] = x => j = 1)
           /\ \E n \in Nat :
                 /\ ServedTo(m, n) /\ ~HasRow(x, m)
                 /\ \A j \in DOMAIN dispatch.todo :
                       /\ n + j \in DOMAIN dispatched[m].hooks
                       /\ dispatch.todo[j] = dispatched[m].hooks[n + j]
                 /\ \A i \in DOMAIN dispatched[m].hooks :
                       i \in Nat /\ dispatched[m].hooks[i] \in Nat /\ (dispatched[m].hooks[i] = x <=> i = n + 1)
<1>0. HooksTyped /\ DispatchesNameHooks /\ DispatchUnderWay
  BY DEF HookInv
<1>1. /\ m \in Nat /\ dispatch.todo \in Seq(Nat) /\ \A d \in DOMAIN dispatched : dispatched[d].hooks \in Seq(Nat)
  BY <1>0, DispatchTyped
<1>2. /\ Head(dispatch.todo) = x /\ 1 \in DOMAIN dispatch.todo /\ x \in Nat
      /\ \A j \in DOMAIN dispatch.todo : j \in Nat /\ dispatch.todo[j] \in Nat
  BY <1>1, HeadAndTail
<1>3. PICK n \in Nat :
          /\ ServedTo(m, n) /\ m \in DOMAIN dispatched
          /\ \A j \in DOMAIN dispatch.todo : n + j \in DOMAIN dispatched[m].hooks /\ dispatch.todo[j] = dispatched[m].hooks[n + j]
  BY <1>0 DEF DispatchUnderWay
<1>4. \A i \in DOMAIN dispatched[m].hooks :
          /\ i \in Nat /\ dispatched[m].hooks[i] \in Nat /\ dispatched[m].hooks[i] \in DOMAIN hooks
          /\ \A j \in DOMAIN dispatched[m].hooks : i # j => dispatched[m].hooks[i] # dispatched[m].hooks[j]
  <2>1. dispatched[m].hooks \in Seq(Nat)
    BY <1>1, <1>3
  <2>2. \A i \in DOMAIN dispatched[m].hooks : i \in Nat /\ dispatched[m].hooks[i] \in Nat
    BY <2>1, ElementOf
  <2> QED
    BY <1>0, <1>3, <2>2 DEF DispatchesNameHooks
<1>5. n + 1 \in DOMAIN dispatched[m].hooks /\ x = dispatched[m].hooks[n + 1]
  BY <1>2, <1>3
<1>6. ~HasRow(x, m)
  BY <1>2, <1>3, <1>5 DEF ServedTo
<1>7. \A i \in DOMAIN dispatched[m].hooks : dispatched[m].hooks[i] = x <=> i = n + 1
  BY <1>4, <1>5
<1>8. ASSUME NEW j \in DOMAIN dispatch.todo, dispatch.todo[j] = x PROVE j = 1
  <2>1. n + j = n + 1
    BY <1>3, <1>7, <1>8
  <2> QED
    BY <1>2, <2>1
<1>9. x \in DOMAIN hooks
  BY <1>4, <1>5
<1> QED
  BY <1>1, <1>2, <1>3, <1>4, <1>6, <1>7, <1>8, <1>9

(* A failed attempt leaves the log and what is to do as they are.          *)
LEMMA AttemptFailsKeeps ==
    ASSUME HookInv, AttemptFails
    PROVE  HookInv'
<1>0. /\ HooksTyped /\ dispatch.attempt < MaxRetries
      /\ dispatch' = [dispatch EXCEPT !.attempt = @ + 1, !.waited = Append(@, RetryDelays[dispatch.attempt])]
      /\ UNCHANGED <<hooks, deliveries, deadLetters, dispatched>>
  BY DEF HookInv, AttemptFails
<1>1. /\ dispatch \in [todo : Seq(Nat), attempt : 1..MaxRetries, waited : Seq(Nat), dead : BOOLEAN]
      /\ dispatch.todo \in Seq(Nat) /\ dispatch.attempt \in 1..MaxRetries
      /\ dispatch.waited \in Seq(Nat) /\ dispatch.dead \in BOOLEAN
  BY <1>0, DispatchTyped DEF HooksTyped
<1>2. dispatch.attempt + 1 \in 1..MaxRetries /\ RetryDelays[dispatch.attempt] \in Nat
  BY <1>0, <1>1 DEF MaxRetries, RetryDelays
<1>3. Append(dispatch.waited, RetryDelays[dispatch.attempt]) \in Seq(Nat)
  BY <1>1, <1>2, Appended
<1>4. dispatch' = [todo |-> dispatch.todo, attempt |-> dispatch.attempt + 1,
                   waited |-> Append(dispatch.waited, RetryDelays[dispatch.attempt]), dead |-> dispatch.dead]
  BY <1>0, <1>1
<1>5. /\ dispatch' \in [todo : Seq(Nat), attempt : 1..MaxRetries, waited : Seq(Nat), dead : BOOLEAN]
      /\ dispatch'.todo = dispatch.todo /\ dispatch'.dead = dispatch.dead
  BY <1>1, <1>2, <1>3, <1>4
<1>6. HooksTyped'
  BY <1>0, <1>5 DEF HooksTyped
<1>7. DispatchesNameHooks' /\ OutcomesTold'
  BY <1>0 DEF HookInv, DispatchesNameHooks, OutcomesTold, Buried
<1>8. DispatchUnderWay' /\ LettersUnderWay'
  BY <1>0, <1>5 DEF HookInv, DispatchUnderWay, LettersUnderWay, ServedTo, HasRow, Buried
<1>9. \A d \in DOMAIN dispatched' : \E n \in Nat : ServedTo(d, n)'
  BY <1>0 DEF HookInv, ServedTo, HasRow
<1> QED
  BY <1>6, <1>7, <1>8, <1>9 DEF HookInv

(* A dispatch that is given up leaves nothing to do.                       *)
LEMMA DispatchAbortsKeeps ==
    ASSUME HookInv, DispatchAborts
    PROVE  HookInv'
<1>0. /\ HooksTyped /\ dispatch' = NoDispatch
      /\ UNCHANGED <<hooks, deliveries, deadLetters, dispatched>>
  BY DEF HookInv, DispatchAborts
<1>1. HooksTyped'
  BY <1>0, NoneDispatched DEF HooksTyped
<1>2. DispatchesNameHooks' /\ OutcomesTold'
  BY <1>0 DEF HookInv, DispatchesNameHooks, OutcomesTold, Buried
<1>3. DispatchUnderWay' /\ LettersUnderWay'
  BY <1>0, NoneDispatched, EmptySequence DEF DispatchUnderWay, LettersUnderWay
<1>4. \A d \in DOMAIN dispatched' : \E n \in Nat : ServedTo(d, n)'
  BY <1>0 DEF HookInv, ServedTo, HasRow
<1> QED
  BY <1>1, <1>2, <1>3, <1>4 DEF HookInv

(* A burial makes the letter of the hook that is tried dead, and no other. *)
LEMMA BuryLetterKeeps ==
    ASSUME HookInv, BuryLetter
    PROVE  HookInv'
<1> DEFINE S == [hook : Nat, dispatch : Nat]
<1>0. /\ HooksTyped /\ OutcomesTold /\ dispatch.todo # <<>> /\ ~dispatch.dead
      /\ deadLetters' = Append(deadLetters, [hook |-> Head(dispatch.todo), dispatch |-> Len(dispatched)])
      /\ dispatch' = [dispatch EXCEPT !.dead = TRUE]
      /\ UNCHANGED <<hooks, deliveries, dispatched>>
  BY DEF HookInv, BuryLetter
<1>1. PICK m, x : m = Len(dispatched) /\ x = dispatch.todo[1]
  OBVIOUS
<1> DEFINE e == [hook |-> x, dispatch |-> m]
<1>2. /\ m \in Nat /\ x \in Nat /\ x \in DOMAIN hooks /\ Head(dispatch.todo) = x /\ 1 \in DOMAIN dispatch.todo
      /\ \A j \in DOMAIN dispatch.todo : j \in Nat /\ dispatch.todo[j] \in Nat /\ (dispatch.todo[j] = x => j = 1)
      /\ ~HasRow(x, m)
  BY <1>0, <1>1, NextHook
<1>3. e \in S /\ e.hook = x /\ e.dispatch = m /\ deadLetters \in Seq(S) /\ deadLetters' = Append(deadLetters, e)
  BY <1>0, <1>1, <1>2 DEF HooksTyped
<1> HIDE DEF S, e
<1>4. PICK k \in Nat : k = Len(deadLetters) + 1
  BY <1>3, Appended
<1>5. /\ deadLetters' \in Seq(S) /\ DOMAIN deadLetters' = DOMAIN deadLetters \cup {k} /\ k \notin DOMAIN deadLetters
      /\ \A l \in DOMAIN deadLetters : deadLetters'[l] = deadLetters[l]
      /\ deadLetters'[k] = e
  BY <1>3, <1>4, Appended
<1>6. \A h, d \in Nat : Buried(h, d)' <=> Buried(h, d) \/ (h = x /\ d = m)
  BY <1>3, <1>5 DEF Buried
<1>7. /\ dispatch' \in [todo : Seq(Nat), attempt : 1..MaxRetries, waited : Seq(Nat), dead : BOOLEAN]
      /\ dispatch'.todo = dispatch.todo /\ dispatch'.dead
  BY <1>0 DEF HooksTyped
<1>8. HooksTyped'
  BY <1>0, <1>5, <1>7 DEF HooksTyped, S
<1>9. DispatchesNameHooks' /\ DispatchUnderWay' /\ \A d \in DOMAIN dispatched' : \E n \in Nat : ServedTo(d, n)'
  BY <1>0, <1>7 DEF HookInv, DispatchesNameHooks, DispatchUnderWay, ServedTo, HasRow
<1>10. OutcomesTold'
  <2>1. ASSUME NEW i \in DOMAIN deliveries, NEW h \in Nat, NEW d \in Nat,
               h = deliveries[i].hook, d = deliveries[i].dispatch
        PROVE  deliveries[i].status = "dead_lettered" <=> Buried(h, d)'
    <3>1. ~(h = x /\ d = m)
      BY <1>2, <2>1 DEF HasRow
    <3>2. deliveries[i].status = "dead_lettered" <=> Buried(h, d)
      BY <1>0, <2>1 DEF OutcomesTold
    <3> QED
      BY <1>6, <3>1, <3>2
  <2>2. \A l \in DOMAIN deadLetters' : deadLetters'[l].dispatch <= m
    BY <1>0, <1>1, <1>2, <1>3, <1>5 DEF OutcomesTold
  <2>3. \A i \in DOMAIN deliveries : \A h, d \in Nat : h = deliveries[i].hook /\ d = deliveries[i].dispatch =>
            (deliveries[i].status = "dead_lettered" <=> Buried(h, d)')
    BY <2>1
  <2> QED
    BY <1>0, <1>1, <2>2, <2>3 DEF OutcomesTold
<1>11. LettersUnderWay'
  <2>1. ASSUME NEW j \in DOMAIN dispatch.todo, NEW h \in Nat, h = dispatch.todo[j]
        PROVE  Buried(h, m)' <=> j = 1
    <3>1. ~Buried(h, m)
      BY <1>0, <1>1, <2>1 DEF HookInv, LettersUnderWay
    <3> QED
      BY <1>1, <1>2, <1>6, <2>1, <3>1
  <2> QED
    BY <1>0, <1>1, <1>7, <2>1 DEF LettersUnderWay
<1> QED
  BY <1>8, <1>9, <1>10, <1>11 DEF HookInv

(* A row in the log is the first of its hook and dispatch, it tells of a   *)
(* burial just when there was one, and the dispatch goes on.               *)
LEMMA RowAdded ==
    ASSUME HookInv, dispatch.todo # <<>>, NEW status \in {"delivered", "dead_lettered"},
           status = "dead_lettered" <=> dispatch.dead,
           deliveries' = Delivery(status), dispatch' = Following,
           UNCHANGED <<hooks, deadLetters, dispatched>>
    PROVE  HookInv'
<1>0. HooksTyped /\ OutcomesTold /\ DispatchesNameHooks /\ LettersUnderWay
  BY DEF HookInv
<1>1. PICK m, x : m = Len(dispatched) /\ x = dispatch.todo[1]
  OBVIOUS
<1>2. /\ m \in Nat /\ m \in DOMAIN dispatched
      /\ x \in Nat /\ x \in DOMAIN hooks /\ Head(dispatch.todo) = x /\ 1 \in DOMAIN dispatch.todo
      /\ \A j \in DOMAIN dispatch.todo : j \in Nat /\ dispatch.todo[j] \in Nat /\ (dispatch.todo[j] = x => j = 1)
  BY <1>1, NextHook
<1>3. PICK n \in Nat :
          /\ ServedTo(m, n) /\ ~HasRow(x, m)
          /\ \A j \in DOMAIN dispatch.todo :
                /\ n + j \in DOMAIN dispatched[m].hooks
                /\ dispatch.todo[j] = dispatched[m].hooks[n + j]
          /\ \A i \in DOMAIN dispatched[m].hooks :
                i \in Nat /\ dispatched[m].hooks[i] \in Nat /\ (dispatched[m].hooks[i] = x <=> i = n + 1)
  BY <1>1, NextHook, SMTT(60)
<1> DEFINE e == [hook |-> x, dispatch |-> m, status |-> status, attempt |-> dispatch.attempt]
<1>4. /\ e \in Outcomes /\ e.hook = x /\ e.dispatch = m /\ e.status = status
      /\ deliveries' = Append(deliveries, e) /\ deliveries \in Seq(Outcomes)
  <2>1. dispatch.attempt \in 1..MaxRetries
    BY <1>0, DispatchTyped
  <2> QED
    BY <1>0, <1>1, <1>2, <2>1 DEF Outcomes, Delivery, HooksTyped
<1> HIDE DEF e
<1>5. PICK k \in Nat : k = Len(deliveries) + 1
  BY <1>4, Appended
<1>6. /\ deliveries' \in Seq(Outcomes) /\ DOMAIN deliveries' = DOMAIN deliveries \cup {k} /\ k \notin DOMAIN deliveries
      /\ \A i \in DOMAIN deliveries : deliveries'[i] = deliveries[i]
      /\ deliveries'[k] = e
  BY <1>4, <1>5, Appended
<1>7. \A h, d \in Nat : HasRow(h, d)' <=> HasRow(h, d) \/ (h = x /\ d = m)
  BY <1>4, <1>6 DEF HasRow
<1>8. /\ dispatch' \in [todo : Seq(Nat), attempt : 1..MaxRetries, waited : Seq(Nat), dead : BOOLEAN]
      /\ dispatch'.todo = Tail(dispatch.todo) /\ ~dispatch'.dead
      /\ \A j \in DOMAIN dispatch'.todo :
             /\ j \in Nat /\ j >= 1 /\ j + 1 \in DOMAIN dispatch.todo
             /\ dispatch'.todo[j] = dispatch.todo[j + 1]
  <2>1. dispatch.todo \in Seq(Nat)
    BY <1>0, DispatchTyped
  <2>2. /\ Tail(dispatch.todo) \in Seq(Nat)
        /\ \A j \in DOMAIN Tail(dispatch.todo) :
              j \in Nat /\ j >= 1 /\ j + 1 \in DOMAIN dispatch.todo /\ Tail(dispatch.todo)[j] = dispatch.todo[j + 1]
    BY <2>1, HeadAndTail
  <2>3. dispatch' = [todo |-> Tail(dispatch.todo), attempt |-> 1, waited |-> <<>>, dead |-> FALSE]
    BY DEF Following, NoDispatch
  <2>4. 1 \in 1..MaxRetries /\ <<>> \in Seq(Nat)
    BY ThreeTries, EmptySequence
  <2> QED
    BY <2>2, <2>3, <2>4
<1>9. HooksTyped'
  BY <1>0, <1>6, <1>8 DEF HooksTyped
<1>10. DispatchesNameHooks'
  BY <1>0 DEF DispatchesNameHooks
<1>11. OutcomesTold'
  <2>1. Buried(x, m) <=> dispatch.dead
    BY <1>0, <1>1, <1>2 DEF LettersUnderWay
  <2>2. ASSUME NEW i \in DOMAIN deliveries PROVE ~(deliveries[i].hook = x /\ deliveries[i].dispatch = m)
    BY <1>3, <2>2 DEF HasRow
  <2>3. ASSUME NEW i \in DOMAIN deliveries'
        PROVE  /\ deliveries'[i].dispatch <= m /\ deliveries'[i].hook \in DOMAIN hooks
               /\ \A h, d \in Nat : h = deliveries'[i].hook /\ d = deliveries'[i].dispatch =>
                     (deliveries'[i].status = "dead_lettered" <=> Buried(h, d))
    <3>1. CASE i = k
      BY <1>2, <1>4, <1>6, <2>1, <3>1
    <3>2. CASE i \in DOMAIN deliveries
      BY <1>0, <1>1, <1>6, <3>2 DEF OutcomesTold
    <3> QED
      BY <1>6, <2>3, <3>1, <3>2
  <2>4. ASSUME NEW i \in DOMAIN deliveries', NEW j \in DOMAIN deliveries',
               deliveries'[i].hook = deliveries'[j].hook, deliveries'[i].dispatch = deliveries'[j].dispatch
        PROVE  i = j
    <3>1. CASE i = k \/ j = k
      BY <1>4, <1>6, <2>2, <2>4, <3>1
    <3>2. CASE i # k /\ j # k
      BY <1>0, <1>6, <2>4, <3>2 DEF OutcomesTold
    <3> QED
      BY <3>1, <3>2
  <2>5. \A h, d \in Nat : Buried(h, d)' <=> Buried(h, d)
    BY DEF Buried
  <2>6. \A l \in DOMAIN deadLetters' : deadLetters'[l].dispatch <= Len(dispatched')
    BY <1>0 DEF OutcomesTold
  <2> QED
    BY <1>1, <2>3, <2>4, <2>5, <2>6 DEF OutcomesTold
<1>12. ServedTo(m, n + 1)'
  <2>1. ASSUME NEW i \in DOMAIN dispatched[m].hooks, NEW h \in Nat, h = dispatched[m].hooks[i]
        PROVE  HasRow(h, m)' <=> i <= n + 1
    <3>1. HasRow(h, m) <=> i <= n
      BY <1>3, <2>1 DEF ServedTo
    <3>2. h = x <=> i = n + 1
      BY <1>3, <2>1
    <3>3. i \in Nat
      BY <1>3
    <3> QED
      BY <1>2, <1>7, <3>1, <3>2, <3>3
  <2> QED
    BY <2>1 DEF ServedTo
<1>13. ASSUME NEW d \in DOMAIN dispatched' PROVE \E c \in Nat : ServedTo(d, c)'
  <2>1. CASE d = m
    BY <1>12, <2>1
  <2>2. CASE d # m
    <3>1. d \in DOMAIN dispatched /\ d \in Nat
      BY <1>0, DispatchTyped
    <3>2. PICK c \in Nat : ServedTo(d, c)
      BY <3>1 DEF HookInv
    <3>3. \A h \in Nat : HasRow(h, d)' <=> HasRow(h, d)
      BY <1>7, <2>2, <3>1
    <3> QED
      BY <3>2, <3>3 DEF ServedTo
  <2> QED
    BY <2>1, <2>2
<1>14. DispatchUnderWay'
  <2>1. \A j \in DOMAIN dispatch'.todo :
            /\ (n + 1) + j \in DOMAIN dispatched[m].hooks
            /\ dispatch'.todo[j] = dispatched[m].hooks[(n + 1) + j]
    <3>1. ASSUME NEW j \in DOMAIN dispatch'.todo PROVE (n + 1) + j = n + (j + 1)
      <4>1. j \in Nat
        BY <1>8
      <4> QED
        BY <4>1
    <3> QED
      BY <1>3, <1>8, <3>1
  <2> QED
    BY <1>1, <1>2, <1>12, <2>1 DEF DispatchUnderWay
<1>15. LettersUnderWay'
  <2>1. ASSUME NEW j \in DOMAIN dispatch'.todo, NEW h \in Nat, h = dispatch'.todo[j]
        PROVE  ~Buried(h, m)
    <3>1. j + 1 \in DOMAIN dispatch.todo /\ h = dispatch.todo[j + 1] /\ j + 1 # 1
      BY <1>8, <2>1
    <3> QED
      BY <1>0, <1>1, <3>1 DEF LettersUnderWay
  <2> QED
    BY <1>1, <1>8, <2>1 DEF LettersUnderWay, Buried
<1> QED
  BY <1>9, <1>10, <1>11, <1>13, <1>14, <1>15 DEF HookInv

(* Nothing is registered at the start, and nothing was delivered.          *)
LEMMA HookInitially == HookInit => HookInv
<1> SUFFICES ASSUME HookInit PROVE HookInv
  OBVIOUS
<1>1. /\ hooks = <<>> /\ deliveries = <<>> /\ deadLetters = <<>> /\ dispatched = <<>> /\ dispatch = NoDispatch
      /\ DOMAIN hooks = {} /\ DOMAIN deliveries = {} /\ DOMAIN deadLetters = {} /\ DOMAIN dispatched = {}
  BY EmptySequence DEF HookInit
<1>2. HooksTyped
  BY <1>1, NoneDispatched, EmptySequence DEF HooksTyped
<1>3. DispatchesNameHooks /\ OutcomesTold
  BY <1>1 DEF DispatchesNameHooks, OutcomesTold
<1>4. DispatchUnderWay /\ LettersUnderWay
  BY <1>1, NoneDispatched, EmptySequence DEF DispatchUnderWay, LettersUnderWay
<1> QED
  BY <1>1, <1>2, <1>3, <1>4 DEF HookInv

(* Every step of the dispatcher keeps the account of its deliveries.       *)
LEMMA HookNext == HookInv /\ [HookStep]_hookVars => HookInv'
<1> SUFFICES ASSUME HookInv, [HookStep]_hookVars PROVE HookInv'
  OBVIOUS
<1>1. ASSUME NEW events \in SUBSET Events, RegisterHook(events) PROVE HookInv'
  BY <1>1, RegisterHookKeeps
<1>2. ASSUME NEW event \in Events, BeginDispatch(event) PROVE HookInv'
  BY <1>2, BeginDispatchKeeps
<1>3. CASE Deliver
  <2>1. dispatch.dead \in BOOLEAN
    BY DispatchTyped DEF HookInv
  <2>2. "delivered" = "dead_lettered" <=> dispatch.dead
    BY <1>3, <2>1 DEF Deliver
  <2> QED
    BY <1>3, <2>2, RowAdded DEF Deliver
<1>4. CASE AttemptFails
  BY <1>4, AttemptFailsKeeps
<1>5. CASE BuryLetter
  BY <1>5, BuryLetterKeeps
<1>6. CASE RecordBurial
  <2>1. dispatch.todo # <<>> /\ dispatch.dead
    BY <1>6 DEF RecordBurial, HookInv, LettersUnderWay
  <2> QED
    BY <1>6, <2>1, RowAdded DEF RecordBurial
<1>7. CASE DispatchAborts
  BY <1>7, DispatchAbortsKeeps
<1>8. CASE UNCHANGED hookVars
  <2>0. UNCHANGED <<hooks, deliveries, deadLetters, dispatch, dispatched>>
    BY <1>8 DEF hookVars
  <2>1. HooksTyped' /\ DispatchesNameHooks'
    BY <2>0 DEF HookInv, HooksTyped, DispatchesNameHooks
  <2>3. OutcomesTold'
    <3>1. OutcomesTold /\ \A h, d \in Nat : Buried(h, d)' <=> Buried(h, d)
      BY <2>0 DEF HookInv, Buried
    <3> QED
      BY <2>0, <3>1 DEF OutcomesTold
  <2>4. LettersUnderWay' /\ \A d \in DOMAIN dispatched' : \E n \in Nat : ServedTo(d, n)'
    BY <2>0 DEF HookInv, LettersUnderWay, ServedTo, HasRow, Buried
  <2>2. DispatchUnderWay'
    BY <2>0 DEF HookInv, DispatchUnderWay, ServedTo, HasRow
  <2> QED
    BY <2>1, <2>2, <2>3, <2>4 DEF HookInv
<1> QED
  BY <1>1, <1>2, <1>3, <1>4, <1>5, <1>6, <1>7, <1>8 DEF HookStep

(* The inductive invariant of the dispatcher: what the dispatch that runs  *)
(* has served, what it has left, and which letters are dead               *)
(* (webhook.py:131-215).                                                   *)
THEOREM HookInvariant == HookSpec => []HookInv
  BY HookInitially, HookNext, PTL DEF HookSpec

(* The account says that a hook has one outcome of each event.             *)
LEMMA OneOutcome == HookInv => OneOutcomePerHook
<1> SUFFICES ASSUME HookInv, NEW d \in DOMAIN dispatched, NEW h \in DOMAIN hooks
             PROVE  /\ Cardinality(Rows(h, d)) <= 1
                    /\ \A i \in Rows(h, d) : (deliveries[i].status = "dead_lettered") =
                           \E l \in DOMAIN deadLetters : deadLetters[l].hook = h /\ deadLetters[l].dispatch = d
  BY DEF OneOutcomePerHook
<1>0. HooksTyped /\ OutcomesTold /\ h \in Nat /\ d \in Nat
  BY DispatchTyped DEF HookInv, HooksTyped
<1>1. \A i, j \in Rows(h, d) : i = j
  BY <1>0 DEF OutcomesTold, Rows
<1>2. ASSUME NEW i \in Rows(h, d)
      PROVE  (deliveries[i].status = "dead_lettered") =
                 \E l \in DOMAIN deadLetters : deadLetters[l].hook = h /\ deadLetters[l].dispatch = d
  <2>1. deliveries[i].status = "dead_lettered" <=> Buried(h, d)
    BY <1>0, <1>2 DEF OutcomesTold, Rows
  <2> QED
    BY <2>1 DEF Buried
<1> QED
  BY <1>1, <1>2, AtMostOne

(* The account says that a hook is passed only with an outcome.            *)
LEMMA ServedInOrder == HookInv => NoneSkipped
<1> SUFFICES ASSUME HookInv, NEW d \in DOMAIN dispatched,
                    NEW i \in DOMAIN dispatched[d].hooks, NEW j \in DOMAIN dispatched[d].hooks,
                    i < j, Rows(dispatched[d].hooks[j], d) # {}
             PROVE  Rows(dispatched[d].hooks[i], d) # {}
  BY DEF NoneSkipped
<1>1. PICK n \in Nat : ServedTo(d, n)
  BY DEF HookInv
<1>2. dispatched[d].hooks \in Seq(Nat)
  BY DispatchTyped DEF HookInv
<1>3. i \in Nat /\ j \in Nat /\ dispatched[d].hooks[i] \in Nat /\ dispatched[d].hooks[j] \in Nat
  BY <1>2, ElementOf
<1>4. HasRow(dispatched[d].hooks[j], d)
  BY DEF Rows, HasRow
<1>5. j <= n
  BY <1>1, <1>3, <1>4 DEF ServedTo
<1>6. HasRow(dispatched[d].hooks[i], d)
  BY <1>1, <1>3, <1>5 DEF ServedTo
<1> QED
  BY <1>6 DEF Rows, HasRow

(* The types hold.                                                         *)
LEMMA HookTypes == HookInv => HookTypeOK
<1> SUFFICES ASSUME HookInv PROVE HookTypeOK
  OBVIOUS
<1>0. HooksTyped /\ OutcomesTold
  BY DEF HookInv
<1>1. \A h \in DOMAIN hooks : hooks[h] \subseteq Events
  BY <1>0, ElementOf DEF HooksTyped
<1> QED
  BY <1>0, <1>1, OutcomeTyped, DispatchTyped DEF HookTypeOK, OutcomesTold

(* An event ends at most once for a registration, delivered or given up,   *)
(* and the log gives up what is a dead letter (webhook.py:177-207).        *)
THEOREM OutcomesAreSingle == HookSpec => []OneOutcomePerHook
  BY OneOutcome, HookInvariant, PTL

(* A dispatch serves its registrations in the order it read them and       *)
(* passes none over (webhook.py:149-215).                                  *)
THEOREM HooksAreServedInOrder == HookSpec => []NoneSkipped
  BY ServedInOrder, HookInvariant, PTL
=============================================================================
