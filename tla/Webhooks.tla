------------------------------- MODULE Webhooks -------------------------------
(***************************************************************************)
(* app/integrations/webhook.py: the registry of webhooks and the           *)
(* dispatcher, which tries each registration a number of times, waits in   *)
(* between, and gives up into the dead letters.  A registration may arrive *)
(* while a dispatch waits.                                                 *)
(***************************************************************************)
EXTENDS Integers, FiniteSets, Sequences, SequencesExt

CONSTANTS
    Events,           \* the valid event types
    MaxRegistrations, \* bound: registrations
    MaxDispatches     \* bound: dispatches

ASSUME WebhookAssumption == MaxRegistrations \in Nat /\ MaxDispatches \in Nat

VARIABLES
    hooks,            \* Seq of event sets: webhook_registrations, all active
    deliveries,       \* Seq of [hook, dispatch, status, attempt]: webhook_deliveries
    deadLetters,      \* Seq of [hook, dispatch]
    dispatch,         \* the dispatch that runs
    dispatched        \* Seq of [event, hooks]: history, the dispatches begun

hookVars == <<hooks, deliveries, deadLetters, dispatch, dispatched>>

\* RETRY_DELAYS, in seconds; the last one is never waited for.
RetryDelays == <<5, 30, 300>>

MaxRetries == Len(RetryDelays)

NoDispatch == [todo |-> <<>>, attempt |-> 1, waited |-> <<>>, dead |-> FALSE]
-----------------------------------------------------------------------------
\* register: unknown event types are dropped, and at least one must be left.
RegisterHook(events) ==
    /\ Len(hooks) < MaxRegistrations /\ events \cap Events # {}
    /\ hooks' = Append(hooks, events \cap Events)
    /\ UNCHANGED <<deliveries, deadLetters, dispatch, dispatched>>

\* list_all, by created_at: registrations of the same second come in any order.
Matching(event) == SetToSeqs({h \in DOMAIN hooks : event \in hooks[h]})

\* dispatch: the registrations are read once.
BeginDispatch(event) ==
    /\ dispatch.todo = <<>> /\ Len(dispatched) < MaxDispatches
    /\ \E order \in Matching(event) \ {<<>>} :
           /\ dispatched' = Append(dispatched, [event |-> event, hooks |-> order])
           /\ dispatch' = [NoDispatch EXCEPT !.todo = order]
    /\ UNCHANGED <<hooks, deliveries, deadLetters>>

Delivery(status) ==
    Append(deliveries, [hook |-> Head(dispatch.todo), dispatch |-> Len(dispatched),
                        status |-> status, attempt |-> dispatch.attempt])

Following == [NoDispatch EXCEPT !.todo = Tail(dispatch.todo)]

\* Mutant: the loop is not left after a delivery.
DeliverAgain ==
    /\ dispatch.todo # <<>> /\ ~dispatch.dead
    /\ deliveries' = Delivery("delivered")
    /\ dispatch' = IF dispatch.attempt = MaxRetries THEN Following
                   ELSE [dispatch EXCEPT !.attempt = @ + 1]
    /\ UNCHANGED <<hooks, deadLetters, dispatched>>

\* An attempt succeeds: it is recorded and the loop left.
Deliver ==
    /\ dispatch.todo # <<>> /\ ~dispatch.dead
    /\ deliveries' = Delivery("delivered")
    /\ dispatch' = Following
    /\ UNCHANGED <<hooks, deadLetters, dispatched>>

\* Mutant: one attempt more than there are delays.
AttemptFailsOnceMore ==
    /\ dispatch.todo # <<>> /\ dispatch.attempt <= MaxRetries
    /\ dispatch' = [dispatch EXCEPT !.attempt = @ + 1]
    /\ UNCHANGED <<hooks, deliveries, deadLetters, dispatched>>

\* An attempt fails before the last: wait, and try again.
AttemptFails ==
    /\ dispatch.todo # <<>> /\ dispatch.attempt < MaxRetries
    /\ dispatch' = [dispatch EXCEPT !.attempt = @ + 1,
                                    !.waited = Append(@, RetryDelays[dispatch.attempt])]
    /\ UNCHANGED <<hooks, deliveries, deadLetters, dispatched>>

\* The last attempt fails: the dead letter is a transaction of its own.
BuryLetter ==
    /\ dispatch.todo # <<>> /\ dispatch.attempt = MaxRetries /\ ~dispatch.dead
    /\ deadLetters' = Append(deadLetters, [hook |-> Head(dispatch.todo), dispatch |-> Len(dispatched)])
    /\ dispatch' = [dispatch EXCEPT !.dead = TRUE]
    /\ UNCHANGED <<hooks, deliveries, dispatched>>

RecordBurial ==
    /\ dispatch.dead
    /\ deliveries' = Delivery("dead_lettered")
    /\ dispatch' = Following
    /\ UNCHANGED <<hooks, deadLetters, dispatched>>

\* The dead letter or its record cannot be written, or the process dies: the
\* registrations still to do are forgotten.
DispatchAborts ==
    /\ dispatch.todo # <<>>
    /\ dispatch' = NoDispatch
    /\ UNCHANGED <<hooks, deliveries, deadLetters, dispatched>>

HookInit ==
    /\ hooks = <<>> /\ deliveries = <<>> /\ deadLetters = <<>>
    /\ dispatch = NoDispatch /\ dispatched = <<>>

HookStep ==
    \/ \E events \in SUBSET Events : RegisterHook(events)
    \/ \E event \in Events : BeginDispatch(event)
    \/ Deliver \/ AttemptFails \/ BuryLetter \/ RecordBurial \/ DispatchAborts

HookSpec == HookInit /\ [][HookStep]_hookVars
-----------------------------------------------------------------------------
HookTypeOK ==
    /\ \A h \in DOMAIN hooks : hooks[h] \subseteq Events
    /\ \A i \in DOMAIN deliveries : /\ deliveries[i].hook \in DOMAIN hooks
                                    /\ deliveries[i].attempt \in 1..MaxRetries
    /\ dispatch.attempt \in 1..MaxRetries

Rows(h, d) == {i \in DOMAIN deliveries : deliveries[i].hook = h /\ deliveries[i].dispatch = d}

\* One event ends at most once for a registration: delivered or given up, never
\* both, and what the log gave up is a dead letter (webhook.py:177-207).
OneOutcomePerHook ==
    \A d \in DOMAIN dispatched : \A h \in DOMAIN hooks :
        /\ Cardinality(Rows(h, d)) <= 1
        /\ \A i \in Rows(h, d) : (deliveries[i].status = "dead_lettered") =
               \E l \in DOMAIN deadLetters : deadLetters[l].hook = h /\ deadLetters[l].dispatch = d

\* The hooks of a dispatch are served in the order they were read in, and none is
\* passed over: an outcome for a later one means an outcome for the earlier.
NoneSkipped ==
    \A d \in DOMAIN dispatched : \A i, j \in DOMAIN dispatched[d].hooks :
        i < j /\ Rows(dispatched[d].hooks[j], d) # {} => Rows(dispatched[d].hooks[i], d) # {}
=============================================================================
