----------------------------- MODULE Connectors -----------------------------
(***************************************************************************)
(* app/integrations/{base,email,scm,ci}.py and app/api/integrations.py:    *)
(* what is previewed, confirmed by its id and then executed.  A handler    *)
(* never awaits, so that one call runs at a time; the process may die      *)
(* inside one.  The API builds a connector for every request.              *)
(***************************************************************************)
EXTENDS Integers, FiniteSets, Sequences

CONSTANTS
    Payloads,         \* what a client can ask for; its recipient's domain below
    DomainOf,         \* [Payloads -> a domain]
    RateMax,          \* mails to one domain in a window
    RateWindow,       \* length of the window
    MaxTime,          \* bound: the clock
    MaxPreviews,      \* bound: previews
    NoCall            \* no mail is being sent

ASSUME ConnectorAssumption ==
    /\ RateMax \in Nat \ {0} /\ RateWindow \in Nat \ {0}
    /\ MaxTime \in Nat /\ MaxPreviews \in Nat
    /\ DOMAIN DomainOf = Payloads

VARIABLES
    perRequest,       \* TRUE in the API: each request has a limiter of its own
    confirmations,    \* Seq of [via, data, used]: the *_confirmations tables
    executed,         \* Seq of [via, data, id, status, at]: the audit tables
    delivered,        \* history: the mails that reached their server, as [id, domain, at]
    bucket,           \* [domains -> set of [row, at]]: the times a RateLimiter keeps,
                      \* told apart by the audit rows of their mails
    sending,          \* the [id, data] of the mail being sent, or NoCall
    clock,
    died              \* history: a process died while it sent a mail

connectorVars == <<perRequest, confirmations, executed, delivered, bucket, sending, clock, died>>

Domains == {DomainOf[d] : d \in Payloads}

Fresh == [d \in Domains |-> {}]
-----------------------------------------------------------------------------
\* The times of a bucket that are still in the window.
Recent(times, now) == {t \in times : now - t.at < RateWindow}

CanAllow(domain, now) == Cardinality(Recent(bucket[domain], now)) < RateMax

Confirmation(via, data) == [via |-> via, data |-> data, used |-> FALSE]

\* preview_diff: the limiter is looked at, and the payload stored under a new id.
PreviewEmail(data) ==
    /\ sending = NoCall /\ Len(confirmations) < MaxPreviews
    /\ perRequest \/ CanAllow(DomainOf[data], clock)
    /\ confirmations' = Append(confirmations, Confirmation("email", data))
    /\ UNCHANGED <<perRequest, executed, delivered, bucket, sending, clock, died>>

\* preview_diff of the two stubs.
PreviewStub(via, data) ==
    /\ sending = NoCall /\ Len(confirmations) < MaxPreviews
    /\ confirmations' = Append(confirmations, Confirmation(via, data))
    /\ UNCHANGED <<perRequest, executed, delivered, bucket, sending, clock, died>>

\* Mutant: the email is not compared with the one previewed.
MatchesUnseen(via, id, data) ==
    /\ confirmations[id].via = via /\ ~confirmations[id].used

\* The checks before an execution: the id is unused, and for email and SCM the
\* payload is the one previewed.
Matches(via, id, data) ==
    /\ confirmations[id].via = via /\ ~confirmations[id].used
    /\ via = "ci" \/ confirmations[id].data = data

Entry(via, data, id, status) ==
    [via |-> via, data |-> data, id |-> id, status |-> status, at |-> clock]

\* Mutant: the confirmation stays valid until the mail is sent.
ConfirmEmailLate(id, data) ==
    /\ sending = NoCall /\ Matches("email", id, data)
    /\ sending' = [id |-> id, data |-> data]
    /\ UNCHANGED <<perRequest, confirmations, executed, delivered, bucket, clock, died>>

\* execute of email, first half: the confirmation is used up and committed.
ConfirmEmail(id, data) ==
    /\ sending = NoCall /\ Matches("email", id, data)
    /\ confirmations' = [confirmations EXCEPT ![id].used = TRUE]
    /\ sending' = [id |-> id, data |-> data]
    /\ UNCHANGED <<perRequest, executed, delivered, bucket, clock, died>>

\* The limiter of this connector: a new one for every request of the API.
Times(domain) == IF perRequest THEN {} ELSE Recent(bucket[domain], clock)

\* What allow leaves in its bucket.
Allowed(domain) == Times(domain) \cup {[row |-> Len(executed) + 1, at |-> clock]}

\* allow refuses: the confirmation is spent, nothing is logged.
RefuseEmail ==
    /\ sending # NoCall
    /\ LET domain == DomainOf[sending.data]
       IN  /\ Cardinality(Times(domain)) >= RateMax
           /\ bucket' = [bucket EXCEPT ![domain] = Times(domain)]
    /\ sending' = NoCall
    /\ UNCHANGED <<perRequest, confirmations, executed, delivered, clock, died>>

\* allow, _send_email and _record_audit: the mail reaches its server or not,
\* and an error may come after it did.
SendEmail(reaches, status) ==
    LET data == sending.data
    IN  /\ sending # NoCall
        /\ Cardinality(Times(DomainOf[data])) < RateMax
        /\ bucket' = [bucket EXCEPT ![DomainOf[data]] = Allowed(DomainOf[data])]
        /\ delivered' = IF reaches
               THEN Append(delivered, [id |-> sending.id, domain |-> DomainOf[data], at |-> clock])
               ELSE delivered
        /\ executed' = Append(executed, Entry("email", data, sending.id, status))
        /\ sending' = NoCall
        /\ UNCHANGED <<perRequest, confirmations, clock, died>>

\* execute of the stubs: confirmation and audit row are one transaction.
ExecuteStub(via, id, data) ==
    /\ sending = NoCall /\ via # "email" /\ Matches(via, id, data)
    /\ confirmations' = [confirmations EXCEPT ![id].used = TRUE]
    /\ executed' = Append(executed, Entry(via, data, id, "committed"))
    /\ UNCHANGED <<perRequest, delivered, bucket, sending, clock, died>>

\* The process dies while the mail is being sent: it may have left.  What the
\* connector held in memory is gone.
DieSending(reaches) ==
    /\ sending # NoCall /\ sending' = NoCall
    /\ reaches => Cardinality(Times(DomainOf[sending.data])) < RateMax
    /\ delivered' = IF reaches
           THEN Append(delivered, [id |-> sending.id, at |-> clock,
                                   domain |-> DomainOf[sending.data]])
           ELSE delivered
    /\ bucket' = Fresh
    /\ died' = TRUE
    /\ UNCHANGED <<perRequest, confirmations, executed, clock>>

Tick ==
    /\ sending = NoCall /\ clock < MaxTime /\ clock' = clock + 1
    /\ UNCHANGED <<perRequest, confirmations, executed, delivered, bucket, sending, died>>

ConnectorInit ==
    /\ perRequest \in BOOLEAN
    /\ confirmations = <<>> /\ executed = <<>> /\ delivered = <<>>
    /\ bucket = Fresh /\ sending = NoCall /\ clock = 0 /\ died = FALSE

ConnectorStep ==
    \/ \E data \in Payloads :
           \/ PreviewEmail(data) \/ \E via \in {"scm", "ci"} : PreviewStub(via, data)
           \/ \E id \in DOMAIN confirmations :
                  ConfirmEmail(id, data) \/ \E via \in {"scm", "ci"} : ExecuteStub(via, id, data)
    \/ RefuseEmail \/ Tick
    \/ \E reaches \in BOOLEAN : \/ DieSending(reaches)
                                \/ \E status \in {"sent", "failed"} :
                                       (status = "sent" => reaches) /\ SendEmail(reaches, status)

ConnectorSpec == ConnectorInit /\ [][ConnectorStep]_connectorVars
-----------------------------------------------------------------------------
ConnectorTypeOK ==
    /\ \A id \in DOMAIN confirmations : confirmations[id].via \in {"email", "scm", "ci"}
    /\ \A d \in Domains : \A t \in bucket[d] : t.at \in 0..MaxTime
    /\ sending # NoCall => sending.id \in DOMAIN confirmations

\* A confirmation is good for one execution, also when the process dies before
\* the mail is logged (email.py:184-200, scm.py:87-137, ci.py:77-106).
OncePerConfirmation ==
    \A id \in DOMAIN confirmations :
        /\ Cardinality({i \in DOMAIN delivered : delivered[i].id = id}) <= 1
        /\ Cardinality({i \in DOMAIN executed : executed[i].id = id}) <= 1

\* What email and SCM execute was previewed, word for word, under that id.
ExecutedAsPreviewed ==
    \A i \in DOMAIN executed :
        executed[i].via \in {"email", "scm"} => confirmations[executed[i].id].data = executed[i].data

InWindow(domain, now) ==
    {i \in DOMAIN delivered :
        delivered[i].domain = domain /\ delivered[i].at <= now /\ now - delivered[i].at < RateWindow}

\* Email is rate-limited: at most RateMax mails go to one domain in any window,
\* as long as no process dies with the times it kept (email.py:23-50).
MailsLimited ==
    ~died => \A now \in 0..MaxTime, d \in Domains : Cardinality(InWindow(d, now)) <= RateMax
=============================================================================
