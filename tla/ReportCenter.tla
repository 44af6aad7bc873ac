----------------------------- MODULE ReportCenter -----------------------------
(***************************************************************************)
(* app/services/report_center.py and app/api/reports.py: report drafts,    *)
(* their submission, the decisions on them and their export.               *)
(***************************************************************************)
EXTENDS Membership

CONSTANTS
    Texts,          \* what a draft can hold
    MaxDrafts,      \* bound: drafts created
    MaxDecisions    \* bound: decisions on one draft

ASSUME ReportAssumption == MaxDrafts \in Nat /\ MaxDecisions \in Nat

VARIABLES
    drafts,         \* Seq of report_draft rows
    approvals,      \* [each draft -> Seq of report_approval rows]
    exported        \* history: the drafts exported, as <<draft, status, text>>

reportVars == <<drafts, approvals, exported>>

\* The CHECK of the status; nothing archives.
DraftStatuses == {"draft", "submitted", "approved", "rejected", "archived"}

Decisions == {"approved", "rejected", "request_changes"}
-----------------------------------------------------------------------------
CreateDraft(by, text) ==
    /\ May(by, "member") /\ Len(drafts) < MaxDrafts
    /\ drafts' = Append(drafts, [text |-> text, author |-> by, status |-> "draft", version |-> 1])
    /\ approvals' = Append(approvals, <<>>)
    /\ UNCHANGED <<role, inbox, exported>>

\* update_draft, in whatever status; the version stays.
EditDraft(by, d, text) ==
    /\ May(by, "member") /\ drafts[d].text # text
    /\ drafts' = [drafts EXCEPT ![d].text = text]
    /\ UNCHANGED <<role, inbox, approvals, exported>>

Deciders == {u \in Users : role[u] \in {"admin", "pm"}}

\* Mutant: a rejected report is submitted again.
SubmitDraftAgain(by, d) ==
    /\ May(by, "member") /\ drafts[d].status \in {"draft", "rejected"}
    /\ drafts' = [drafts EXCEPT ![d].status = "submitted"]
    /\ inbox' = Notify(inbox, Deciders, "report_approved", by)
    /\ UNCHANGED <<role, approvals, exported>>

\* submit_for_approval: only a draft; all managers are told.
SubmitDraft(by, d) ==
    /\ May(by, "member") /\ drafts[d].status = "draft"
    /\ drafts' = [drafts EXCEPT ![d].status = "submitted"]
    /\ inbox' = Notify(inbox, Deciders, "report_approved", by)
    /\ UNCHANGED <<role, approvals, exported>>

DecidedStatus(decision) ==
    CASE decision = "approved" -> "approved"
      [] decision = "rejected" -> "rejected"
      [] OTHER                 -> "draft"

\* approve_report: the status is not asked for.
Decide(by, d, decision) ==
    /\ May(by, "pm") /\ Len(approvals[d]) < MaxDecisions
    /\ drafts' = [drafts EXCEPT ![d].status = DecidedStatus(decision)]
    /\ approvals' = [approvals EXCEPT ![d] = Append(@, [by |-> by, decision |-> decision])]
    /\ inbox' = Notify(inbox, {drafts[d].author}, "report_approved", by)
    /\ UNCHANGED <<role, exported>>

\* export_pdf and export_docx, in whatever status.
ExportDraft(by, d) ==
    /\ May(by, "member")
    /\ exported' = exported \cup {<<d, drafts[d].status, drafts[d].text>>}
    /\ exported' # exported
    /\ UNCHANGED <<role, inbox, drafts, approvals>>

ReportInit == drafts = <<>> /\ approvals = <<>> /\ exported = {}

ReportStep ==
    \E by \in Users :
        \/ \E text \in Texts : CreateDraft(by, text)
        \/ \E d \in DOMAIN drafts :
               \/ SubmitDraft(by, d) \/ ExportDraft(by, d)
               \/ \E text \in Texts : EditDraft(by, d, text)
               \/ \E decision \in Decisions : Decide(by, d, decision)

ReportSpec ==
    /\ MembershipInit /\ ReportInit
    /\ [][ReportStep \/ ((RoleStep \/ ReadStep) /\ UNCHANGED reportVars)]_<<role, inbox, reportVars>>
-----------------------------------------------------------------------------
ReportTypeOK ==
    /\ \A d \in DOMAIN drafts : drafts[d].status \in DraftStatuses
    /\ DOMAIN approvals = DOMAIN drafts

LastDecision(d) ==
    IF approvals[d] = <<>> THEN "none" ELSE approvals[d][Len(approvals[d])].decision

\* The status of a report says what the last row of its history decided: it is
\* approved or rejected exactly as long as that is the last decision, and a
\* rejected report comes back by another decision only (report_center.py:87-123).
StatusFollowsDecisions ==
    \A d \in DOMAIN drafts :
        /\ (drafts[d].status = "approved") = (LastDecision(d) = "approved")
        /\ (drafts[d].status = "rejected") = (LastDecision(d) = "rejected")
=============================================================================
