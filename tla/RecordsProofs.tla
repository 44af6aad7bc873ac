----------------------------- MODULE RecordsProofs -----------------------------
(***************************************************************************)
(* Proofs about what the members of a project do together: roles, inboxes, *)
(* comments and reports; about the reports that are made of its tasks;     *)
(* about the tasks that a change of a file reaches; and about what the     *)
(* parsers and the chunker make of a file, for any text, document and      *)
(* column.                                                                 *)
(***************************************************************************)
EXTENDS Comments, ReportCenter, TaskReports, ChangeImpact, Parsing, Chunker, StorageProofs

\* A notification, a comment, a draft and a decision.
Notices == [kind : NotificationKinds, from : Users, read : BOOLEAN]

CommentRows == [author : Users, parent : Nat \cup {NoParent}, resolved : BOOLEAN, gone : BOOLEAN]

DraftRows == [text : Texts, author : Users, status : DraftStatuses, version : {1}]

ApprovalRows == [by : Users, decision : Decisions]
-----------------------------------------------------------------------------

(* What is read from a sequence is one of its elements.                    *)
LEMMA ItemOf ==
    ASSUME NEW S, NEW s \in Seq(S), NEW i \in DOMAIN s
    PROVE  s[i] \in S /\ i \in Nat /\ i <= Len(s)
  OBVIOUS

(* An item appended comes after all others, which keep their places.       *)
LEMMA WithItem ==
    ASSUME NEW S, NEW s \in Seq(S), NEW e \in S
    PROVE  /\ Append(s, e) \in Seq(S) /\ Len(Append(s, e)) = Len(s) + 1
           /\ DOMAIN Append(s, e) = DOMAIN s \cup {Len(s) + 1}
           /\ Len(s) + 1 \notin DOMAIN s /\ Len(s) \in Nat
           /\ \A i \in DOMAIN s : Append(s, e)[i] = s[i]
           /\ Append(s, e)[Len(s) + 1] = e
  OBVIOUS

(* An item replaced leaves the others as they were.                        *)
LEMMA ItemReplaced ==
    ASSUME NEW S, NEW s \in Seq(S), NEW k \in DOMAIN s, NEW e \in S
    PROVE  /\ [s EXCEPT ![k] = e] \in Seq(S) /\ DOMAIN [s EXCEPT ![k] = e] = DOMAIN s
           /\ [s EXCEPT ![k] = e][k] = e
           /\ \A i \in DOMAIN s : i # k => [s EXCEPT ![k] = e][i] = s[i]
  OBVIOUS

(* A function of the first n numbers is a sequence.                        *)
LEMMA Listing == ASSUME NEW S, NEW n \in Nat, NEW f \in [1..n -> S] PROVE f \in Seq(S)
  OBVIOUS

(* The empty sequence is one of every set.                                 *)
LEMMA NoItems == ASSUME NEW S PROVE <<>> \in Seq(S) /\ DOMAIN <<>> = {}
  OBVIOUS

(* Whoever may do what needs an admin is one.                              *)
LEMMA AdminsAlone ==
    ASSUME role \in [Users -> Roles \cup {NoRole}], NEW u \in Users, May(u, "admin")
    PROVE  u \in Admins
<1>1. role[u] \in Roles /\ Rank[role[u]] >= Rank["admin"]
  BY DEF May, HasMinRole
<1>2. role[u] \in {"admin", "pm", "member", "guest"}
  BY <1>1 DEF Roles, Rank
<1> QED
  BY <1>1, <1>2 DEF Admins, Rank

(* Only an admin changes the roles of a project with members.              *)
LEMMA RolesByAdmins ==
    ASSUME role \in [Users -> Roles \cup {NoRole}], RoleStep, Members # {}
    PROVE  Admins # {}
  BY AdminsAlone DEF RoleStep, AddMember, ChangeRole, RemoveMember

(* The roles are roles, whatever is done to them.                          *)
LEMMA RolesTyped ==
    ASSUME role \in [Users -> Roles \cup {NoRole}], RoleStep
    PROVE  role' \in [Users -> Roles \cup {NoRole}] /\ inbox' = inbox
  BY DEF RoleStep, AddMember, ChangeRole, RemoveMember
-----------------------------------------------------------------------------
\* An inbox tells nobody of his own comment.
Tells(u, notices) ==
    \A i \in DOMAIN notices : notices[i].kind \in {"mention", "comment_reply"} => notices[i].from # u

InboxInv == inbox \in [Users -> Seq(Notices)] /\ \A u \in Users : Tells(u, inbox[u])

(* A notice is what it was made of.                                        *)
LEMMA NoticeMade ==
    ASSUME NEW kind \in NotificationKinds, NEW from \in Users
    PROVE  /\ Notification(kind, from) \in Notices
           /\ Notification(kind, from).kind = kind /\ Notification(kind, from).from = from
  BY DEF Notification, Notices

(* Notifying keeps the boxes, and tells nobody of what he wrote himself    *)
(* when he is not among those told, or the kind is another.                *)
LEMMA NotifyKeeps ==
    ASSUME NEW box \in [Users -> Seq(Notices)], \A u \in Users : Tells(u, box[u]),
           NEW recipients, NEW kind \in NotificationKinds, NEW from \in Users,
           from \notin recipients \/ kind \notin {"mention", "comment_reply"}
    PROVE  /\ Notify(box, recipients, kind, from) \in [Users -> Seq(Notices)]
           /\ \A u \in Users : Tells(u, Notify(box, recipients, kind, from)[u])
<1> DEFINE n == Notification(kind, from)
<1>1. n \in Notices /\ n.kind = kind /\ n.from = from
  BY NoticeMade
<1> HIDE DEF n
<1>2. ASSUME NEW u \in Users
      PROVE  /\ Append(box[u], n) \in Seq(Notices)
             /\ u # from \/ kind \notin {"mention", "comment_reply"} => Tells(u, Append(box[u], n))
  <2>1. /\ Append(box[u], n) \in Seq(Notices)
        /\ DOMAIN Append(box[u], n) = DOMAIN box[u] \cup {Len(box[u]) + 1}
        /\ \A i \in DOMAIN box[u] : Append(box[u], n)[i] = box[u][i]
        /\ Append(box[u], n)[Len(box[u]) + 1] = n
    BY <1>1, WithItem
  <2> QED
    BY <1>1, <2>1 DEF Tells
<1>3. Notify(box, recipients, kind, from) =
          [u \in Users |-> IF u \in recipients THEN Append(box[u], n) ELSE box[u]]
  BY DEF Notify, n
<1> QED
  BY <1>2, <1>3

(* What reading writes.                                                    *)
LEMMA AllRead ==
    ASSUME NEW u \in Users, MarkAllRead(u)
    PROVE  \E s : /\ inbox' = [inbox EXCEPT ![u] = s]
                  /\ s = [i \in DOMAIN inbox[u] |-> [inbox[u][i] EXCEPT !.read = TRUE]]
<1> DEFINE s == [i \in DOMAIN inbox[u] |-> [inbox[u][i] EXCEPT !.read = TRUE]]
<1>1. inbox' = [inbox EXCEPT ![u] = s]
  BY DEF MarkAllRead
<1>2. s = [i \in DOMAIN inbox[u] |-> [inbox[u][i] EXCEPT !.read = TRUE]]
  OBVIOUS
<1> HIDE DEF s
<1> QED
  BY <1>1, <1>2

(* A notification that is read keeps what it says.                         *)
LEMMA OneRead ==
    ASSUME NEW u \in Users, NEW i \in DOMAIN inbox[u], MarkRead(u, i)
    PROVE  \E s, e : /\ inbox' = [inbox EXCEPT ![u] = s]
                     /\ s = [inbox[u] EXCEPT ![i] = e] /\ e = [inbox[u][i] EXCEPT !.read = TRUE]
<1> DEFINE e == [inbox[u][i] EXCEPT !.read = TRUE]
           s == [inbox[u] EXCEPT ![i] = e]
<1>1. inbox' = [inbox EXCEPT ![u] = s]
  BY DEF MarkRead
<1>2. s = [inbox[u] EXCEPT ![i] = e] /\ e = [inbox[u][i] EXCEPT !.read = TRUE]
  OBVIOUS
<1> HIDE DEF s, e
<1> QED
  BY <1>1, <1>2

(* An inbox whose notifications are only marked as read tells nothing new. *)
LEMMA BoxRead ==
    ASSUME InboxInv, NEW u \in Users, NEW s \in Seq(Notices), inbox' = [inbox EXCEPT ![u] = s],
           DOMAIN s = DOMAIN inbox[u],
           \A i \in DOMAIN s : s[i].kind = inbox[u][i].kind /\ s[i].from = inbox[u][i].from
    PROVE  InboxInv'
<1>0. inbox \in [Users -> Seq(Notices)] /\ \A v \in Users : Tells(v, inbox[v])
  BY DEF InboxInv
<1>1. Tells(u, s)
  BY <1>0 DEF Tells
<1>2. inbox' \in [Users -> Seq(Notices)]
  BY <1>0
<1>3. \A v \in Users : Tells(v, inbox'[v])
  BY <1>0, <1>1
<1> QED
  BY <1>2, <1>3 DEF InboxInv

(* Reading changes no notice but for its mark.                             *)
LEMMA ReadKeeps ==
    ASSUME InboxInv, ReadStep
    PROVE  InboxInv' /\ role' = role
<1>0. inbox \in [Users -> Seq(Notices)] /\ \A u \in Users : Tells(u, inbox[u])
  BY DEF InboxInv
<1>2. ASSUME NEW n \in Notices
      PROVE  /\ [n EXCEPT !.read = TRUE] \in Notices
             /\ [n EXCEPT !.read = TRUE].kind = n.kind /\ [n EXCEPT !.read = TRUE].from = n.from
  BY DEF Notices
<1>3. ASSUME NEW u \in Users, MarkAllRead(u) PROVE InboxInv'
  <2>0. PICK s : /\ inbox' = [inbox EXCEPT ![u] = s]
                 /\ s = [i \in DOMAIN inbox[u] |-> [inbox[u][i] EXCEPT !.read = TRUE]]
    BY <1>3, AllRead
  <2>1. inbox[u] \in Seq(Notices) /\ \A i \in DOMAIN inbox[u] : inbox[u][i] \in Notices
    BY <1>0, ItemOf
  <2>2. /\ DOMAIN s = DOMAIN inbox[u] /\ \A i \in DOMAIN s : s[i] \in Notices
        /\ \A i \in DOMAIN s : s[i].kind = inbox[u][i].kind /\ s[i].from = inbox[u][i].from
    BY <1>2, <2>0, <2>1
  <2>3. s \in Seq(Notices)
    <3>1. PICK n \in Nat : DOMAIN inbox[u] = 1..n
      BY <2>1
    <3>2. s = [i \in DOMAIN s |-> s[i]]
      BY <2>0
    <3>3. s \in [1..n -> Notices]
      BY <2>2, <3>1, <3>2
    <3> QED
      BY <3>3
  <2>4. inbox' = [inbox EXCEPT ![u] = s]
    BY <2>0
  <2> QED
    BY <2>2, <2>3, <2>4, BoxRead
<1>4. ASSUME NEW u \in Users, NEW i \in DOMAIN inbox[u], MarkRead(u, i) PROVE InboxInv'
  <2>0. PICK s, e : /\ inbox' = [inbox EXCEPT ![u] = s]
                    /\ s = [inbox[u] EXCEPT ![i] = e] /\ e = [inbox[u][i] EXCEPT !.read = TRUE]
    BY <1>4, OneRead
  <2>1. inbox[u] \in Seq(Notices) /\ inbox[u][i] \in Notices
    BY <1>0, ItemOf
  <2>2. e \in Notices /\ e.kind = inbox[u][i].kind /\ e.from = inbox[u][i].from
    BY <1>2, <2>0, <2>1
  <2>4. /\ s \in Seq(Notices) /\ DOMAIN s = DOMAIN inbox[u] /\ s[i] = e
        /\ \A j \in DOMAIN s : j # i => s[j] = inbox[u][j]
    BY <2>0, <2>1, <2>2, ItemReplaced
  <2>5. \A j \in DOMAIN s : s[j].kind = inbox[u][j].kind /\ s[j].from = inbox[u][j].from
    BY <2>2, <2>4
  <2> QED
    BY <2>0, <2>4, <2>5, BoxRead
<1>5. role' = role
  BY DEF ReadStep, MarkRead, MarkAllRead
<1> QED
  BY <1>3, <1>4, <1>5 DEF ReadStep
-----------------------------------------------------------------------------
\* The comments are typed, and answer comments there are.
CommentsInv ==
    /\ comments \in Seq(CommentRows)
    /\ \A c \in DOMAIN comments : comments[c].parent \in DOMAIN comments \cup {NoParent}
    /\ mentionRows \in Seq((DOMAIN comments) \X Users)

(* A comment tells those named and the author it answers, not its writer.  *)
LEMMA CommentTells ==
    ASSUME InboxInv, CommentsInv, NEW by \in Users, NEW named \in SUBSET Users,
           NEW parent \in DOMAIN comments \cup {NoParent}, inbox' = ToldOfComment(by, named, parent)
    PROVE  InboxInv'
<1>1. PICK others : others = (named \cap ActiveUsers) \ {by}
  OBVIOUS
<1>2. PICK replied :
          replied = IF parent # NoParent /\ Exists(parent) THEN {comments[parent].author} \ {by} ELSE {}
  OBVIOUS
<1>3. by \notin others /\ by \notin replied
  BY <1>1, <1>2
<1>4. "mention" \in NotificationKinds /\ "comment_reply" \in NotificationKinds
  BY DEF NotificationKinds
<1>5. inbox \in [Users -> Seq(Notices)] /\ \A u \in Users : Tells(u, inbox[u])
  BY DEF InboxInv
<1>6. PICK box : box = Notify(inbox, others, "mention", by)
  OBVIOUS
<1>7. box \in [Users -> Seq(Notices)] /\ \A u \in Users : Tells(u, box[u])
  BY <1>3, <1>4, <1>5, <1>6, NotifyKeeps
<1>8. inbox' = Notify(box, replied, "comment_reply", by)
  BY <1>1, <1>2, <1>6 DEF ToldOfComment
<1>9. PICK told : told = Notify(box, replied, "comment_reply", by)
  OBVIOUS
<1>10. told \in [Users -> Seq(Notices)] /\ \A u \in Users : Tells(u, told[u])
  BY <1>3, <1>4, <1>7, <1>9, NotifyKeeps
<1> QED
  BY <1>8, <1>9, <1>10 DEF InboxInv

(* A comment tells its parent's author and the mentioned, but not its own  *)
(* author.                                                                 *)
LEMMA CreateCommentKeeps ==
    ASSUME InboxInv, CommentsInv, NEW by \in Users, NEW named \in SUBSET Users,
           NEW parent \in DOMAIN comments \cup {NoParent}, CreateComment(by, named, parent)
    PROVE  CommentsInv' /\ InboxInv'
<1>1. InboxInv'
  BY CommentTells DEF CreateComment
<1> DEFINE e == [author |-> by, parent |-> parent, resolved |-> FALSE, gone |-> FALSE]
<1>2. comments \in Seq(CommentRows) /\ comments' = Append(comments, e)
  BY DEF CommentsInv, CreateComment
<1>3. parent \in Nat \cup {NoParent}
  BY <1>2, ItemOf
<1>4. e \in CommentRows /\ e.parent = parent
  BY <1>3 DEF CommentRows
<1> HIDE DEF e
<1>5. PICK k \in Nat : k = Len(comments) + 1
  BY <1>2, <1>4, WithItem
<1>6. /\ comments' \in Seq(CommentRows) /\ DOMAIN comments' = DOMAIN comments \cup {k}
      /\ \A c \in DOMAIN comments : comments'[c] = comments[c]
      /\ comments'[k] = e
  BY <1>2, <1>4, <1>5, WithItem
<1>7. \A c \in DOMAIN comments' : comments'[c].parent \in DOMAIN comments' \cup {NoParent}
  BY <1>4, <1>6 DEF CommentsInv
<1>8. mentionRows' \in Seq((DOMAIN comments') \X Users)
  <2> DEFINE S == named \cap ActiveUsers
             R == (DOMAIN comments') \X Users
  <2>1. Cardinality(S) \in Nat
    BY MembershipAssumption, FS_Subset, FS_CardinalityType
  <2>2. PICK order \in [1..Cardinality(S) -> S] :
            mentionRows' = mentionRows \o [i \in DOMAIN order |-> <<k, order[i]>>]
    BY <1>5 DEF CreateComment
  <2>3. PICK added : added = [i \in DOMAIN order |-> <<k, order[i]>>]
    OBVIOUS
  <2>4. \A i \in DOMAIN order : <<k, order[i]>> \in R
    BY <1>6, <2>2
  <2>5. added \in [1..Cardinality(S) -> R]
    BY <2>2, <2>3, <2>4
  <2>6. mentionRows \in Seq(R)
    <3>1. (DOMAIN comments) \X Users \subseteq R
      BY <1>6
    <3>2. mentionRows \in Seq((DOMAIN comments) \X Users)
      BY DEF CommentsInv
    <3> HIDE DEF R
    <3> QED
      BY <3>1, <3>2
  <2>7. added \in Seq(R)
    <3> HIDE DEF R, S
    <3> QED
      BY <2>1, <2>5, Listing
  <2>8. mentionRows' = mentionRows \o added
    BY <2>2, <2>3
  <2> HIDE DEF R
  <2> QED
    BY <2>6, <2>7, <2>8 DEF R
<1> QED
  BY <1>1, <1>6, <1>7, <1>8 DEF CommentsInv

(* What is done to a comment there is keeps whom it answers.               *)
LEMMA CommentChanged ==
    ASSUME CommentsInv, NEW c \in DOMAIN comments, NEW e \in CommentRows,
           e.parent = comments[c].parent, comments' = [comments EXCEPT ![c] = e], mentionRows' = mentionRows
    PROVE  CommentsInv'
<1>1. comments \in Seq(CommentRows)
  BY DEF CommentsInv
<1>2. /\ comments' \in Seq(CommentRows) /\ DOMAIN comments' = DOMAIN comments /\ comments'[c] = e
      /\ \A i \in DOMAIN comments : i # c => comments'[i] = comments[i]
  BY <1>1, ItemReplaced
<1>3. \A i \in DOMAIN comments' : comments'[i].parent \in DOMAIN comments' \cup {NoParent}
  BY <1>2 DEF CommentsInv
<1> QED
  BY <1>2, <1>3 DEF CommentsInv

(* Every handler of the comments keeps comments and inboxes.               *)
LEMMA CommentStepKeeps ==
    ASSUME InboxInv, CommentsInv, CommentStep
    PROVE  InboxInv' /\ CommentsInv' /\ role' = role
<1>0. role' = role
  BY DEF CommentStep, CreateComment, EditComment, DeleteComment, ResolveComment
<1>1. ASSUME NEW by \in Users, NEW named \in SUBSET Users, NEW parent \in DOMAIN comments \cup {NoParent},
             CreateComment(by, named, parent)
      PROVE  InboxInv' /\ CommentsInv'
  BY <1>1, CreateCommentKeeps
<1>2. ASSUME NEW c \in DOMAIN comments
      PROVE  /\ comments[c] \in CommentRows
             /\ [comments[c] EXCEPT !.gone = TRUE] \in CommentRows
             /\ [comments[c] EXCEPT !.gone = TRUE].parent = comments[c].parent
             /\ [comments[c] EXCEPT !.resolved = TRUE] \in CommentRows
             /\ [comments[c] EXCEPT !.resolved = TRUE].parent = comments[c].parent
  <2>1. comments[c] \in CommentRows
    BY ItemOf DEF CommentsInv
  <2> QED
    BY <2>1 DEF CommentRows
<1>3. ASSUME NEW by \in Users, NEW c \in DOMAIN comments, EditComment(by, c)
      PROVE  InboxInv' /\ CommentsInv'
  BY <1>3 DEF EditComment, commentVars, InboxInv, CommentsInv
<1>4. ASSUME NEW by \in Users, NEW c \in DOMAIN comments, DeleteComment(by, c)
      PROVE  InboxInv' /\ CommentsInv'
  <2>1. PICK e : e = [comments[c] EXCEPT !.gone = TRUE]
    OBVIOUS
  <2>2. comments' = [comments EXCEPT ![c] = e] /\ mentionRows' = mentionRows /\ inbox' = inbox
    BY <1>4, <2>1 DEF DeleteComment
  <2>3. e \in CommentRows /\ e.parent = comments[c].parent
    BY <1>2, <2>1
  <2>4. CommentsInv'
    BY <2>2, <2>3, CommentChanged
  <2> QED
    BY <2>2, <2>4 DEF InboxInv
<1>5. ASSUME NEW by \in Users, NEW c \in DOMAIN comments, ResolveComment(by, c)
      PROVE  InboxInv' /\ CommentsInv'
  <2>1. PICK e : e = [comments[c] EXCEPT !.resolved = TRUE]
    OBVIOUS
  <2>2. comments' = [comments EXCEPT ![c] = e] /\ mentionRows' = mentionRows /\ inbox' = inbox
    BY <1>5, <2>1 DEF ResolveComment
  <2>3. e \in CommentRows /\ e.parent = comments[c].parent
    BY <1>2, <2>1
  <2>4. CommentsInv'
    BY <2>2, <2>3, CommentChanged
  <2> QED
    BY <2>2, <2>4 DEF InboxInv
<1> QED
  BY <1>0, <1>1, <1>3, <1>4, <1>5 DEF CommentStep
-----------------------------------------------------------------------------
\* Each draft has its row of decisions, and its status is the last one's.
ReportsInv ==
    /\ drafts \in Seq(DraftRows) /\ approvals \in Seq(Seq(ApprovalRows))
    /\ Len(approvals) = Len(drafts)
    /\ StatusFollowsDecisions

LastOf(rows) == IF rows = <<>> THEN "none" ELSE rows[Len(rows)].decision

Follows(status, rows) ==
    (status = "approved") = (LastOf(rows) = "approved") /\ (status = "rejected") = (LastOf(rows) = "rejected")

(* The property of the reports, draft by draft.                            *)
LEMMA FollowsAll == StatusFollowsDecisions <=> \A d \in DOMAIN drafts : Follows(drafts[d].status, approvals[d])
  BY DEF StatusFollowsDecisions, LastDecision, Follows, LastOf

(* What is known of a draft and its decisions.                             *)
LEMMA DraftTyped ==
    ASSUME ReportsInv, NEW d \in DOMAIN drafts
    PROVE  /\ drafts[d] \in DraftRows /\ approvals[d] \in Seq(ApprovalRows)
           /\ d \in DOMAIN approvals /\ drafts[d].author \in Users
           /\ Follows(drafts[d].status, approvals[d])
<1>1. DOMAIN drafts = DOMAIN approvals
  BY DEF ReportsInv
<1>2. drafts[d] \in DraftRows /\ approvals[d] \in Seq(ApprovalRows)
  BY <1>1, ItemOf DEF ReportsInv
<1> QED
  BY <1>1, <1>2, FollowsAll DEF ReportsInv, DraftRows

(* A new draft has no decision, and is neither approved nor rejected.      *)
LEMMA CreateDraftKeeps ==
    ASSUME ReportsInv, NEW by \in Users, NEW t \in Texts, CreateDraft(by, t)
    PROVE  ReportsInv'
<1>1. PICK e : e = [text |-> t, author |-> by, status |-> "draft", version |-> 1]
  OBVIOUS
<1>2. e \in DraftRows /\ e.status = "draft"
  BY <1>1 DEF DraftRows, DraftStatuses
<1>3. drafts' = Append(drafts, e) /\ approvals' = Append(approvals, <<>>)
  BY <1>1 DEF CreateDraft
<1>4. drafts \in Seq(DraftRows) /\ approvals \in Seq(Seq(ApprovalRows)) /\ Len(approvals) = Len(drafts)
  BY DEF ReportsInv
<1>5. PICK k \in Nat : k = Len(drafts) + 1
  BY <1>2, <1>4, WithItem
<1>6. /\ drafts' \in Seq(DraftRows) /\ DOMAIN drafts' = DOMAIN drafts \cup {k} /\ Len(drafts') = k
      /\ drafts'[k] = e /\ \A d \in DOMAIN drafts : drafts'[d] = drafts[d]
  BY <1>2, <1>3, <1>4, <1>5, WithItem
<1>7. /\ approvals' \in Seq(Seq(ApprovalRows)) /\ Len(approvals') = k
      /\ approvals'[k] = <<>> /\ \A d \in DOMAIN approvals : approvals'[d] = approvals[d]
  <2>1. <<>> \in Seq(ApprovalRows)
    BY NoItems
  <2> QED
    BY <2>1, <1>3, <1>4, <1>5, WithItem
<1>8. ASSUME NEW d \in DOMAIN drafts' PROVE Follows(drafts'[d].status, approvals'[d])
  <2>1. CASE d = k
    BY <1>2, <1>6, <1>7, <2>1 DEF Follows, LastOf
  <2>2. CASE d \in DOMAIN drafts
    BY <1>6, <1>7, <2>2, DraftTyped
  <2> QED
    BY <1>6, <1>8, <2>1, <2>2
<1>9. StatusFollowsDecisions'
  BY <1>8 DEF StatusFollowsDecisions, LastDecision, Follows, LastOf
<1> QED
  BY <1>6, <1>7, <1>9 DEF ReportsInv

(* A draft and its decisions are replaced by some that agree.              *)
LEMMA DraftReplaced ==
    ASSUME ReportsInv, NEW d \in DOMAIN drafts, NEW e \in DraftRows, NEW rows \in Seq(ApprovalRows),
           Follows(e.status, rows), drafts' = [drafts EXCEPT ![d] = e], approvals' = [approvals EXCEPT ![d] = rows]
    PROVE  ReportsInv'
<1>1. drafts \in Seq(DraftRows) /\ approvals \in Seq(Seq(ApprovalRows)) /\ Len(approvals) = Len(drafts)
  BY DEF ReportsInv
<1>2. d \in DOMAIN approvals
  BY DraftTyped
<1>3. /\ drafts' \in Seq(DraftRows) /\ DOMAIN drafts' = DOMAIN drafts /\ drafts'[d] = e
      /\ \A i \in DOMAIN drafts : i # d => drafts'[i] = drafts[i]
  BY <1>1, ItemReplaced
<1>4. /\ approvals' \in Seq(Seq(ApprovalRows)) /\ DOMAIN approvals' = DOMAIN approvals /\ approvals'[d] = rows
      /\ \A i \in DOMAIN approvals : i # d => approvals'[i] = approvals[i]
  <2>1. PICK S : S = Seq(ApprovalRows)
    OBVIOUS
  <2> QED
    BY <1>1, <1>2, <2>1, ItemReplaced
<1>5. ASSUME NEW i \in DOMAIN drafts' PROVE Follows(drafts'[i].status, approvals'[i])
  <2>1. CASE i = d
    BY <1>3, <1>4, <2>1
  <2>2. CASE i # d
    BY <1>3, <1>4, <2>2, DraftTyped
  <2> QED
    BY <2>1, <2>2
<1>6. StatusFollowsDecisions'
  BY <1>5 DEF StatusFollowsDecisions, LastDecision, Follows, LastOf
<1>7. Len(approvals') = Len(drafts')
  BY <1>1, <1>3, <1>4
<1> QED
  BY <1>3, <1>4, <1>6, <1>7 DEF ReportsInv

(* A draft alone is replaced.                                              *)
LEMMA DraftRewritten ==
    ASSUME ReportsInv, NEW d \in DOMAIN drafts, NEW e \in DraftRows,
           Follows(e.status, approvals[d]), drafts' = [drafts EXCEPT ![d] = e], approvals' = approvals
    PROVE  ReportsInv'
<1>1. d \in DOMAIN approvals /\ approvals[d] \in Seq(ApprovalRows)
  BY DraftTyped
<1>2. PICK rows : rows = approvals[d]
  OBVIOUS
<1>3. approvals \in Seq(Seq(ApprovalRows))
  BY DEF ReportsInv
<1>4. approvals' = [approvals EXCEPT ![d] = rows]
  BY <1>1, <1>2, <1>3
<1> QED
  BY <1>1, <1>2, <1>4, DraftReplaced

(* A report step notifies of reports only.                                 *)
LEMMA ReportTells ==
    ASSUME InboxInv, NEW by \in Users, NEW recipients, inbox' = Notify(inbox, recipients, "report_approved", by)
    PROVE  InboxInv'
<1>1. PICK told : told = Notify(inbox, recipients, "report_approved", by)
  OBVIOUS
<1>2. "report_approved" \in NotificationKinds
  BY DEF NotificationKinds
<1>3. told \in [Users -> Seq(Notices)] /\ \A u \in Users : Tells(u, told[u])
  BY <1>1, <1>2, NotifyKeeps DEF InboxInv
<1> QED
  BY <1>1, <1>3 DEF InboxInv

(* Every handler of the reports keeps a status the last decision gave.     *)
LEMMA ReportStepKeeps ==
    ASSUME InboxInv, ReportsInv, ReportStep
    PROVE  InboxInv' /\ ReportsInv' /\ role' = role
<1>0. role' = role
  BY DEF ReportStep, CreateDraft, SubmitDraft, ExportDraft, EditDraft, Decide
<1>1. ASSUME NEW e \in DraftRows
      PROVE  /\ \A t \in Texts : [e EXCEPT !.text = t] \in DraftRows /\ [e EXCEPT !.text = t].status = e.status
             /\ \A s \in DraftStatuses : [e EXCEPT !.status = s] \in DraftRows /\ [e EXCEPT !.status = s].status = s
  BY DEF DraftRows
<1>2. ASSUME NEW by \in Users, NEW t \in Texts, CreateDraft(by, t) PROVE InboxInv' /\ ReportsInv'
  BY <1>2, CreateDraftKeeps DEF CreateDraft, InboxInv
<1>3. ASSUME NEW by \in Users, NEW d \in DOMAIN drafts, SubmitDraft(by, d) PROVE InboxInv' /\ ReportsInv'
  <2>1. PICK e : e = [drafts[d] EXCEPT !.status = "submitted"]
    OBVIOUS
  <2>2. e \in DraftRows /\ e.status = "submitted"
    BY <1>1, <2>1, DraftTyped DEF DraftStatuses
  <2>3. drafts' = [drafts EXCEPT ![d] = e] /\ approvals' = approvals
    BY <1>3, <2>1 DEF SubmitDraft
  <2>4. Follows("submitted", approvals[d])
    <3>1. drafts[d].status = "draft" /\ Follows(drafts[d].status, approvals[d])
      BY <1>3, DraftTyped DEF SubmitDraft
    <3> QED
      BY <3>1 DEF Follows
  <2>5. ReportsInv'
    BY <2>2, <2>3, <2>4, DraftRewritten
  <2>6. InboxInv'
    BY <1>3, ReportTells DEF SubmitDraft
  <2> QED
    BY <2>5, <2>6
<1>4. ASSUME NEW by \in Users, NEW d \in DOMAIN drafts, ExportDraft(by, d) PROVE InboxInv' /\ ReportsInv'
  BY <1>4 DEF ExportDraft, InboxInv, ReportsInv, StatusFollowsDecisions, LastDecision
<1>5. ASSUME NEW by \in Users, NEW d \in DOMAIN drafts, NEW t \in Texts, EditDraft(by, d, t)
      PROVE  InboxInv' /\ ReportsInv'
  <2>1. PICK e : e = [drafts[d] EXCEPT !.text = t]
    OBVIOUS
  <2>2. e \in DraftRows /\ e.status = drafts[d].status
    BY <1>1, <2>1, DraftTyped
  <2>3. drafts' = [drafts EXCEPT ![d] = e] /\ approvals' = approvals /\ inbox' = inbox
    BY <1>5, <2>1 DEF EditDraft
  <2>4. Follows(e.status, approvals[d])
    BY <2>2, DraftTyped
  <2>5. ReportsInv'
    BY <2>2, <2>3, <2>4, DraftRewritten
  <2> QED
    BY <2>3, <2>5 DEF InboxInv
<1>6. ASSUME NEW by \in Users, NEW d \in DOMAIN drafts, NEW decision \in Decisions, Decide(by, d, decision)
      PROVE  InboxInv' /\ ReportsInv'
  <2>1. PICK e : e = [drafts[d] EXCEPT !.status = DecidedStatus(decision)]
    OBVIOUS
  <2>2. PICK rows, r : r = [by |-> by, decision |-> decision] /\ rows = Append(approvals[d], r)
    OBVIOUS
  <2>3. DecidedStatus(decision) \in DraftStatuses
    BY DEF DecidedStatus, DraftStatuses
  <2>4. e \in DraftRows /\ e.status = DecidedStatus(decision)
    BY <1>1, <2>1, <2>3, DraftTyped
  <2>5. r \in ApprovalRows /\ r.decision = decision
    BY <2>2 DEF ApprovalRows
  <2>6. rows \in Seq(ApprovalRows) /\ LastOf(rows) = decision
    <3>1. approvals[d] \in Seq(ApprovalRows)
      BY DraftTyped
    <3>2. /\ rows \in Seq(ApprovalRows) /\ Len(rows) = Len(approvals[d]) + 1 /\ rows[Len(approvals[d]) + 1] = r
          /\ Len(approvals[d]) \in Nat /\ Len(approvals[d]) + 1 \in DOMAIN rows
      BY <2>2, <2>5, <3>1, WithItem
    <3> QED
      BY <2>5, <3>2, NoItems DEF LastOf
  <2>7. Follows(e.status, rows)
    BY <2>4, <2>6 DEF Follows, DecidedStatus, Decisions
  <2>8. drafts' = [drafts EXCEPT ![d] = e] /\ approvals' = [approvals EXCEPT ![d] = rows]
    BY <1>6, <2>1, <2>2 DEF Decide
  <2>9. ReportsInv'
    BY <2>4, <2>6, <2>7, <2>8, DraftReplaced
  <2>10. InboxInv'
    BY <1>6, ReportTells DEF Decide
  <2> QED
    BY <2>9, <2>10
<1> QED
  BY <1>0, <1>2, <1>3, <1>4, <1>5, <1>6 DEF ReportStep
-----------------------------------------------------------------------------
\* What members do together, whichever of them acts.
WorkInv == role \in [Users -> Roles \cup {NoRole}] /\ InboxInv /\ CommentsInv /\ ReportsInv

(* A project starts with its roles and nothing said or decided.            *)
LEMMA WorkInitially ==
    ASSUME role \in [Users -> Roles \cup {NoRole}], inbox = [u \in Users |-> <<>>], CommentInit, ReportInit
    PROVE  WorkInv
<1>1. InboxInv
  BY NoItems DEF InboxInv, Tells
<1>2. CommentsInv
  BY NoItems DEF CommentInit, CommentsInv
<1>3. ReportsInv
  <2>1. drafts = <<>> /\ approvals = <<>> /\ DOMAIN drafts = {}
    BY NoItems DEF ReportInit
  <2> QED
    BY <2>1, NoItems DEF ReportsInv, StatusFollowsDecisions
<1> QED
  BY <1>1, <1>2, <1>3 DEF WorkInv

(* Each of the services that share the roles and inboxes keeps to it.      *)
LEMMA WorkKeeps ==
    ASSUME WorkInv,
           \/ RoleStep /\ UNCHANGED <<commentVars, reportVars>>
           \/ CommentStep /\ UNCHANGED reportVars
           \/ ReadStep /\ UNCHANGED <<commentVars, reportVars>>
           \/ ReportStep /\ UNCHANGED commentVars
           \/ UNCHANGED <<role, inbox, commentVars, reportVars>>
    PROVE  WorkInv'
<1>0. role \in [Users -> Roles \cup {NoRole}] /\ InboxInv /\ CommentsInv /\ ReportsInv
  BY DEF WorkInv
<1>1. ASSUME UNCHANGED commentVars PROVE CommentsInv'
  BY <1>0, <1>1 DEF commentVars, CommentsInv
<1>2. ASSUME UNCHANGED reportVars PROVE ReportsInv'
  BY <1>0, <1>2 DEF reportVars, ReportsInv, StatusFollowsDecisions, LastDecision
<1>3. ASSUME UNCHANGED inbox PROVE InboxInv'
  BY <1>0, <1>3 DEF InboxInv
<1>4. CASE RoleStep /\ UNCHANGED <<commentVars, reportVars>>
  BY <1>0, <1>1, <1>2, <1>3, <1>4, RolesTyped DEF WorkInv
<1>5. CASE CommentStep /\ UNCHANGED reportVars
  BY <1>0, <1>2, <1>5, CommentStepKeeps DEF WorkInv
<1>6. CASE ReadStep /\ UNCHANGED <<commentVars, reportVars>>
  BY <1>0, <1>1, <1>2, <1>6, ReadKeeps DEF WorkInv
<1>7. CASE ReportStep /\ UNCHANGED commentVars
  BY <1>0, <1>1, <1>7, ReportStepKeeps DEF WorkInv
<1>8. CASE UNCHANGED <<role, inbox, commentVars, reportVars>>
  BY <1>0, <1>1, <1>2, <1>3, <1>8 DEF WorkInv
<1> QED
  BY <1>4, <1>5, <1>6, <1>7, <1>8

(* No notification in an inbox is about a comment of its owner.            *)
LEMMA NotToldOfOwn == InboxInv => NobodyToldOfOwn
  BY DEF InboxInv, Tells, NobodyToldOfOwn

(* A direct answer to a comment that is listed is listed with it.          *)
LEMMA AnswersListed == DirectAnswersListed
  BY DEF DirectAnswersListed, Listed, Replies

(* The types hold.                                                         *)
LEMMA WorkTypes == WorkInv => MembershipTypeOK /\ CommentTypeOK /\ ReportTypeOK
<1> SUFFICES ASSUME WorkInv PROVE MembershipTypeOK /\ CommentTypeOK /\ ReportTypeOK
  OBVIOUS
<1>0. role \in [Users -> Roles \cup {NoRole}] /\ InboxInv /\ CommentsInv /\ ReportsInv
  BY DEF WorkInv
<1>1. ASSUME NEW u \in Users, NEW i \in DOMAIN inbox[u] PROVE inbox[u][i].kind \in NotificationKinds
  <2>1. inbox[u] \in Seq(Notices)
    BY <1>0 DEF InboxInv
  <2>2. inbox[u][i] \in Notices
    BY <2>1, ItemOf
  <2> QED
    BY <2>2 DEF Notices
<1>2. ASSUME NEW c \in DOMAIN comments PROVE comments[c].author \in Users
  <2>1. comments[c] \in CommentRows
    BY <1>0, ItemOf DEF CommentsInv
  <2> QED
    BY <2>1 DEF CommentRows
<1>3. ASSUME NEW i \in DOMAIN mentionRows PROVE mentionRows[i] \in (DOMAIN comments) \X Users
  <2>1. PICK R : R = (DOMAIN comments) \X Users
    OBVIOUS
  <2>2. mentionRows \in Seq(R)
    BY <1>0, <2>1 DEF CommentsInv
  <2>3. mentionRows[i] \in R
    BY <2>2, ItemOf
  <2> QED
    BY <2>1, <2>3
<1>4. ASSUME NEW d \in DOMAIN drafts PROVE drafts[d].status \in DraftStatuses
  BY <1>0, DraftTyped DEF DraftRows
<1>5. DOMAIN approvals = DOMAIN drafts
  BY <1>0 DEF ReportsInv
<1> QED
  BY <1>0, <1>1, <1>2, <1>3, <1>4, <1>5 DEF MembershipTypeOK, CommentTypeOK, ReportTypeOK, CommentsInv
-----------------------------------------------------------------------------
(* The roles of a project without an admin do not change                   *)
(* (api/members.py:45-57).                                                 *)
THEOREM AdminlessStayFrozen == MembershipSpec => AdminlessFrozen
<1> DEFINE Typed == role \in [Users -> Roles \cup {NoRole}]
<1>1. MembershipInit => Typed
  BY DEF MembershipInit, Roles, Rank
<1>2. Typed /\ [RoleStep \/ ReadStep]_<<role, inbox>> => Typed'
  <2>1. ReadStep => role' = role
    BY DEF ReadStep, MarkRead, MarkAllRead
  <2> QED
    BY <2>1, RolesTyped
<1>3. Typed /\ [RoleStep \/ ReadStep]_<<role, inbox>> => [Members # {} /\ Admins = {} => role' = role]_role
  <2>1. ReadStep => role' = role
    BY DEF ReadStep, MarkRead, MarkAllRead
  <2> QED
    BY <2>1, RolesByAdmins
<1> QED
  BY <1>1, <1>2, <1>3, PTL DEF MembershipSpec, AdminlessFrozen

(* Comments of a founded project tell nobody of his own, and answers are   *)
(* listed with what they answer (api/comments.py:54-79,                    *)
(* comments.py:111-167).                                                   *)
THEOREM CommentsAreCoherent == CommentSpec => [](NobodyToldOfOwn /\ DirectAnswersListed)
<1> DEFINE Inv == role \in [Users -> Roles \cup {NoRole}] /\ InboxInv /\ CommentsInv
<1>1. MembershipInit /\ CommentInit => Inv
  BY NoItems DEF MembershipInit, CommentInit, InboxInv, Tells, CommentsInv, Roles, Rank
<1>2. Inv /\ [CommentStep \/ ((RoleStep \/ ReadStep) /\ UNCHANGED commentVars)]_<<role, inbox, commentVars>> => Inv'
  <2> SUFFICES ASSUME Inv, [CommentStep \/ ((RoleStep \/ ReadStep) /\ UNCHANGED commentVars)]_<<role, inbox, commentVars>>
               PROVE  Inv'
    OBVIOUS
  <2>1. ASSUME UNCHANGED commentVars PROVE CommentsInv'
    BY <2>1 DEF commentVars, CommentsInv
  <2>2. CASE CommentStep
    BY <2>2, CommentStepKeeps
  <2>3. CASE RoleStep /\ UNCHANGED commentVars
    BY <2>1, <2>3, RolesTyped DEF InboxInv
  <2>4. CASE ReadStep /\ UNCHANGED commentVars
    BY <2>1, <2>4, ReadKeeps
  <2>5. CASE UNCHANGED <<role, inbox, commentVars>>
    BY <2>1, <2>5 DEF InboxInv
  <2> QED
    BY <2>2, <2>3, <2>4, <2>5
<1>3. Inv => NobodyToldOfOwn
  BY NotToldOfOwn
<1> HIDE DEF Inv
<1> QED
  BY <1>1, <1>2, <1>3, AnswersListed, PTL DEF CommentSpec
-----------------------------------------------------------------------------
(* The evaluation of tasks.                                                *)

\* A row that is evaluated has a title and an assignee.
RowFits(row) == row.title # "" /\ row.assignee # "" /\ row.hints \subseteq Indicated

StoredRows == [row : TaskRows, status : {"pending_confirmation", "cancelled", "todo"}]

TableFits ==
    /\ \E n \in Nat : fileRows \in [1..n -> TaskRows]
    /\ \E n \in Nat : storedTasks \in [1..n -> StoredRows]
    /\ defaultFiles \in 0..2

\* Loaded tasks have ids of their own.
TasksFit(tasks) ==
    /\ Len(tasks) \in Nat /\ DOMAIN tasks = 1..Len(tasks)
    /\ \A k \in 1..Len(tasks) : RowFits(tasks[k].row)
    /\ \A i, j \in 1..Len(tasks) : tasks[i].id = tasks[j].id => i = j

EvaluationsOf(tasks) == {Evaluation(tasks[k], words) : k \in 1..Len(tasks), words \in {"rules", "model"}}

\* The evaluation of a row as the artifacts have it.
Judged(row) == [row |-> row, status |-> RuleStatus(row), level |-> RiskLevel(RuleStatus(row), TimeStatus(row.deadline))]

\* Of some tasks the first are evaluated, and at last their rows are rendered.
RunFits(tasks, made, out, at) ==
    /\ TasksFit(tasks) /\ at \in {"load", "evaluate", "done", "failed"}
    /\ made \in Seq(EvaluationsOf(tasks)) /\ Len(made) <= Len(tasks)
    /\ \A k \in DOMAIN made : \E words \in {"rules", "model"} : made[k] = Evaluation(tasks[k], words)
    /\ at = "load" => made = <<>>
    /\ IF at = "done" THEN out = [k \in 1..Len(tasks) |-> Judged(tasks[k].row)] ELSE out = <<>>

EvaluationInv == TableFits /\ RunFits(loaded, evaluations, bundle, reporting)

(* A row as the table has it.                                              *)
LEMMA RowParts ==
    ASSUME NEW r \in TaskRows
    PROVE  /\ r = [title |-> r.title, assignee |-> r.assignee, deadline |-> r.deadline,
                   criteria |-> r.criteria, hints |-> r.hints, found |-> r.found, says |-> r.says]
           /\ r.hints \subseteq Indicated
  BY EvaluationAssumption DEF EvaluationAssumption

(* The tasks of a file are told apart by their positions.                  *)
LEMMA FileTasksFit == ASSUME TableFits PROVE TasksFit(FileTasks)
<1>1. PICK n \in Nat : fileRows \in [1..n -> TaskRows]
  BY DEF TableFits
<1>2. PICK P, records, m : /\ P = {i \in DOMAIN fileRows : Kept(fileRows[i])}
                           /\ records = ElementsAt(fileRows, P) /\ m = Cardinality(P)
  OBVIOUS
<1>3. DOMAIN fileRows = 1..n /\ P \in SUBSET (1..n)
  BY <1>1, <1>2
<1>4. m \in Nat /\ DOMAIN records = 1..m /\ \A k \in 1..m : \E i \in P : records[k] = fileRows[i]
  BY ONLY n \in Nat, <1>2, <1>3, ElementsPicked
<1>5. ASSUME NEW k \in 1..m PROVE RowFits(records[k])
  <2>1. PICK i \in P : records[k] = fileRows[i]
    BY <1>4
  <2>2. fileRows[i] \in TaskRows /\ Kept(fileRows[i])
    BY <1>1, <1>2, <1>3
  <2> QED
    BY <2>1, <2>2, RowParts DEF Kept, RowFits
<1>6. FileTasks = [k \in 1..m |-> [id |-> TaskId(records[k], k), row |-> records[k]]]
  BY <1>2, <1>4 DEF FileTasks
<1>7. PICK f : f = FileTasks
  OBVIOUS
<1>8. Len(f) = m /\ DOMAIN f = 1..m
  BY <1>4, <1>6, <1>7
<1>9. \A k \in 1..m : f[k].row = records[k] /\ f[k].id = <<records[k].title, records[k].assignee, k>>
  BY <1>6, <1>7 DEF TaskId
<1>10. \A i, j \in 1..m : f[i].id = f[j].id => i = j
  BY <1>9
<1> QED
  BY <1>4, <1>5, <1>7, <1>8, <1>9, <1>10 DEF TasksFit

(* The tasks of the database are told apart by their keys.                 *)
LEMMA ReadyTasksFit == ASSUME TableFits, StoreServes PROVE TasksFit(ReadyTasks)
<1>1. PICK n \in Nat : storedTasks \in [1..n -> StoredRows]
  BY DEF TableFits
<1>2. PICK P, ready, m :
          /\ P = {i \in DOMAIN storedTasks : storedTasks[i].status \notin {"pending_confirmation", "cancelled"}}
          /\ ready = ElementsAt(storedTasks, P) /\ m = Cardinality(P)
  OBVIOUS
<1>3. DOMAIN storedTasks = 1..n /\ P \in SUBSET (1..n)
  BY <1>1, <1>2
<1>4. m \in Nat /\ DOMAIN ready = 1..m /\ \A k \in 1..m : \E i \in P : ready[k] = storedTasks[i]
  <2>1. ready = ElementsAt(storedTasks, P) /\ m = Cardinality(P)
    BY <1>2
  <2> QED
    BY ONLY n \in Nat, <1>3, <2>1, ElementsPicked
<1>12. PICK rows : rows = [k \in 1..m |-> [ready[k].row EXCEPT !.assignee = IF @ = "" THEN "unassigned" ELSE @]]
  OBVIOUS
<1>5. ReadyTasks = [k \in 1..m |-> [id |-> <<"db", k>>, row |-> rows[k]]]
  BY <1>2, <1>4, <1>12 DEF ReadyTasks
<1>6. PICK f : f = ReadyTasks
  OBVIOUS
<1>7. Len(f) = m /\ DOMAIN f = 1..m
  BY <1>4, <1>5, <1>6
<1>8. ASSUME NEW k \in 1..m PROVE RowFits(f[k].row)
  <2>1. PICK r : r = ready[k].row
    OBVIOUS
  <2>2. r \in TaskRows
    <3>1. PICK i \in P : ready[k] = storedTasks[i]
      BY <1>4
    <3>2. storedTasks[i] \in StoredRows
      BY <1>1, <1>3, <3>1
    <3> QED
      BY <2>1, <3>1, <3>2 DEF StoredRows
  <2>3. f[k].row = [r EXCEPT !.assignee = IF @ = "" THEN "unassigned" ELSE @]
    BY <1>5, <1>6, <1>12, <2>1
  <2>4. f[k].row.title # ""
    BY <1>6, <1>7 DEF StoreServes
  <2>5. f[k].row.hints = r.hints /\ f[k].row.assignee # ""
    BY <2>2, <2>3, RowParts
  <2> QED
    BY <2>2, <2>4, <2>5, RowParts DEF RowFits
<1>9. \A k \in 1..m : f[k].id = <<"db", k>>
  BY <1>5, <1>6
<1>10. \A i, j \in 1..m : f[i].id = f[j].id => i = j
  BY <1>9
<1> QED
  BY <1>4, <1>6, <1>7, <1>8, <1>10 DEF TasksFit

(* Nothing is loaded, or what the table or the database has.               *)
LEMMA LoadFits == ASSUME EvaluationInv, LoadReportTasks PROVE EvaluationInv'
<1>1. TableFits' /\ TableFits
  BY DEF EvaluationInv, TableFits, LoadReportTasks
<1>2. evaluations' = <<>> /\ bundle' = <<>>
  BY DEF EvaluationInv, RunFits, LoadReportTasks
<1>3. TasksFit(loaded')
  <2>1. TasksFit(<<>>)
    BY DEF TasksFit
  <2> QED
    BY <1>1, <2>1, FileTasksFit, ReadyTasksFit DEF LoadReportTasks
<1>4. reporting' \in {"evaluate", "failed"}
  BY DEF LoadReportTasks
<1>5. \A tasks, at : TasksFit(tasks) /\ at \in {"evaluate", "failed"} => RunFits(tasks, <<>>, <<>>, at)
  <2> SUFFICES ASSUME NEW tasks, NEW at \in {"evaluate", "failed"}, TasksFit(tasks) PROVE RunFits(tasks, <<>>, <<>>, at)
    OBVIOUS
  <2>1. Len(tasks) >= 0
    BY DEF TasksFit
  <2> QED
    BY <2>1 DEF RunFits
<1> QED
  BY <1>1, <1>2, <1>3, <1>4, <1>5 DEF EvaluationInv

(* A task is judged after those before it.                                 *)
LEMMA EvaluateFits == ASSUME EvaluationInv, EvaluateTask PROVE EvaluationInv'
<1>1. PICK s, tasks, n : s = evaluations /\ tasks = loaded /\ n = Len(evaluations)
  OBVIOUS
<1>2. PICK words \in {"rules", "model"} : evaluations' = Append(s, Evaluation(tasks[n + 1], words))
  BY <1>1 DEF EvaluateTask
<1>3. PICK e : e = Evaluation(tasks[n + 1], words)
  OBVIOUS
<1>4. s \in Seq(EvaluationsOf(tasks)) /\ n \in Nat /\ DOMAIN s = 1..n /\ TasksFit(tasks) /\ n < Len(tasks)
  BY <1>1 DEF EvaluationInv, RunFits, EvaluateTask
<1>5. Len(tasks) \in Nat
  BY <1>4 DEF TasksFit
<1>6. n + 1 \in 1..Len(tasks)
  BY <1>4, <1>5
<1>7. e \in EvaluationsOf(tasks)
  BY <1>3, <1>6 DEF EvaluationsOf
<1>8. PICK after : after = Append(s, e)
  OBVIOUS
<1>9. /\ after \in Seq(EvaluationsOf(tasks)) /\ Len(after) = n + 1 /\ DOMAIN after = 1..(n + 1)
      /\ after[n + 1] = e /\ \A k \in 1..n : after[k] = s[k]
  BY <1>1, <1>4, <1>7, <1>8
<1>10. ASSUME NEW k \in 1..(n + 1) PROVE \E w \in {"rules", "model"} : after[k] = Evaluation(tasks[k], w)
  <2>1. CASE k = n + 1
    BY <1>3, <1>9, <2>1
  <2>2. CASE k \in 1..n
    BY <1>1, <1>4, <1>9, <2>2 DEF EvaluationInv, RunFits
  <2> QED
    BY <1>4, <2>1, <2>2
<1>11. Len(after) <= Len(tasks)
  BY <1>4, <1>5, <1>6, <1>9
<1>12. /\ evaluations' = after /\ loaded' = tasks /\ UNCHANGED <<fileRows, defaultFiles, storedTasks, bundle, reporting>>
       /\ reporting = "evaluate"
  BY <1>1, <1>2, <1>3, <1>8 DEF EvaluateTask
<1>13. TableFits' /\ bundle = <<>>
  BY <1>12 DEF EvaluationInv, RunFits, TableFits
<1>14. RunFits(tasks, after, <<>>, "evaluate")
  BY <1>4, <1>9, <1>10, <1>11 DEF RunFits
<1> QED
  BY <1>12, <1>13, <1>14 DEF EvaluationInv

(* An artifact takes each row by its id, which is its own.                 *)
LEMMA RenderFits == ASSUME EvaluationInv, RenderBundle PROVE EvaluationInv'
<1>1. PICK n : n = Len(loaded)
  OBVIOUS
<1>2. n \in Nat /\ DOMAIN loaded = 1..n /\ DOMAIN evaluations = 1..n
  BY <1>1 DEF EvaluationInv, RunFits, TasksFit, RenderBundle
<1>3. ASSUME NEW k \in 1..n
      PROVE  [row |-> TaskById(evaluations[k].id).row, status |-> evaluations[k].status, level |-> evaluations[k].level]
                 = Judged(loaded[k].row)
  <2>1. PICK words : evaluations[k] = Evaluation(loaded[k], words)
    BY <1>2, <1>3 DEF EvaluationInv, RunFits
  <2>2. /\ evaluations[k].id = loaded[k].id /\ evaluations[k].status = RuleStatus(loaded[k].row)
        /\ evaluations[k].level = RiskLevel(RuleStatus(loaded[k].row), TimeStatus(loaded[k].row.deadline))
    BY <2>1 DEF Evaluation
  <2>3. {j \in DOMAIN loaded : loaded[j].id = loaded[k].id} = {k}
    BY <1>1, <1>2, <1>3 DEF EvaluationInv, RunFits, TasksFit
  <2>4. (CHOOSE i \in {k} : \A j \in {k} : j <= i) = k
    BY <1>2, <1>3
  <2>5. TaskById(loaded[k].id) = loaded[k]
    BY <2>3, <2>4 DEF TaskById
  <2> QED
    BY <2>2, <2>5 DEF Judged
<1>4. bundle' = [k \in 1..n |-> Judged(loaded[k].row)]
  BY <1>2, <1>3 DEF RenderBundle
<1>5. UNCHANGED <<fileRows, defaultFiles, storedTasks, loaded, evaluations>> /\ reporting' = "done"
  BY DEF RenderBundle
<1>6. TableFits'
  BY <1>5 DEF EvaluationInv, TableFits
<1>7. RunFits(loaded, evaluations, [k \in 1..n |-> Judged(loaded[k].row)], "done")
  BY <1>1 DEF EvaluationInv, RunFits, RenderBundle
<1> QED
  BY <1>4, <1>5, <1>6, <1>7 DEF EvaluationInv

(* Each artifact tells its own row, late work is escalated, completed work *)
(* is proven, and open work is planned.                                    *)
LEMMA JudgedTrue ==
    ASSUME NEW row, RowFits(row)
    PROVE  /\ RuleStatus(row) \in EvaluatedStatuses
           /\ RiskLevel(RuleStatus(row), TimeStatus(row.deadline)) \in {"high", "medium", "low"}
           /\ TimeStatus(row.deadline) = "overdue" => RiskLevel(RuleStatus(row), TimeStatus(row.deadline)) = "high"
           /\ RuleStatus(row) = "completed" =>
                 /\ row.found /\ "done" \in row.says /\ "cancel" \notin row.says
                 /\ TimeStatus(row.deadline) # "overdue"
                 /\ MatchedCriteria(row) = row.criteria
                 /\ \A i \in row.hints : i \in row.says
                 /\ row.criteria # {} => "partial" \notin row.says
<1>1. PICK time, missing, matched : time = TimeStatus(row.deadline) /\ missing = MissingItems(row) /\ matched = MatchedCriteria(row)
  OBVIOUS
<1>2. PICK later : later = StatusWhenDone(row)
  OBVIOUS
<1>3. /\ later \in {"completed", "mostly_completed", "needs_confirmation"}
      /\ later = "completed" => missing = {} /\ matched = row.criteria /\ (row.criteria # {} => "partial" \notin row.says)
  <2>1. CASE row.criteria = {}
    <3>1. matched = {}
      BY <1>1, <2>1 DEF MatchedCriteria
    <3> QED
      BY <1>1, <1>2, <2>1, <3>1 DEF StatusWhenDone
  <2>2. CASE row.criteria # {} /\ matched = row.criteria
    BY <1>1, <1>2, <2>2 DEF StatusWhenDone
  <2>3. CASE row.criteria # {} /\ matched # row.criteria
    BY <1>1, <1>2, <2>3 DEF StatusWhenDone
  <2> QED
    BY <2>1, <2>2, <2>3
<1>4. RuleStatus(row) = IF "cancel" \in row.says THEN "cancelled"
                        ELSE IF ~row.found THEN "not_started"
                        ELSE IF time = "overdue" THEN "delayed"
                        ELSE IF "done" \notin row.says THEN "in_progress"
                        ELSE later
  BY <1>1, <1>2 DEF RuleStatus
<1>5. missing = {} => row.found /\ \A i \in row.hints : i \in row.says
  BY <1>1 DEF MissingItems, RowFits
<1>6. RuleStatus(row) \in EvaluatedStatuses
  BY <1>3, <1>4 DEF EvaluatedStatuses
<1>7. RiskLevel(RuleStatus(row), time) \in {"high", "medium", "low"}
  BY DEF RiskLevel
<1>8. time = "overdue" => RuleStatus(row) \in {"cancelled", "not_started", "delayed"}
  BY <1>4
<1>9. time = "overdue" => RiskLevel(RuleStatus(row), time) = "high"
  BY <1>8 DEF RiskLevel
<1>10. RuleStatus(row) = "completed" =>
           /\ "cancel" \notin row.says /\ time # "overdue" /\ "done" \in row.says /\ later = "completed"
  BY <1>4
<1> QED
  BY <1>1, <1>3, <1>5, <1>6, <1>7, <1>9, <1>10

(* The artifacts of a run tell what its rows show.                         *)
LEMMA BundleTrue == ASSUME EvaluationInv PROVE TaskReportTypeOK /\ EvaluationsKeepTheirRow /\ OverdueEscalated /\ CompletedIsProven /\ OpenWorkPlanned
<1>1. PICK n : n = Len(loaded)
  OBVIOUS
<1>2. n \in Nat /\ DOMAIN loaded = 1..n /\ \A k \in 1..n : RowFits(loaded[k].row)
  BY <1>1 DEF EvaluationInv, RunFits, TasksFit
<1>3. ASSUME NEW k \in DOMAIN bundle
      PROVE  k \in 1..n /\ reporting = "done" /\ DOMAIN bundle = 1..n /\ bundle[k] = Judged(loaded[k].row)
  BY <1>1, <1>3 DEF EvaluationInv, RunFits
<1>4. ASSUME NEW k \in DOMAIN bundle
      PROVE  /\ bundle[k].row = loaded[k].row /\ bundle[k].status = RuleStatus(loaded[k].row)
             /\ bundle[k].level = RiskLevel(RuleStatus(loaded[k].row), TimeStatus(loaded[k].row.deadline))
             /\ RowFits(loaded[k].row)
  BY <1>2, <1>3 DEF Judged
<1>5. EvaluationsKeepTheirRow
  BY <1>4 DEF EvaluationsKeepTheirRow
<1>6. OverdueEscalated
  BY <1>4, JudgedTrue DEF OverdueEscalated, RiskList
<1>7. CompletedIsProven
  BY <1>4, JudgedTrue DEF CompletedIsProven
<1>8. OpenWorkPlanned
  <2>1. ASSUME NEW k \in DOMAIN bundle PROVE SummaryCount(bundle[k].status) > 0
    <3>1. PICK S : S = {j \in DOMAIN bundle : bundle[j].status = bundle[k].status}
      OBVIOUS
    <3>2. S \subseteq 1..n /\ k \in S
      BY <1>3, <3>1
    <3>3. IsFiniteSet(1..n)
      BY <1>2, FS_Interval
    <3>4. IsFiniteSet(S)
      BY <3>2, <3>3, FS_Subset
    <3>5. Cardinality(S) \in Nat /\ Cardinality(S) # 0
      BY ONLY <3>2, <3>4, FS_EmptySet, FS_CardinalityType
    <3> QED
      BY <3>1, <3>5 DEF SummaryCount
  <2>2. ASSUME NEW k \in DOMAIN bundle
        PROVE  (PlanSection(bundle[k].status) = "none") <=> (bundle[k].status \in {"completed", "cancelled"})
    BY <1>4, JudgedTrue DEF PlanSection, EvaluatedStatuses
  <2> QED
    BY <2>1, <2>2 DEF OpenWorkPlanned
<1>9. TaskReportTypeOK
  <2>1. ASSUME NEW k \in DOMAIN evaluations
        PROVE  evaluations[k].status \in EvaluatedStatuses /\ evaluations[k].level \in {"high", "medium", "low"}
    <3>1. k \in 1..n
      BY <1>1, <1>2, <2>1 DEF EvaluationInv, RunFits
    <3>2. PICK words : evaluations[k] = Evaluation(loaded[k], words)
      BY <2>1 DEF EvaluationInv, RunFits
    <3> QED
      BY <1>2, <3>1, <3>2, JudgedTrue DEF Evaluation
  <2>2. bundle = <<>> \/ Len(bundle) = Len(loaded)
    BY <1>1, <1>2 DEF EvaluationInv, RunFits
  <2>3. \A k \in DOMAIN loaded : loaded[k].row.title # "" /\ loaded[k].row.assignee # ""
    BY <1>2 DEF RowFits
  <2>4. defaultFiles \in 0..2 /\ reporting \in {"load", "evaluate", "done", "failed"} /\ Len(evaluations) <= Len(loaded)
    BY DEF EvaluationInv, RunFits, TableFits
  <2> QED
    BY <2>1, <2>2, <2>3, <2>4 DEF TaskReportTypeOK
<1> QED
  BY <1>5, <1>6, <1>7, <1>8, <1>9

(* A report says of each task what its own row shows: the evaluation is    *)
(* that of its row, late work is escalated, completed work is proven, and  *)
(* open work is planned (task_checker.py:163-484, phase_c.py:44-177,       *)
(* generator.py:243-796).                                                  *)
THEOREM EvaluationsAreTrue ==
    TaskReportSpec =>
        [](TaskReportTypeOK /\ EvaluationsKeepTheirRow /\ OverdueEscalated /\ CompletedIsProven /\ OpenWorkPlanned)
<1>1. TaskReportInit => EvaluationInv
  <2> SUFFICES ASSUME TaskReportInit PROVE EvaluationInv
    OBVIOUS
  <2>1. TableFits
    <3>1. \A S, most : most \in Nat => \A s \in SeqsUpTo(S, most) : \E n \in Nat : s \in [1..n -> S]
      BY DEF SeqsUpTo
    <3>2. fileRows \in SeqsUpTo(TaskRows, MaxRows) /\ storedTasks \in SeqsUpTo(StoredRows, 1) /\ defaultFiles \in 0..2
      BY DEF TaskReportInit, StoredRows
    <3>3. MaxRows \in Nat
      BY EvaluationAssumption DEF EvaluationAssumption
    <3> QED
      BY <3>1, <3>2, <3>3 DEF TableFits
  <2>2. TasksFit(<<>>)
    BY DEF TasksFit
  <2>3. RunFits(<<>>, <<>>, <<>>, "load")
    BY <2>2 DEF RunFits
  <2> QED
    BY <2>1, <2>3 DEF TaskReportInit, EvaluationInv
<1>2. EvaluationInv /\ [TaskReportStep]_taskReportVars => EvaluationInv'
  <2> SUFFICES ASSUME EvaluationInv, [TaskReportStep]_taskReportVars PROVE EvaluationInv'
    OBVIOUS
  <2>1. CASE UNCHANGED taskReportVars
    BY <2>1 DEF taskReportVars, EvaluationInv, TableFits
  <2> QED
    BY <2>1, LoadFits, EvaluateFits, RenderFits DEF TaskReportStep
<1> QED
  BY <1>1, <1>2, BundleTrue, PTL DEF TaskReportSpec
-----------------------------------------------------------------------------
(* The impact of a change.                                                 *)
ImpactEntries == [task : ImpactTasks, file : ImpactFiles, severity : {"medium", "high"}]

ImpactRecords == [entry : ImpactEntries, scan : Nat]

\* Entries that are to be stored are of different tasks, none of which the
\* analysis has stored yet.
EntriesFit(left, stored, scans) ==
    /\ left \subseteq ImpactEntries
    /\ stored \in Seq(ImpactRecords)
    /\ \A i \in DOMAIN stored : stored[i].scan <= scans
    /\ \A d, e \in left : d.task = e.task => d = e
    /\ \A i \in DOMAIN stored, e \in left : stored[i].scan = scans => stored[i].entry.task # e.task
    /\ \A i, j \in DOMAIN stored :
          stored[i].scan = stored[j].scan /\ stored[i].entry.task = stored[j].entry.task => i = j

\* A task that cites one of the files asked for all the while is stored or to be stored.
Reached(paths, asked, cited, left, stored, scans) ==
    \A t \in ImpactTasks : cited[t] \cap asked # {} =>
        \/ \E i \in DOMAIN stored : /\ stored[i].scan = scans
                                    /\ stored[i].entry.task = t /\ stored[i].entry.file \in paths
        \/ \E e \in left : e.task = t

\* While files are asked for nothing is stored yet.
NothingStored(stored, scans) == \A i \in DOMAIN stored : stored[i].scan # scans

SourcesTyped ==
    /\ cites \in [ImpactTasks -> SUBSET ImpactFiles] /\ finished \subseteq ImpactTasks
    /\ modified \in Seq(ImpactFiles)
    /\ analyses \in 0..MaxAnalyses /\ modifications \in 0..MaxModifications

Analyses == [files : SUBSET ImpactFiles, unread : SUBSET ImpactFiles, failed : SUBSET ImpactFiles,
             steady : [ImpactTasks -> SUBSET ImpactFiles], left : SUBSET ImpactEntries, lost : BOOLEAN]

\* The part about an analysis "m" under way.
AnalysisFits(m, stored, scans, cited) ==
    /\ m \in Analyses /\ m.unread \subseteq m.files /\ \A e \in m.left : e.file \in m.files
    /\ EntriesFit(m.left, stored, scans)
    /\ m.unread # {} => /\ NothingStored(stored, scans)
                        /\ \A t \in ImpactTasks : m.steady[t] \subseteq cited[t]
    /\ ~m.lost => Reached(m.files, m.files \ (m.failed \cup m.unread), m.steady, m.left, stored, scans)

AnalysisInv == AnalysisFits(impact, impactRows, analyses, cites)

ImpactInv == SourcesTyped /\ AnalysisInv

(* An analysis begins with all its files to be asked for.                  *)
LEMMA BeginImpactKeeps == ASSUME ImpactInv, BeginImpact PROVE ImpactInv'
<1>1. PICK P, a, m, stored : P = ChangedFiles /\ a = analyses /\ m = impact' /\ stored = impactRows
  OBVIOUS
<1>2. SourcesTyped /\ EntriesFit({}, stored, a)
  BY <1>1 DEF ImpactInv, AnalysisInv, AnalysisFits, BeginImpact
<1>3. P \subseteq ImpactFiles
  BY <1>1, <1>2 DEF ChangedFiles, SourcesTyped
<1>4. a \in Nat /\ a + 1 <= MaxAnalyses /\ analyses' = a + 1 /\ UNCHANGED <<cites, finished, modified, impactRows, modifications>>
  BY <1>1, <1>2, ImpactAssumption DEF BeginImpact, SourcesTyped, ImpactAssumption
<1>5. SourcesTyped'
  BY <1>2, <1>4, ImpactAssumption DEF SourcesTyped, ImpactAssumption
<1>6. m = [files |-> P, unread |-> P, failed |-> {}, steady |-> cites, left |-> {}, lost |-> FALSE]
  BY <1>1 DEF BeginImpact, NoImpact
<1>7. m \in Analyses
  BY <1>2, <1>3, <1>6 DEF Analyses, SourcesTyped
<1>8. \A i \in DOMAIN stored : stored[i].scan <= a + 1 /\ stored[i].scan # a + 1
  <2>1. \A i \in DOMAIN stored : stored[i].scan \in Nat /\ stored[i].scan <= a
    <3>1. stored \in Seq(ImpactRecords) /\ \A i \in DOMAIN stored : stored[i].scan <= a
      BY <1>2 DEF EntriesFit
    <3>2. \A i \in DOMAIN stored : stored[i] \in ImpactRecords
      BY <3>1
    <3> QED
      BY <3>1, <3>2 DEF ImpactRecords
  <2> QED
    BY <1>4, <2>1
<1>9. EntriesFit({}, stored, a + 1)
  BY <1>2, <1>8 DEF EntriesFit
<1>10. Reached(P, P \ ({} \cup P), cites, {}, stored, a + 1)
  BY DEF Reached
<1>11. AnalysisFits(m, stored, a + 1, cites)
  BY <1>6, <1>7, <1>8, <1>9, <1>10 DEF AnalysisFits, NothingStored
<1> QED
  BY <1>1, <1>4, <1>5, <1>11 DEF ImpactInv, AnalysisInv

(* A query adds the tasks that cite its file and are not found yet.        *)
LEMMA QueryFileKeeps == ASSUME ImpactInv, NEW p \in ImpactFiles, QueryFile(p) PROVE ImpactInv'
<1>1. PICK m, k, a, stored, c : m = impact /\ k = impact' /\ a = analyses /\ stored = impactRows /\ c = cites
  OBVIOUS
<1>2. SourcesTyped /\ AnalysisFits(m, stored, a, c)
  BY <1>1 DEF ImpactInv, AnalysisInv
<1>3. UNCHANGED <<cites, finished, modified, impactRows, analyses, modifications>>
  BY DEF QueryFile
<1>4. PICK T, D : /\ T = {u \in ImpactTasks : p \in c[u] /\ \A e \in m.left : e.task # u}
                  /\ D = {Touched(t, p) : t \in T}
  OBVIOUS
<1>5. k = [m EXCEPT !.unread = @ \ {p}, !.left = @ \cup D] /\ p \in m.unread
  BY <1>1, <1>4 DEF QueryFile
<1>6. m \in Analyses /\ m.unread \subseteq m.files /\ EntriesFit(m.left, stored, a)
  BY <1>2 DEF AnalysisFits
<1>7. ASSUME NEW d \in D PROVE d \in ImpactEntries /\ d.task \in T /\ d.file = p
  BY <1>4, <1>7 DEF Touched, ImpactEntries
<1>8. ASSUME NEW d \in D, NEW e \in D, d.task = e.task PROVE d = e
  BY <1>4, <1>8 DEF Touched
<1>9. /\ k.files = m.files /\ k.unread = m.unread \ {p} /\ k.failed = m.failed
      /\ k.steady = m.steady /\ k.left = m.left \cup D /\ k.lost = m.lost /\ k \in Analyses
  BY <1>5, <1>6, <1>7 DEF Analyses
<1>10. NothingStored(stored, a) /\ \A t \in ImpactTasks : m.steady[t] \subseteq c[t]
  BY <1>2, <1>5 DEF AnalysisFits
<1>11. EntriesFit(k.left, stored, a)
  <2>1. ASSUME NEW d \in k.left, NEW e \in k.left, d.task = e.task PROVE d = e
    <3>1. CASE d \in m.left /\ e \in m.left
      BY <1>6, <2>1, <3>1 DEF EntriesFit
    <3>2. CASE d \in D /\ e \in D
      BY <1>8, <2>1, <3>2
    <3>3. CASE d \in m.left /\ e \in D
      BY <1>4, <1>7, <2>1, <3>3
    <3>4. CASE d \in D /\ e \in m.left
      BY <1>4, <1>7, <2>1, <3>4
    <3> QED
      BY <1>9, <2>1, <3>1, <3>2, <3>3, <3>4
  <2>2. k.left \subseteq ImpactEntries
    BY <1>9 DEF Analyses
  <2> QED
    BY <1>6, <1>10, <2>1, <2>2 DEF EntriesFit, NothingStored
<1>12. ASSUME ~m.lost PROVE Reached(k.files, k.files \ (k.failed \cup k.unread), k.steady, k.left, stored, a)
  <2>1. Reached(m.files, m.files \ (m.failed \cup m.unread), m.steady, m.left, stored, a)
    BY <1>2, <1>12 DEF AnalysisFits
  <2> SUFFICES ASSUME NEW t \in ImpactTasks, m.steady[t] \cap (m.files \ (m.failed \cup (m.unread \ {p}))) # {}
               PROVE  \/ \E i \in DOMAIN stored : /\ stored[i].scan = a
                                                  /\ stored[i].entry.task = t /\ stored[i].entry.file \in m.files
                      \/ \E e \in m.left \cup D : e.task = t
    BY <1>9 DEF Reached
  <2>2. CASE m.steady[t] \cap (m.files \ (m.failed \cup m.unread)) # {}
    BY <2>1, <2>2 DEF Reached
  <2>3. CASE p \in m.steady[t]
    <3>1. p \in c[t]
      BY <1>5, <1>6, <1>10, <2>3
    <3>2. CASE t \in T
      <4>1. Touched(t, p) \in D /\ Touched(t, p).task = t /\ Touched(t, p).file = p
        BY <1>4, <3>2 DEF Touched
      <4> QED
        BY <3>1, <4>1
    <3>3. CASE t \notin T
      <4>1. PICK e \in m.left : e.task = t
        BY <1>4, <3>1, <3>3
      <4> QED
        BY <4>1
    <3> QED
      BY <3>2, <3>3
  <2> QED
    BY <2>2, <2>3
<1>14. \A e \in k.left : e.file \in k.files
  BY <1>2, <1>5, <1>6, <1>7, <1>9 DEF AnalysisFits
<1>13. AnalysisFits(k, stored, a, c)
  BY <1>6, <1>9, <1>10, <1>11, <1>12, <1>14 DEF AnalysisFits
<1> QED
  BY <1>1, <1>2, <1>3, <1>13 DEF ImpactInv, AnalysisInv, SourcesTyped

(* A query that fails takes its file out of what is promised.              *)
LEMMA QueryFailsKeeps == ASSUME ImpactInv, NEW p \in ImpactFiles, QueryFails(p) PROVE ImpactInv'
<1>1. PICK m, k, a, stored, c : m = impact /\ k = impact' /\ a = analyses /\ stored = impactRows /\ c = cites
  OBVIOUS
<1>2. SourcesTyped /\ AnalysisFits(m, stored, a, c)
  BY <1>1 DEF ImpactInv, AnalysisInv
<1>3. UNCHANGED <<cites, finished, modified, impactRows, analyses, modifications>>
  BY DEF QueryFails
<1>4. k = [m EXCEPT !.unread = @ \ {p}, !.failed = @ \cup {p}] /\ p \in m.unread
  BY <1>1 DEF QueryFails
<1>5. /\ k.files = m.files /\ k.unread = m.unread \ {p} /\ k.failed = m.failed \cup {p}
      /\ k.steady = m.steady /\ k.left = m.left /\ k.lost = m.lost /\ k \in Analyses
  BY <1>2, <1>4 DEF AnalysisFits, Analyses
<1>6. k.failed \cup k.unread = m.failed \cup m.unread
  BY <1>4, <1>5
<1>7. AnalysisFits(k, stored, a, c)
  BY <1>2, <1>4, <1>5, <1>6 DEF AnalysisFits
<1> QED
  BY <1>1, <1>2, <1>3, <1>7 DEF ImpactInv, AnalysisInv, SourcesTyped

(* An entry is stored; its task is not to be stored again.                 *)
LEMMA PersistImpactKeeps == ASSUME ImpactInv, PersistImpact PROVE ImpactInv'
<1>1. PICK m, k, a, stored, c : m = impact /\ k = impact' /\ a = analyses /\ stored = impactRows /\ c = cites
  OBVIOUS
<1>2. SourcesTyped /\ AnalysisFits(m, stored, a, c) /\ a \in Nat
  BY <1>1, ImpactAssumption DEF ImpactInv, AnalysisInv, SourcesTyped, ImpactAssumption
<1>3. UNCHANGED <<cites, finished, modified, analyses, modifications>> /\ m.unread = {}
  BY <1>1 DEF PersistImpact
<1>4. PICK d \in m.left : /\ impactRows' = Append(stored, [entry |-> d, scan |-> a])
                         /\ k = [m EXCEPT !.left = @ \ {d}]
  BY <1>1 DEF PersistImpact
<1>5. PICK e, after, n : e = [entry |-> d, scan |-> a] /\ after = Append(stored, e) /\ n = Len(stored)
  OBVIOUS
<1>6. EntriesFit(m.left, stored, a) /\ d \in ImpactEntries /\ d.file \in m.files /\ m \in Analyses
  BY <1>2 DEF AnalysisFits, EntriesFit
<1>7. /\ k.files = m.files /\ k.unread = {} /\ k.failed = m.failed
      /\ k.steady = m.steady /\ k.left = m.left \ {d} /\ k.lost = m.lost /\ k \in Analyses
  BY <1>3, <1>4, <1>6 DEF Analyses
<1>8. e \in ImpactRecords /\ e.entry = d /\ e.scan = a
  BY <1>2, <1>5, <1>6 DEF ImpactRecords
<1>9. stored \in Seq(ImpactRecords)
  BY <1>6 DEF EntriesFit
<1>10. /\ n \in Nat /\ DOMAIN stored = 1..n /\ after \in Seq(ImpactRecords) /\ DOMAIN after = 1..(n + 1)
       /\ after[n + 1] = e /\ \A i \in 1..n : after[i] = stored[i]
  BY <1>5, <1>8, <1>9
<1>11. \A i \in 1..(n + 1) : i \in 1..n \/ i = n + 1
  BY <1>10
<1>12. EntriesFit(m.left \ {d}, after, a)
  <2>1. \A i \in DOMAIN after : after[i].scan <= a
    <3>1. \A i \in 1..n : after[i].scan <= a
      BY <1>6, <1>10 DEF EntriesFit
    <3>2. after[n + 1].scan <= a
      BY <1>2, <1>8, <1>10
    <3> QED
      BY <1>10, <1>11, <3>1, <3>2
  <2>2. ASSUME NEW i \in DOMAIN after, NEW f \in m.left \ {d}, after[i].scan = a PROVE after[i].entry.task # f.task
    <3>1. CASE i \in 1..n
      BY <1>6, <1>10, <2>2, <3>1 DEF EntriesFit
    <3>2. CASE i = n + 1
      BY <1>6, <1>8, <1>10, <2>2, <3>2 DEF EntriesFit
    <3> QED
      BY <1>10, <1>11, <3>1, <3>2
  <2>3. ASSUME NEW i \in 1..n, e.scan = stored[i].scan PROVE stored[i].entry.task # e.entry.task
    BY <1>6, <1>8, <1>10, <2>3 DEF EntriesFit
  <2>4. ASSUME NEW i \in DOMAIN after, NEW j \in DOMAIN after,
               after[i].scan = after[j].scan, after[i].entry.task = after[j].entry.task
        PROVE  i = j
    <3>1. CASE i \in 1..n /\ j \in 1..n
      BY <1>6, <1>10, <2>4, <3>1 DEF EntriesFit
    <3>2. CASE i \in 1..n /\ j = n + 1
      BY <1>10, <2>3, <2>4, <3>2
    <3>3. CASE i = n + 1 /\ j \in 1..n
      BY <1>10, <2>3, <2>4, <3>3
    <3> QED
      BY <1>10, <1>11, <3>1, <3>2, <3>3
  <2> QED
    BY <1>6, <1>10, <2>1, <2>2, <2>4 DEF EntriesFit
<1>13. ASSUME ~m.lost PROVE Reached(k.files, k.files \ (k.failed \cup k.unread), k.steady, k.left, after, a)
  <2>1. Reached(m.files, m.files \ (m.failed \cup {}), m.steady, m.left, stored, a)
    BY <1>2, <1>3, <1>13 DEF AnalysisFits
  <2> SUFFICES ASSUME NEW t \in ImpactTasks, m.steady[t] \cap (m.files \ (m.failed \cup {})) # {}
               PROVE  \/ \E i \in DOMAIN after : /\ after[i].scan = a
                                                 /\ after[i].entry.task = t /\ after[i].entry.file \in m.files
                      \/ \E f \in m.left \ {d} : f.task = t
    BY <1>7 DEF Reached
  <2>2. CASE \E i \in DOMAIN stored : /\ stored[i].scan = a
                                      /\ stored[i].entry.task = t /\ stored[i].entry.file \in m.files
    <3>1. PICK i \in 1..n : stored[i].scan = a /\ stored[i].entry.task = t /\ stored[i].entry.file \in m.files
      BY <1>10, <2>2
    <3>2. i \in DOMAIN after /\ after[i] = stored[i]
      BY <1>10
    <3> QED
      BY <3>1, <3>2
  <2>3. CASE \E f \in m.left : f.task = t
    <3>1. CASE d.task = t
      <4>1. n + 1 \in DOMAIN after
        BY <1>10
      <4> QED
        BY <1>6, <1>8, <1>10, <3>1, <4>1
    <3>2. CASE d.task # t
      BY <2>3, <3>2
    <3> QED
      BY <3>1, <3>2
  <2> QED
    BY <2>1, <2>2, <2>3 DEF Reached
<1>14. AnalysisFits(k, after, a, c)
  <2>1. k.unread \subseteq k.files /\ \A f \in k.left : f.file \in k.files
    BY <1>2, <1>7 DEF AnalysisFits
  <2> QED
    BY <1>7, <1>12, <1>13, <2>1 DEF AnalysisFits
<1>15. impactRows' = after
  BY <1>4, <1>5
<1> QED
  BY <1>1, <1>2, <1>3, <1>14, <1>15 DEF ImpactInv, AnalysisInv, SourcesTyped

(* What is given up is lost, and is known to be.                           *)
LEMMA ImpactFailsKeeps == ASSUME ImpactInv, ImpactFails PROVE ImpactInv'
<1>1. PICK m, k, a, stored, c : m = impact /\ k = impact' /\ a = analyses /\ stored = impactRows /\ c = cites
  OBVIOUS
<1>2. SourcesTyped /\ AnalysisFits(m, stored, a, c)
  BY <1>1 DEF ImpactInv, AnalysisInv
<1>3. k = [m EXCEPT !.unread = {}, !.left = {}, !.lost = TRUE]
  BY <1>1 DEF ImpactFails
<1>4. m \in Analyses /\ EntriesFit(m.left, stored, a)
  BY <1>2 DEF AnalysisFits
<1>5. k \in Analyses /\ k.unread = {} /\ k.left = {} /\ k.lost = TRUE
  BY <1>3, <1>4 DEF Analyses
<1>6. EntriesFit({}, stored, a)
  BY <1>4 DEF EntriesFit
<1>7. AnalysisFits(k, stored, a, c)
  BY <1>5, <1>6 DEF AnalysisFits
<1>8. UNCHANGED <<cites, finished, modified, impactRows, analyses, modifications>>
  BY DEF ImpactFails
<1> QED
  BY <1>1, <1>2, <1>7, <1>8 DEF ImpactInv, AnalysisInv, SourcesTyped

(* A task that cites other files is promised no more than it cites.        *)
LEMMA ChangeSourceKeeps ==
    ASSUME ImpactInv, NEW t \in ImpactTasks, NEW new \in SUBSET ImpactFiles, ChangeSource(t, new)
    PROVE  ImpactInv'
<1>1. PICK m, k, a, stored, c, d :
          m = impact /\ k = impact' /\ a = analyses /\ stored = impactRows /\ c = cites /\ d = cites'
  OBVIOUS
<1>2. SourcesTyped /\ AnalysisFits(m, stored, a, c) /\ m \in Analyses /\ c \in [ImpactTasks -> SUBSET ImpactFiles]
  BY <1>1 DEF ImpactInv, AnalysisInv, AnalysisFits, SourcesTyped
<1>3. d = [c EXCEPT ![t] = new] /\ UNCHANGED <<finished, modified, impactRows, analyses>> /\ SourcesTyped'
  BY <1>1, <1>2, ImpactAssumption DEF ChangeSource, Modify, SourcesTyped, ImpactAssumption
<1>4. CASE m.unread = {}
  <2>1. k = m
    BY <1>1, <1>4 DEF ChangeSource
  <2>2. AnalysisFits(k, stored, a, d)
    BY <1>2, <1>4, <2>1 DEF AnalysisFits
  <2> QED
    BY <1>1, <1>3, <2>2 DEF ImpactInv, AnalysisInv
<1>5. CASE m.unread # {}
  <2>1. PICK steady : steady = [m.steady EXCEPT ![t] = @ \cap new]
    OBVIOUS
  <2>2. k = [m EXCEPT !.steady = steady]
    BY <1>1, <1>5, <2>1 DEF ChangeSource
  <2>3. m.steady \in [ImpactTasks -> SUBSET ImpactFiles]
    BY <1>2 DEF Analyses
  <2>4. /\ steady \in [ImpactTasks -> SUBSET ImpactFiles]
        /\ \A u \in ImpactTasks : steady[u] \subseteq m.steady[u]
    <3>1. PICK both : both = m.steady[t] \cap new
      OBVIOUS
    <3>2. steady = [m.steady EXCEPT ![t] = both] /\ both \in SUBSET ImpactFiles /\ both \subseteq m.steady[t]
      BY <2>1, <2>3, <3>1
    <3> QED
      BY <2>3, <3>2
  <2>5. /\ k.files = m.files /\ k.unread = m.unread /\ k.failed = m.failed
        /\ k.steady = steady /\ k.left = m.left /\ k.lost = m.lost /\ k \in Analyses
    BY <1>2, <2>2, <2>4 DEF Analyses
  <2>6. \A u \in ImpactTasks : steady[u] \subseteq d[u]
    BY <1>2, <1>3, <1>5, <2>1, <2>3, <2>4 DEF AnalysisFits
  <2>7. ASSUME ~m.lost PROVE Reached(k.files, k.files \ (k.failed \cup k.unread), k.steady, k.left, stored, a)
    <3>1. Reached(m.files, m.files \ (m.failed \cup m.unread), m.steady, m.left, stored, a)
      BY <1>2, <2>7 DEF AnalysisFits
    <3>2. PICK asked : asked = m.files \ (m.failed \cup m.unread)
      OBVIOUS
    <3>3. \A u \in ImpactTasks : steady[u] \cap asked # {} => m.steady[u] \cap asked # {}
      BY <2>4
    <3> QED
      BY <2>5, <3>1, <3>2, <3>3 DEF Reached
  <2>8. AnalysisFits(k, stored, a, d)
    BY <1>2, <1>5, <2>5, <2>6, <2>7 DEF AnalysisFits
  <2> QED
    BY <1>1, <1>3, <2>8 DEF ImpactInv, AnalysisInv
<1> QED
  BY <1>4, <1>5

(* An analysis that ran to its end has stored every task that cited one of *)
(* the files it was told of while it asked, but for files whose query      *)
(* failed, and none twice (change_impact.py:56-122, 186-214).              *)
THEOREM ImpactIsComplete == ImpactSpec => [](ImpactTypeOK /\ ImpactReachesAll /\ TaskStoredOnce)
<1>1. ImpactInit => ImpactInv
  <2> SUFFICES ASSUME ImpactInit PROVE ImpactInv
    OBVIOUS
  <2>1. SourcesTyped
    BY ImpactAssumption DEF ImpactInit, SourcesTyped, ImpactAssumption
  <2>2. EntriesFit({}, <<>>, 0)
    BY DEF EntriesFit
  <2>3. PICK m : m = impact
    OBVIOUS
  <2>4. PICK none : none = [t \in ImpactTasks |-> {}]
    OBVIOUS
  <2>5. m = [files |-> {}, unread |-> {}, failed |-> {}, steady |-> none, left |-> {}, lost |-> FALSE]
    BY <2>3, <2>4 DEF ImpactInit, NoImpact
  <2>6. m \in Analyses
    BY <2>4, <2>5 DEF Analyses
  <2>7. Reached({}, {} \ ({} \cup {}), none, {}, <<>>, 0)
    BY DEF Reached
  <2>8. AnalysisFits(m, <<>>, 0, cites)
    BY <2>2, <2>5, <2>6, <2>7 DEF AnalysisFits
  <2> QED
    BY <2>1, <2>3, <2>8 DEF ImpactInv, AnalysisInv, ImpactInit
<1>2. ImpactInv /\ [ImpactStep]_impactVars => ImpactInv'
  <2> SUFFICES ASSUME ImpactInv, [ImpactStep]_impactVars PROVE ImpactInv'
    OBVIOUS
  <2>1. CASE UNCHANGED impactVars
    BY <2>1 DEF impactVars, ImpactInv, SourcesTyped, AnalysisInv
  <2>2. ASSUME NEW p \in ImpactFiles, LogModified(p) PROVE ImpactInv'
    <3>1. AnalysisInv'
      BY <2>2 DEF LogModified, ImpactInv, AnalysisInv
    <3>2. SourcesTyped'
      BY <2>2, ImpactAssumption DEF LogModified, Modify, ImpactInv, SourcesTyped, ImpactAssumption
    <3> QED
      BY <3>1, <3>2 DEF ImpactInv
  <2>3. ASSUME NEW t \in ImpactTasks, FinishTask(t) PROVE ImpactInv'
    <3>1. AnalysisInv'
      BY <2>3 DEF FinishTask, ImpactInv, AnalysisInv
    <3>2. SourcesTyped'
      BY <2>3, ImpactAssumption DEF FinishTask, Modify, ImpactInv, SourcesTyped, ImpactAssumption
    <3> QED
      BY <3>1, <3>2 DEF ImpactInv
  <2> QED
    BY <2>1, <2>2, <2>3, ChangeSourceKeeps, BeginImpactKeeps, QueryFileKeeps, QueryFailsKeeps, PersistImpactKeeps,
       ImpactFailsKeeps DEF ImpactStep
<1>3. ImpactInv => ImpactTypeOK /\ ImpactReachesAll /\ TaskStoredOnce
  <2> SUFFICES ASSUME ImpactInv PROVE ImpactTypeOK /\ ImpactReachesAll /\ TaskStoredOnce
    OBVIOUS
  <2>1. EntriesFit(impact.left, impactRows, analyses)
    BY DEF ImpactInv, AnalysisInv, AnalysisFits
  <2>2. ASSUME NEW i \in DOMAIN impactRows PROVE impactRows[i].entry.task \in ImpactTasks /\ impactRows[i].entry.file \in ImpactFiles
    <3>1. impactRows[i] \in ImpactRecords
      BY <2>1, <2>2 DEF EntriesFit
    <3>2. impactRows[i].entry \in ImpactEntries
      BY <3>1 DEF ImpactRecords
    <3> QED
      BY <3>2 DEF ImpactEntries
  <2>3. ImpactTypeOK
    BY <2>2 DEF ImpactInv, SourcesTyped, ImpactTypeOK
  <2>4. TaskStoredOnce
    BY <2>1 DEF EntriesFit, TaskStoredOnce, RowsOfScan
  <2>5. ASSUME impact.unread = {}, impact.left = {}, ~impact.lost,
               NEW t \in ImpactTasks, impact.steady[t] \cap (impact.files \ impact.failed) # {}
        PROVE  \E i \in RowsOfScan(analyses) : /\ impactRows[i].entry.task = t
                                              /\ impactRows[i].entry.file \in impact.files
    <3>1. PICK m, asked : m = impact /\ asked = m.files \ (m.failed \cup m.unread)
      OBVIOUS
    <3>2. Reached(m.files, asked, m.steady, m.left, impactRows, analyses)
      BY <2>5, <3>1 DEF ImpactInv, AnalysisInv, AnalysisFits
    <3>3. m.steady[t] \cap asked # {} /\ m.left = {}
      BY <2>5, <3>1
    <3> QED
      BY <3>1, <3>2, <3>3 DEF Reached, RowsOfScan
  <2> QED
    BY <2>3, <2>4, <2>5 DEF ImpactReachesAll
<1> QED
  BY <1>1, <1>2, <1>3, PTL DEF ImpactSpec
-----------------------------------------------------------------------------
(* The sections of a Markdown file.                                        *)
ParsingTyped ==
    /\ text \in Seq({Blank0, 0} \cup 1..MaxLevel)
    /\ column \in Nat

(* The text that is parsed is made of lines.                               *)
LEMMA ParsedTyped == ParsingInit => ParsingTyped
<1> SUFFICES ASSUME ParsingInit PROVE ParsingTyped
  OBVIOUS
<1>1. PICK T : T = {Blank0, 0} \cup 1..MaxLevel
  OBVIOUS
<1>2. text \in Seq(T)
  <2>1. CASE \E n \in 0..MaxTextLines : text \in [1..n -> T]
    <3>1. PICK n \in 0..MaxTextLines : text \in [1..n -> T]
      BY <2>1
    <3> QED
      BY <3>1, ParsingAssumption DEF ParsingAssumption
  <2>2. CASE text = <<>>
    BY <2>2
  <2> QED
    BY <1>1, <2>1, <2>2 DEF ParsingInit
<1>3. column \in Nat
  BY ParsingAssumption DEF ParsingInit, ParsingAssumption
<1> QED
  BY <1>1, <1>2, <1>3 DEF ParsingTyped

(* A line is blank, text, or a heading of some level.                      *)
LEMMA LinesAreLevels == ASSUME ParsingTyped PROVE Len(text) \in Nat /\ \A i \in DOMAIN text : text[i] \in Int
  BY ParsingAssumption DEF ParsingTyped, Blank0, ParsingAssumption

\* The next heading that is not below h.
EndsOf(h) == {i \in HeadingLines : i > h /\ text[i] <= text[h]}

(* A section ends before the next heading that is not below its own.       *)
LEMMA SectionEnds ==
    ASSUME ParsingTyped, NEW h \in HeadingLines
    PROVE  /\ SectionLast(h) \in h..Len(text)
           /\ \A i \in EndsOf(h) : SectionLast(h) < i
           /\ SectionLast(h) = Len(text) \/ SectionLast(h) + 1 \in EndsOf(h)
<1>1. h \in 1..Len(text) /\ EndsOf(h) \subseteq 1..Len(text) /\ Len(text) \in Nat
  BY LinesAreLevels DEF HeadingLines, EndsOf, ParsingTyped
<1>2. CASE EndsOf(h) = {}
  <2>1. SectionLast(h) = Len(text)
    BY <1>2 DEF SectionLast, EndsOf
  <2> QED
    BY <1>1, <1>2, <2>1
<1>3. CASE EndsOf(h) # {}
  <2>1. PICK e : e = CHOOSE i \in EndsOf(h) : \A j \in EndsOf(h) : i <= j
    OBVIOUS
  <2>2. \E i \in EndsOf(h) : \A j \in EndsOf(h) : i <= j
    <3>1. EndsOf(h) \in SUBSET Nat
      BY <1>1
    <3> QED
      BY <1>3, <3>1, LeastNumber
  <2>3. e \in EndsOf(h) /\ \A j \in EndsOf(h) : e <= j
    BY <2>1, <2>2
  <2>4. SectionLast(h) = e - 1
    BY <1>3, <2>1 DEF SectionLast, EndsOf
  <2>5. e > h
    BY <2>3 DEF EndsOf
  <2>6. e \in Nat
    BY <1>1, <2>3
  <2> QED
    BY <1>1, <2>3, <2>4, <2>5, <2>6
<1> QED
  BY <1>2, <1>3

(* Of two sections the later is after the earlier or within it.            *)
LEMMA SectionsFit ==
    ASSUME ParsingTyped, NEW g \in HeadingLines, NEW h \in HeadingLines, g < h
    PROVE  \/ SectionLast(g) < h
           \/ SectionLast(h) <= SectionLast(g) /\ text[g] < text[h]
<1>1. PICK a, b, n, x, y : a = SectionLast(g) /\ b = SectionLast(h) /\ n = Len(text) /\ x = text[g] /\ y = text[h]
  OBVIOUS
<1>2. n \in Nat /\ g \in 1..n /\ h \in 1..n /\ x \in Int /\ y \in Int
  BY <1>1, LinesAreLevels DEF HeadingLines, ParsingTyped
<1>3. /\ a \in g..n /\ (\A i \in EndsOf(g) : a < i) /\ (a = n \/ a + 1 \in EndsOf(g))
      /\ b \in h..n /\ (\A i \in EndsOf(h) : b < i)
  BY <1>1, SectionEnds
<1> SUFFICES ASSUME ~(a < h) PROVE b <= a /\ x < y
  BY <1>1
<1>4. x < y
  <2>1. h \notin EndsOf(g)
    BY <1>2, <1>3
  <2> QED
    BY <1>1, <1>2, <2>1 DEF EndsOf
<1>5. b <= a
  <2>1. CASE a = n
    BY <1>2, <1>3, <2>1
  <2>2. CASE a + 1 \in EndsOf(g)
    <3>1. a + 1 > h /\ a \in Int
      BY <1>2, <1>3
    <3>2. text[a + 1] \in Int /\ text[a + 1] <= x /\ a + 1 \in HeadingLines
      BY <1>1, <2>2, LinesAreLevels DEF EndsOf, HeadingLines
    <3>3. a + 1 \in EndsOf(h)
      BY <1>1, <1>2, <1>4, <3>1, <3>2 DEF EndsOf
    <3>4. b < a + 1
      BY <1>3, <3>3
    <3> QED
      BY <1>2, <1>3, <3>1, <3>4
  <2> QED
    BY <1>3, <2>1, <2>2
<1> QED
  BY <1>4, <1>5

(* The first heading is a heading and comes first.                         *)
LEMMA FirstHeadingIsFirst ==
    ASSUME ParsingTyped, HeadingLines # {}
    PROVE  FirstHeading \in HeadingLines /\ \A k \in HeadingLines : FirstHeading <= k
<1>1. HeadingLines \in SUBSET Nat
  BY LinesAreLevels DEF HeadingLines, ParsingTyped
<1>2. \E h \in HeadingLines : \A k \in HeadingLines : h <= k
  BY <1>1, LeastNumber
<1> QED
  BY <1>2 DEF FirstHeading

\* Of two chunks that share lines one is a subsection of the other.
ChunksNest(a, b) ==
    \/ a.last < b.first \/ b.last < a.first \/ a = b
    \/ a.first < b.first /\ b.last <= a.last /\ a.level < b.level
    \/ b.first < a.first /\ a.last <= b.last /\ b.level < a.level

(* Two sections, the lines before the first one among them, nest.          *)
LEMMA SectionsDoNest ==
    ASSUME ParsingTyped, NEW a \in MarkdownChunks, NEW b \in MarkdownChunks
    PROVE  ChunksNest(a, b)
<1>1. CASE HeadingLines = {}
  BY <1>1 DEF MarkdownChunks, ChunksNest
<1>2. CASE HeadingLines # {}
  <2>1. PICK f : f = FirstHeading
    OBVIOUS
  <2>2. f \in HeadingLines /\ (\A k \in HeadingLines : f <= k) /\ HeadingLines \subseteq 1..Len(text) /\ Len(text) \in Nat
    BY <1>2, <2>1, FirstHeadingIsFirst, LinesAreLevels DEF HeadingLines, ParsingTyped
  <2>3. \A h \in HeadingLines : SectionLast(h) \in h..Len(text)
    BY SectionEnds
  <2>4. \A c \in MarkdownChunks : \/ \E h \in HeadingLines : c = Span(h, SectionLast(h), text[h])
                                  \/ c = Span(1, f - 1, 0)
    BY <1>2, <2>1 DEF MarkdownChunks
  <2>5. CASE \E g, h \in HeadingLines : a = Span(g, SectionLast(g), text[g]) /\ b = Span(h, SectionLast(h), text[h])
    <3>1. PICK g, h \in HeadingLines : a = Span(g, SectionLast(g), text[g]) /\ b = Span(h, SectionLast(h), text[h])
      BY <2>5
    <3>2. g \in Nat /\ h \in Nat
      BY <2>2
    <3>3. CASE g = h
      BY <3>1, <3>3 DEF ChunksNest
    <3>4. CASE g < h
      BY <3>1, <3>4, SectionsFit DEF ChunksNest, Span
    <3>5. CASE h < g
      BY <3>1, <3>5, SectionsFit DEF ChunksNest, Span
    <3> QED
      BY <3>2, <3>3, <3>4, <3>5
  <2>6. CASE a = Span(1, f - 1, 0) /\ b = Span(1, f - 1, 0)
    BY <2>6 DEF ChunksNest
  <2>7. CASE a = Span(1, f - 1, 0) /\ \E h \in HeadingLines : b = Span(h, SectionLast(h), text[h])
    BY <2>2, <2>7 DEF ChunksNest, Span
  <2>8. CASE b = Span(1, f - 1, 0) /\ \E h \in HeadingLines : a = Span(h, SectionLast(h), text[h])
    BY <2>2, <2>8 DEF ChunksNest, Span
  <2> QED
    BY <2>4, <2>5, <2>6, <2>7, <2>8
<1> QED
  BY <1>1, <1>2

(* A line that is not blank is in a section.                               *)
LEMMA NoLineLeftOut ==
    ASSUME ParsingTyped, NEW i \in DOMAIN text, text[i] # Blank0
    PROVE  \E c \in MarkdownChunks : i \in c.first..c.last
<1>1. i \in 1..Len(text) /\ Len(text) \in Nat /\ HeadingLines \subseteq 1..Len(text)
  BY LinesAreLevels DEF ParsingTyped, HeadingLines
<1>2. CASE HeadingLines = {}
  <2>1. PICK c : c = Span(1, Len(text), 0)
    OBVIOUS
  <2>2. i \in c.first..c.last
    BY <1>1, <2>1 DEF Span
  <2>3. ~IsBlankSpan(c)
    BY <2>2 DEF IsBlankSpan
  <2> QED
    BY <1>2, <2>1, <2>2, <2>3 DEF MarkdownChunks
<1>3. CASE HeadingLines # {}
  <2>1. FirstHeading \in HeadingLines
    BY <1>3, FirstHeadingIsFirst
  <2>2. CASE i < FirstHeading
    <3>1. PICK c : c = Span(1, FirstHeading - 1, 0)
      OBVIOUS
    <3>2. i \in c.first..c.last
      BY <1>1, <2>1, <2>2, <3>1 DEF Span
    <3>3. ~IsBlankSpan(c)
      BY <3>2 DEF IsBlankSpan
    <3> QED
      BY <1>3, <3>1, <3>2, <3>3 DEF MarkdownChunks
  <2>3. CASE ~(i < FirstHeading)
    <3>1. PICK A : A = {h \in HeadingLines : h <= i}
      OBVIOUS
    <3>2. FirstHeading \in A /\ A \in SUBSET (0..i) /\ i \in Nat
      <4>1. i \in Nat /\ FirstHeading \in Nat /\ FirstHeading <= i
        BY <1>1, <2>1, <2>3
      <4>2. \A h \in A : h \in 0..i
        BY <1>1, <3>1, <4>1
      <4> QED
        BY <2>1, <3>1, <4>1, <4>2
    <3>3. PICK h \in A : \A k \in A : k <= h
      BY <3>2, GreatestUpTo
    <3>4. h \in HeadingLines /\ h <= i
      BY <3>1
    <3>5. i <= SectionLast(h)
      <4>1. SectionLast(h) \in h..Len(text) /\ (SectionLast(h) = Len(text) \/ SectionLast(h) + 1 \in EndsOf(h))
        BY <3>4, SectionEnds
      <4>2. CASE SectionLast(h) = Len(text)
        BY <1>1, <4>2
      <4>3. CASE SectionLast(h) + 1 \in EndsOf(h)
        <5>1. SectionLast(h) + 1 \in HeadingLines /\ SectionLast(h) + 1 > h
          BY <4>3 DEF EndsOf
        <5>2. SectionLast(h) + 1 \notin A
          BY <1>1, <3>3, <3>4, <4>1, <5>1
        <5> QED
          BY <1>1, <3>1, <4>1, <5>1, <5>2
      <4> QED
        BY <4>1, <4>2, <4>3
    <3>6. PICK c : c = Span(h, SectionLast(h), text[h])
      OBVIOUS
    <3>7. c \in MarkdownChunks
      BY <1>3, <3>4, <3>6 DEF MarkdownChunks
    <3>8. i \in c.first..c.last
      BY <1>1, <3>4, <3>5, <3>6, SectionEnds DEF Span
    <3> QED
      BY <3>7, <3>8
  <2> QED
    BY <2>2, <2>3
<1> QED
  BY <1>2, <1>3

(* Sections nest, in every text (parsers.py:29-118).                       *)
LEMMA SectionsNestAlways == ASSUME ParsingTyped PROVE SectionsNest
  BY SectionsDoNest, NoLineLeftOut DEF SectionsNest, ChunksNest

-----------------------------------------------------------------------------
(* The lines a paragraph is cited with.                                    *)
LEMMA ParagraphEnds ==
    ASSUME ParsingTyped, NEW p \in ParagraphStarts
    PROVE  /\ ParagraphLast(p) \in p..Len(text)
           /\ \A k \in p..ParagraphLast(p) : text[k] # Blank0
           /\ ParagraphLast(p) = Len(text) \/ text[ParagraphLast(p) + 1] = Blank0
<1>1. p \in 1..Len(text) /\ Len(text) \in Nat /\ text[p] # Blank0
  BY LinesAreLevels DEF ParagraphStarts, ParsingTyped
<1>2. PICK n, S : n = Len(text) /\ S = {e \in p..n : \A k \in p..e : text[k] # Blank0}
  OBVIOUS
<1>3. p \in S /\ S \in SUBSET (0..n) /\ n \in Nat /\ p \in 1..n
  <2>1. p..p = {p} /\ p \in p..n
    BY <1>1, <1>2
  <2>2. p \in S
    BY <1>1, <1>2, <2>1
  <2>3. \A e \in S : e \in 0..n
    BY <1>1, <1>2
  <2> QED
    BY <1>1, <1>2, <2>2, <2>3
<1>4. PICK m \in S : \A k \in S : k <= m
  BY ONLY <1>3, GreatestUpTo
<1>5. m \in p..n /\ \A k \in p..m : text[k] # Blank0
  BY <1>2
<1>6. m = n \/ text[m + 1] = Blank0
  <2> SUFFICES ASSUME m # n, text[m + 1] # Blank0 PROVE FALSE
    OBVIOUS
  <2>1. m + 1 \in p..n /\ \A k \in p..(m + 1) : k \in p..m \/ k = m + 1
    BY <1>3, <1>5
  <2>2. m + 1 \in S
    BY <1>2, <1>5, <2>1
  <2> QED
    BY <1>3, <1>4, <1>5, <2>2
<1>7. \E e \in p..Len(text) : /\ \A k \in p..e : text[k] # Blank0
                              /\ e = Len(text) \/ text[e + 1] = Blank0
  BY <1>2, <1>5, <1>6
<1> QED
  BY <1>7 DEF ParagraphLast

\* A paragraph and the line after it.
BlockOf(p) == p..(ParagraphLast(p) + 1)
LinesOf(ps) == UNION {BlockOf(p) : p \in ps}

(* There is a line between two paragraphs.                                 *)
LEMMA BlocksApart ==
    ASSUME ParsingTyped, NEW p \in ParagraphStarts, NEW q \in ParagraphStarts, p < q
    PROVE  ParagraphLast(p) + 1 < q
<1>1. PICK e : e = ParagraphLast(p)
  OBVIOUS
<1>2. e \in p..Len(text) /\ \A k \in p..e : text[k] # Blank0
  BY <1>1, ParagraphEnds
<1>3. p \in 1..Len(text) /\ q \in 1..Len(text) /\ Len(text) \in Nat
  BY LinesAreLevels DEF ParagraphStarts, ParsingTyped
<1>4. q # 1 /\ text[q - 1] = Blank0
  BY <1>3 DEF ParagraphStarts
<1>5. q - 1 \notin p..e
  BY <1>2, <1>4
<1> QED
  BY <1>1, <1>2, <1>3, <1>5

\* Single blank lines divide the text.
SingleBlanks == \A i \in DOMAIN text : text[i] = Blank0 => i > 1 /\ text[i - 1] # Blank0

(* A text with single blank lines begins with a paragraph.                 *)
LEMMA FirstLineStarts ==
    ASSUME ParsingTyped, SingleBlanks, text # <<>>
    PROVE  1 \in ParagraphStarts
<1>1. 1 \in DOMAIN text
  BY DEF ParsingTyped
<1> QED
  BY <1>1 DEF SingleBlanks, ParagraphStarts

(* The paragraphs before another one, each with the line after it, are the *)
(* lines before it.                                                        *)
LEMMA BlocksCover ==
    ASSUME ParsingTyped, SingleBlanks, NEW i \in ParagraphStarts
    PROVE  LinesOf({p \in ParagraphStarts : p < i}) = 1..(i - 1)
<1>1. i \in 1..Len(text) /\ Len(text) \in Nat /\ ParagraphStarts \subseteq 1..Len(text) /\ text # <<>>
  BY LinesAreLevels DEF ParagraphStarts, ParsingTyped
<1>2. ASSUME NEW p \in ParagraphStarts, p < i, NEW k \in BlockOf(p) PROVE k \in 1..(i - 1)
  <2>1. ParagraphLast(p) \in p..Len(text) /\ ParagraphLast(p) + 1 < i
    BY <1>2, ParagraphEnds, BlocksApart
  <2> QED
    BY <1>1, <1>2, <2>1 DEF BlockOf
<1>3. ASSUME NEW k \in 1..(i - 1) PROVE \E p \in ParagraphStarts : p < i /\ k \in BlockOf(p)
  <2>1. PICK A : A = {p \in ParagraphStarts : p <= k}
    OBVIOUS
  <2>2. 1 \in A /\ A \in SUBSET (0..k) /\ k \in Nat
    <3>1. 1 \in ParagraphStarts
      BY <1>1, FirstLineStarts
    <3>2. k \in Nat /\ 1 <= k
      BY <1>1, <1>3
    <3>3. \A p \in A : p \in 0..k
      BY <1>1, <2>1, <3>2
    <3> QED
      BY <2>1, <3>1, <3>2, <3>3
  <2>3. PICK p \in A : \A q \in A : q <= p
    BY ONLY <2>2, GreatestUpTo
  <2>4. PICK e, n : e = ParagraphLast(p) /\ n = Len(text)
    OBVIOUS
  <2>5. p \in ParagraphStarts /\ p <= k /\ p \in Nat /\ e \in p..n /\ (e = n \/ text[e + 1] = Blank0)
    BY <1>1, <2>1, <2>4, ParagraphEnds
  <2>6. p < i /\ k <= n /\ k \in Nat /\ n \in Nat
    BY <1>1, <1>3, <2>4, <2>5
  <2>7. k <= e + 1
    <3> SUFFICES ASSUME ~(k <= e + 1) PROVE FALSE
      OBVIOUS
    <3>1. e + 1 \in 1..n /\ e + 2 \in 1..n /\ e + 2 <= k /\ e + 2 > p
      BY <2>5, <2>6
    <3>2. text[e + 1] = Blank0
      BY <2>5, <2>6, <3>1
    <3>3. text[e + 2] # Blank0
      <4>1. e + 2 \in DOMAIN text /\ (e + 2) - 1 = e + 1
        BY <2>4, <2>5, <3>1 DEF ParsingTyped
      <4> QED
        BY <3>2, <4>1 DEF SingleBlanks
    <3>4. e + 2 \in ParagraphStarts
      <4>1. e + 2 \in DOMAIN text /\ (e + 2) - 1 = e + 1
        BY <2>4, <2>5, <3>1 DEF ParsingTyped
      <4> QED
        BY <3>2, <3>3, <4>1 DEF ParagraphStarts
    <3>5. e + 2 \in A
      BY <2>1, <3>1, <3>4
    <3> QED
      BY <2>3, <2>5, <3>1, <3>5
  <2>8. k \in BlockOf(p)
    BY <2>4, <2>5, <2>6, <2>7 DEF BlockOf
  <2> QED
    BY <2>5, <2>6, <2>8
<1> QED
  BY <1>2, <1>3 DEF LinesOf

\* One step of the sum of line_offset.
NextLines(ps, f) ==
    IF ps = {} THEN 0 ELSE f[ps \ {PickIn(ps)}] + (ParagraphLast(PickIn(ps)) - PickIn(ps)) + 2

\* What the blank lines at the beginning add.
LeadingLines(ps) ==
    IF FirstOr(ParagraphStarts) - 1 >= 2 \/ (FirstOr(ParagraphStarts) - 1 = 1 /\ ps # {}) THEN 1 ELSE 0

(* The offset of a paragraph is added up from those before it.             *)
LEMMA LineOffsetUnfolds ==
    ASSUME NEW i, NEW K, K = {p \in ParagraphStarts : p < i},
           NEW W, W = [ps \in SUBSET K |-> NextLines(ps, W)]
    PROVE  \E f : /\ f = [ps \in SUBSET K |-> NextLines(ps, f)]
                  /\ LineOffset(i) = f[K] + LeadingLines(K)
<1> DEFINE F == CHOOSE f : f = [ps \in SUBSET K |-> NextLines(ps, f)]
<1>1. LineOffset(i) = F[K] + LeadingLines(K)
  BY DEF LineOffset, FoldSet, MapThenFoldSet, NextLines, PickIn, LeadingLines
<1>2. F = [ps \in SUBSET K |-> NextLines(ps, F)]
  BY Zenon
<1> QED
  BY <1>1, <1>2

(* With single blank lines it is the number of lines before it.            *)
LEMMA CitedLineIsOwn ==
    ASSUME ParsingTyped, SingleBlanks, NEW i \in ParagraphStarts
    PROVE  LineOffset(i) = i - 1
<1>1. PICK K : K = {p \in ParagraphStarts : p < i}
  OBVIOUS
<1>2. i \in 1..Len(text) /\ Len(text) \in Nat /\ ParagraphStarts \subseteq 1..Len(text) /\ text # <<>>
  BY LinesAreLevels DEF ParagraphStarts, ParsingTyped
<1>3. IsFiniteSet(K)
  <2>1. PICK S : S = 1..Len(text)
    OBVIOUS
  <2>2. IsFiniteSet(S)
    BY <1>2, <2>1, FS_Interval
  <2>3. K \in SUBSET S
    BY <1>1, <1>2, <2>1
  <2> QED
    BY ONLY <2>2, <2>3, FS_Subset
<1>4. \A ps \in SUBSET K : IsFiniteSet(LinesOf(ps)) /\ Cardinality(LinesOf(ps)) \in Nat
  <2>1. IsFiniteSet(1..(i - 1))
    BY <1>2, FS_Interval
  <2>2. LinesOf(K) = 1..(i - 1)
    BY <1>1, BlocksCover
  <2>3. \A ps \in SUBSET K : LinesOf(ps) \subseteq 1..(i - 1)
    BY <2>2 DEF LinesOf
  <2> QED
    BY <2>1, <2>3, FS_Subset, FS_CardinalityType
<1>5. PICK W : W = [ps \in SUBSET K |-> Cardinality(LinesOf(ps))]
  OBVIOUS
<1>6. ASSUME NEW ps \in SUBSET K, NEW x \in ps
      PROVE  W[ps] = W[ps \ {x}] + (ParagraphLast(x) - x) + 2
  <2>1. PICK P, Q, R : P = LinesOf(ps) /\ Q = LinesOf(ps \ {x}) /\ R = BlockOf(x)
    OBVIOUS
  <2>2. P = Q \cup R
    BY <2>1 DEF LinesOf
  <2>3. Q \cap R = {}
    <3> SUFFICES ASSUME NEW k \in R, NEW p \in ps \ {x}, k \in BlockOf(p) PROVE FALSE
      BY <2>1 DEF LinesOf
    <3>1. p \in ParagraphStarts /\ x \in ParagraphStarts /\ p # x
      BY <1>1
    <3>2. p \in Nat /\ x \in Nat /\ ParagraphLast(p) \in Nat /\ ParagraphLast(x) \in Nat
      BY <1>2, <3>1, ParagraphEnds
    <3>3. k \in Int /\ p <= k /\ k <= ParagraphLast(p) + 1 /\ x <= k /\ k <= ParagraphLast(x) + 1
      BY <2>1, <3>2 DEF BlockOf
    <3>4. CASE p < x
      BY <3>1, <3>2, <3>3, <3>4, BlocksApart
    <3>5. CASE x < p
      BY <3>1, <3>2, <3>3, <3>5, BlocksApart
    <3> QED
      BY <3>1, <3>2, <3>4, <3>5
  <2>4. IsFiniteSet(Q) /\ Cardinality(Q) \in Nat
    BY <1>4, <2>1
  <2>5. /\ IsFiniteSet(R) /\ Cardinality(R) = (ParagraphLast(x) - x) + 2
        /\ x \in Nat /\ ParagraphLast(x) \in Nat /\ x <= ParagraphLast(x)
    <3>1. PICK e : e = ParagraphLast(x)
      OBVIOUS
    <3>2. x \in Nat /\ e \in Nat /\ x <= e
      BY <1>1, <1>2, <3>1, ParagraphEnds
    <3>3. IsFiniteSet(x..(e + 1)) /\ Cardinality(x..(e + 1)) = (e + 1) - x + 1
      BY <3>2, FS_Interval
    <3> QED
      BY <2>1, <3>1, <3>2, <3>3 DEF BlockOf
  <2>6. Cardinality(P) = Cardinality(Q) + Cardinality(R)
    <3>1. Cardinality(P) = Cardinality(Q) + Cardinality(R) - Cardinality(Q \cap R)
      BY ONLY <2>2, <2>4, <2>5, FS_Union
    <3>2. Cardinality(Q \cap R) = 0
      BY <2>3, FS_EmptySet
    <3> QED
      BY <2>4, <2>5, <3>1, <3>2
  <2>7. W[ps] = Cardinality(P) /\ W[ps \ {x}] = Cardinality(Q)
    BY <1>5, <2>1
  <2> QED
    BY <2>4, <2>5, <2>6, <2>7
<1>7. W[{}] = 0
  <2>1. LinesOf({}) = {}
    BY DEF LinesOf
  <2> QED
    BY <1>5, <2>1, FS_EmptySet
<1>8. W = [ps \in SUBSET K |-> NextLines(ps, W)]
  <2>1. ASSUME NEW ps \in SUBSET K PROVE W[ps] = NextLines(ps, W)
    <3>1. CASE ps = {}
      BY <1>7, <3>1 DEF NextLines
    <3>2. CASE ps # {}
      <4>1. PickIn(ps) \in ps
        BY <3>2 DEF PickIn
      <4> QED
        BY <1>6, <3>2, <4>1 DEF NextLines
    <3> QED
      BY <3>1, <3>2
  <2>2. W = [ps \in SUBSET K |-> W[ps]]
    BY <1>5
  <2> QED
    BY <2>1, <2>2
<1>9. PICK f : /\ f = [ps \in SUBSET K |-> NextLines(ps, f)]
               /\ LineOffset(i) = f[K] + LeadingLines(K)
  BY <1>1, <1>8, LineOffsetUnfolds
<1>10. f[K] = W[K]
  <2>1. f[{}] = W[{}]
    BY <1>7, <1>9 DEF NextLines
  <2>2. ASSUME NEW ps \in SUBSET K, ps # {} PROVE \E x \in ps : f[ps \ {x}] = W[ps \ {x}] => f[ps] = W[ps]
    <3>1. PICK x : x = PickIn(ps) /\ x \in ps
      BY <2>2 DEF PickIn
    <3>2. f[ps] = f[ps \ {x}] + (ParagraphLast(x) - x) + 2
      BY <1>9, <2>2, <3>1 DEF NextLines
    <3> QED
      BY <1>6, <3>1, <3>2
  <2>3. Inherits(K, f, W)
    BY <2>2 DEF Inherits
  <2>4. \A ps \in SUBSET K : f[ps] = W[ps]
    BY ONLY <1>3, <2>1, <2>3, SubsetsAgree
  <2> QED
    BY <2>4
<1>11. W[K] = i - 1
  <2>1. LinesOf(K) = 1..(i - 1)
    BY <1>1, BlocksCover
  <2> QED
    BY <1>2, <1>5, <2>1, FS_Interval
<1>12. FirstOr(ParagraphStarts) = 1
  <2>1. 1 \in ParagraphStarts /\ \A j \in ParagraphStarts : 1 <= j
    BY <1>2, FirstLineStarts
  <2>2. PICK e : e = CHOOSE a \in ParagraphStarts : \A j \in ParagraphStarts : a <= j
    OBVIOUS
  <2>3. e \in ParagraphStarts /\ \A j \in ParagraphStarts : e <= j
    BY <2>1, <2>2
  <2>4. e = 1
    BY <1>2, <2>1, <2>3
  <2> QED
    BY <2>1, <2>2, <2>4 DEF FirstOr
<1>13. LeadingLines(K) = 0
  BY <1>12 DEF LeadingLines
<1> QED
  BY <1>2, <1>9, <1>10, <1>11, <1>13

(* So paragraphs are cited with their own lines (parsers.py:128-167).      *)
LEMMA CitedLinesAlways == ASSUME ParsingTyped PROVE CitedLinesExact
  BY CitedLineIsOwn DEF CitedLinesExact, SingleBlanks

-----------------------------------------------------------------------------
(* The heading path of a paragraph.                                        *)
KeptOf(path, level) ==
    LET deep == {n \in DOMAIN path : text[path[n]] < level}
    IN  IF deep = {} THEN <<>>
        ELSE SubSeq(path, 1, CHOOSE n \in deep : \A m \in deep : m <= n)

PathNext(k, f) ==
    IF k = 0 THEN <<>>
    ELSE IF text[k] > 0 THEN Append(KeptOf(f[k - 1], text[k]), k) ELSE f[k - 1]

(* What a heading keeps of a path is a first part that ends above it.      *)
LEMMA KeptPrefix ==
    ASSUME NEW path \in Seq(Nat), NEW level
    PROVE  /\ KeptOf(path, level) \in Seq(Nat)
           /\ \/ KeptOf(path, level) = <<>>
              \/ \E n \in DOMAIN path : KeptOf(path, level) = SubSeq(path, 1, n) /\ text[path[n]] < level
<1>1. PICK deep : deep = {n \in DOMAIN path : text[path[n]] < level}
  OBVIOUS
<1>2. CASE deep = {}
  BY <1>1, <1>2 DEF KeptOf
<1>3. CASE deep # {}
  <2>1. deep \in SUBSET (0..Len(path)) /\ Len(path) \in Nat
    BY <1>1
  <2>2. \E n \in deep : \A m \in deep : m <= n
    BY <1>3, <2>1, GreatestUpTo
  <2>3. PICK n : n = CHOOSE k \in deep : \A m \in deep : m <= k
    OBVIOUS
  <2>4. n \in deep
    BY <2>2, <2>3
  <2>5. n \in DOMAIN path /\ text[path[n]] < level
    BY <1>1, <2>4
  <2>6. KeptOf(path, level) = SubSeq(path, 1, n)
    BY <1>1, <1>3, <2>3 DEF KeptOf
  <2>7. SubSeq(path, 1, n) \in Seq(Nat)
    BY <2>5
  <2> QED
    BY <2>5, <2>6, <2>7
<1> QED
  BY <1>2, <1>3

(* The heading path of a line unfolds.                                     *)
LEMMA StackUnfolds ==
    ASSUME NEW i, NEW W, W = [k \in 0..Len(text) |-> PathNext(k, W)]
    PROVE  \E f : f = [k \in 0..Len(text) |-> PathNext(k, f)] /\ HeadingStack(i) = f[i]
<1> DEFINE F == CHOOSE f : f = [k \in 0..Len(text) |-> PathNext(k, f)]
<1>1. HeadingStack(i) = F[i]
  BY DEF HeadingStack, PathNext, KeptOf
<1>2. F = [k \in 0..Len(text) |-> PathNext(k, F)]
  BY Zenon
<1> QED
  BY <1>1, <1>2

(* There is a path for every line.                                         *)
LEMMA StackExists ==
    ASSUME ParsingTyped
    PROVE  \E W : W = [k \in 0..Len(text) |-> PathNext(k, W)]
<1>1. PICK n, T, B, base, prev, step :
         /\ n = Len(text) /\ T = Seq(Nat) /\ B = {0} /\ base = [k \in 0..n |-> <<>>]
         /\ prev = [k \in 0..n |-> k - 1]
         /\ step = [k \in 0..n |-> [path \in T |-> IF text[k] > 0 THEN Append(KeptOf(path, text[k]), k) ELSE path]]
  OBVIOUS
<1>2. n \in Nat
  BY <1>1, LinesAreLevels
<1>3. \A k \in 0..n : k \in B => base[k] \in T
  BY <1>1
<1>4. ASSUME NEW k \in 0..n, k \notin B PROVE prev[k] \in 0..(k - 1) /\ step[k] \in [T -> T]
  <2>1. \A path \in T : KeptOf(path, text[k]) \in T
    BY <1>1, KeptPrefix
  <2>2. \A path \in T : Append(KeptOf(path, text[k]), k) \in T
    BY <1>1, <1>2, <2>1
  <2>3. step[k] = [path \in T |-> IF text[k] > 0 THEN Append(KeptOf(path, text[k]), k) ELSE path]
    BY <1>1
  <2>4. step[k] \in [T -> T]
    BY <2>2, <2>3
  <2>5. prev[k] = k - 1
    BY <1>1
  <2> QED
    BY <1>1, <1>2, <1>4, <2>4, <2>5
<1>5. PICK W \in [0..n -> T] : Builds(W, n, B, base, prev, step)
  BY <1>2, <1>3, <1>4, RecursionExists
<1>6. ASSUME NEW k \in 0..n PROVE W[k] = PathNext(k, W)
  <2>1. CASE k = 0
    BY <1>1, <1>5, <2>1 DEF Builds, PathNext
  <2>2. CASE k # 0
    <3>1. W[k] = step[k][W[k - 1]]
      BY <1>1, <1>5, <2>2 DEF Builds
    <3>2. W[k - 1] \in T
      BY <1>2, <1>5, <2>2
    <3> QED
      BY <1>1, <2>2, <3>1, <3>2 DEF PathNext
  <2> QED
    BY <2>1, <2>2
<1>7. W = [k \in 0..n |-> W[k]]
  BY <1>5
<1> QED
  BY <1>1, <1>6, <1>7

\* The path of line k goes down and ends at the nearest heading above.
HeadingsAbove(k) == {h \in HeadingLines : h <= k}
Descends(path) == \A n \in DOMAIN path : n < Len(path) => text[path[n]] < text[path[n + 1]]
PathFits(path, k) ==
    /\ path \in Seq(Nat) /\ \A n \in DOMAIN path : path[n] \in HeadingLines
    /\ Descends(path)
    /\ HeadingsAbove(k) # {} => path # <<>> /\ \A h \in HeadingsAbove(k) : h <= path[Len(path)]

(* A heading extends the path of the line before it.                       *)
LEMMA PathGrows ==
    ASSUME ParsingTyped, NEW k \in DOMAIN text, text[k] > 0, NEW path, PathFits(path, k - 1)
    PROVE  PathFits(Append(KeptOf(path, text[k]), k), k)
<1>1. PICK kept, level, q : kept = KeptOf(path, level) /\ level = text[k] /\ q = Append(kept, k)
  OBVIOUS
<1>2. k \in HeadingLines /\ k \in Nat /\ \A h \in HeadingLines : h \in Nat
  BY LinesAreLevels DEF HeadingLines, ParsingTyped
<1>3. /\ kept \in Seq(Nat)
      /\ kept = <<>> \/ \E n \in DOMAIN path : kept = SubSeq(path, 1, n) /\ text[path[n]] < level
  BY <1>1, KeptPrefix DEF PathFits
<1>4. /\ q \in Seq(Nat) /\ Len(q) = Len(kept) + 1 /\ q[Len(q)] = k /\ q # <<>>
      /\ \A n \in DOMAIN kept : q[n] = kept[n]
      /\ \A n \in DOMAIN q : n \in DOMAIN kept \/ n = Len(q)
  BY <1>1, <1>2, <1>3
<1>5. /\ \A n \in DOMAIN kept : kept[n] \in HeadingLines
      /\ Descends(kept)
      /\ kept # <<>> => text[kept[Len(kept)]] < level
  <2>1. CASE kept = <<>>
    BY <2>1 DEF Descends
  <2>2. CASE kept # <<>>
    <3>1. PICK n \in DOMAIN path : kept = SubSeq(path, 1, n) /\ text[path[n]] < level
      BY <1>3, <2>2
    <3>2. path \in Seq(Nat) /\ n \in 1..Len(path)
      BY DEF PathFits
    <3>3. Len(kept) = n /\ DOMAIN kept = 1..n /\ \A m \in 1..n : kept[m] = path[m]
      BY <3>1, <3>2
    <3>4. \A m \in DOMAIN kept : kept[m] \in HeadingLines
      BY <3>2, <3>3 DEF PathFits
    <3>5. Descends(kept)
      <4> SUFFICES ASSUME NEW m \in DOMAIN kept, m < Len(kept) PROVE text[kept[m]] < text[kept[m + 1]]
        BY DEF Descends
      <4>1. m \in 1..n /\ m + 1 \in 1..n /\ m \in DOMAIN path /\ m < Len(path)
        BY <1>3, <3>2, <3>3
      <4>2. text[path[m]] < text[path[m + 1]]
        BY <4>1 DEF PathFits, Descends
      <4> QED
        BY <3>3, <4>1, <4>2
    <3> QED
      BY <3>1, <3>2, <3>3, <3>4, <3>5
  <2> QED
    BY <2>1, <2>2
<1>6. \A n \in DOMAIN q : q[n] \in HeadingLines
  BY <1>2, <1>4, <1>5
<1>7. Descends(q)
  <2> SUFFICES ASSUME NEW m \in DOMAIN q, m < Len(q) PROVE text[q[m]] < text[q[m + 1]]
    BY DEF Descends
  <2>1. m \in DOMAIN kept /\ q[m] = kept[m]
    BY <1>3, <1>4
  <2>2. CASE m < Len(kept)
    <3>1. m + 1 \in DOMAIN kept
      BY <1>3, <2>1, <2>2
    <3> QED
      BY <1>4, <1>5, <2>1, <2>2, <3>1 DEF Descends
  <2>3. CASE ~(m < Len(kept))
    <3>1. m = Len(kept) /\ m + 1 = Len(q) /\ kept # <<>>
      BY <1>3, <1>4, <2>1, <2>3
    <3> QED
      BY <1>1, <1>4, <1>5, <2>1, <3>1
  <2> QED
    BY <2>2, <2>3
<1>8. \A h \in HeadingsAbove(k) : h <= q[Len(q)]
  BY <1>4 DEF HeadingsAbove
<1> QED
  BY <1>1, <1>4, <1>6, <1>7, <1>8 DEF PathFits

(* The path of a line goes down to the nearest heading above it.           *)
LEMMA HeadingPathFits == ASSUME ParsingTyped, NEW i \in DOMAIN text PROVE PathFits(HeadingStack(i), i)
<1>1. \E W : W = [k \in 0..Len(text) |-> PathNext(k, W)]
  BY StackExists
<1>2. PICK f : f = [k \in 0..Len(text) |-> PathNext(k, f)] /\ HeadingStack(i) = f[i]
  BY <1>1, StackUnfolds
<1>3. PICK n, S : n = Len(text) /\ S = {k \in 0..n : PathFits(f[k], k)}
  OBVIOUS
<1>4. n \in Nat /\ DOMAIN text = 1..n /\ i \in 0..n
  BY <1>3, LinesAreLevels DEF ParsingTyped
<1>5. ASSUME NEW k \in 0..n, \A j \in 0..(k - 1) : j \in S PROVE k \in S
  <2>1. f[k] = PathNext(k, f)
    BY <1>2, <1>3
  <2>2. CASE k = 0
    <3>1. f[k] = <<>> /\ HeadingsAbove(k) = {}
      BY <1>4, <2>1, <2>2 DEF PathNext, HeadingsAbove, HeadingLines
    <3>2. PICK p : p = <<>>
      OBVIOUS
    <3>3. p \in Seq(Nat) /\ DOMAIN p = {}
      BY ONLY <3>2
    <3>4. PathFits(p, k)
      BY <3>1, <3>3 DEF PathFits, Descends
    <3> QED
      BY <1>3, <3>1, <3>2, <3>4
  <2>3. CASE k # 0
    <3>1. k - 1 \in 0..(k - 1) /\ k \in DOMAIN text
      BY <1>4, <2>3
    <3>2. PathFits(f[k - 1], k - 1)
      BY <1>3, <1>5, <3>1
    <3>3. CASE text[k] > 0
      <4>1. f[k] = Append(KeptOf(f[k - 1], text[k]), k)
        BY <2>1, <2>3, <3>3 DEF PathNext
      <4>2. PathFits(f[k], k)
        BY <3>1, <3>2, <3>3, <4>1, PathGrows
      <4> QED
        BY <1>3, <4>2
    <3>4. CASE ~(text[k] > 0)
      <4>1. f[k] = f[k - 1]
        BY <2>1, <2>3, <3>4 DEF PathNext
      <4>2. HeadingsAbove(k) = HeadingsAbove(k - 1)
        BY <1>4, <3>4 DEF HeadingsAbove, HeadingLines
      <4>3. PathFits(f[k], k)
        BY <3>2, <4>1, <4>2 DEF PathFits
      <4> QED
        BY <1>3, <4>3
    <3> QED
      BY <3>3, <3>4
  <2> QED
    BY <2>2, <2>3
<1>6. i \in S
  BY <1>4, <1>5, NumbersReached
<1> QED
  BY <1>2, <1>3, <1>6

(* Heading paths go down, in every text (parsers.py:218-284).              *)
LEMMA HeadingPathsAlways == ASSUME ParsingTyped PROVE HeadingPathsDescend
<1> SUFFICES ASSUME NEW i \in DOMAIN text, NEW path, path = HeadingStack(i), NEW above, above = HeadingsAbove(i)
             PROVE  /\ \A n \in DOMAIN path : n < Len(path) => text[path[n]] < text[path[n + 1]]
                    /\ above # {} => path # <<>> /\ \A h \in above : h <= path[Len(path)]
  BY DEF HeadingPathsDescend, HeadingsAbove
<1> QED
  BY HeadingPathFits DEF PathFits, Descends

-----------------------------------------------------------------------------
(* The letters of a column.                                                *)
LetterNext(k, f) == IF k < 26 THEN <<k>> ELSE Append(f[k \div 26 - 1], k % 26)

(* The letters of a column unfold.                                         *)
LEMMA LettersUnfold ==
    ASSUME NEW n, NEW W, W = [k \in 0..n |-> LetterNext(k, W)]
    PROVE  \E f : f = [k \in 0..n |-> LetterNext(k, f)] /\ ColumnLetter(n) = f[n]
<1> DEFINE F == CHOOSE f : f = [k \in 0..n |-> LetterNext(k, f)]
<1>1. ColumnLetter(n) = F[n]
  BY DEF ColumnLetter, LetterNext
<1>2. F = [k \in 0..n |-> LetterNext(k, F)]
  BY Zenon
<1> QED
  BY <1>1, <1>2

(* Division by 26 leaves less, and a rest.                                 *)
LEMMA TwentySixes ==
    ASSUME NEW k \in Nat, k >= 26
    PROVE  k \div 26 - 1 \in 0..(k - 1) /\ k % 26 \in Nat /\ (k \div 26) * 26 + (k % 26) = k
  OBVIOUS

(* There are letters for every column.                                     *)
LEMMA LettersExist ==
    ASSUME NEW n \in Nat
    PROVE  \E W : W = [k \in 0..n |-> LetterNext(k, W)]
<1>1. PICK T, B, base, prev, step :
         /\ T = Seq(Nat) /\ B = 0..25 /\ base = [k \in 0..n |-> <<k>>]
         /\ prev = [k \in 0..n |-> k \div 26 - 1]
         /\ step = [k \in 0..n |-> [s \in T |-> Append(s, k % 26)]]
  OBVIOUS
<1>2. \A k \in 0..n : k \in B => base[k] \in T
  BY <1>1
<1>3. ASSUME NEW k \in 0..n, k \notin B PROVE prev[k] \in 0..(k - 1) /\ step[k] \in [T -> T]
  <2>1. k \in Nat /\ k >= 26
    BY <1>1, <1>3
  <2>2. k \div 26 - 1 \in 0..(k - 1) /\ k % 26 \in Nat
    BY <2>1, TwentySixes
  <2>3. \A s \in T : Append(s, k % 26) \in T
    BY <1>1, <2>2
  <2>4. step[k] = [s \in T |-> Append(s, k % 26)]
    BY <1>1
  <2>5. prev[k] = k \div 26 - 1
    BY <1>1
  <2> QED
    BY <2>2, <2>3, <2>4, <2>5
<1>4. PICK W \in [0..n -> T] : Builds(W, n, B, base, prev, step)
  BY <1>2, <1>3, RecursionExists
<1>5. ASSUME NEW k \in 0..n PROVE W[k] = LetterNext(k, W)
  <2>3. B = 0..25 /\ k \in Nat
    BY <1>1
  <2>1. CASE k < 26
    <3>1. k \in B
      BY <2>3, <2>1
    <3>2. W[k] = base[k]
      BY <1>4, <3>1 DEF Builds
    <3> QED
      BY <1>1, <2>1, <3>2 DEF LetterNext
  <2>2. CASE ~(k < 26)
    <3>1. k \in Nat /\ k >= 26 /\ k \notin B
      BY <2>3, <2>2
    <3>2. k \div 26 - 1 \in 0..n
      BY <3>1, TwentySixes
    <3>3. W[k] = step[k][W[k \div 26 - 1]]
      BY <1>1, <1>4, <3>1 DEF Builds
    <3>4. W[k \div 26 - 1] \in T
      BY <1>4, <3>2
    <3> QED
      BY <1>1, <2>2, <3>3, <3>4 DEF LetterNext
  <2> QED
    BY <2>1, <2>2
<1>6. W = [k \in 0..n |-> W[k]]
  BY <1>4
<1> QED
  BY <1>5, <1>6

\* A sequence of letters read as a bijective numeral of base 26.
ValueNext(s, k, f) == IF k = 0 THEN 0 ELSE f[k - 1] * 26 + s[k] + 1
ValueOf(s) ==
    LET value[k \in 0..Len(s)] == IF k = 0 THEN 0 ELSE value[k - 1] * 26 + s[k] + 1
    IN  value[Len(s)]

(* The value of letters unfolds.                                           *)
LEMMA ValueUnfolds ==
    ASSUME NEW s \in Seq(Nat)
    PROVE  \E f \in [0..Len(s) -> Nat] : (\A k \in 0..Len(s) : f[k] = ValueNext(s, k, f)) /\ ValueOf(s) = f[Len(s)]
<1>1. PICK n, B, base, prev, step :
         /\ n = Len(s) /\ B = {0} /\ base = [k \in 0..n |-> 0] /\ prev = [k \in 0..n |-> k - 1]
         /\ step = [k \in 0..n |-> [v \in Nat |-> v * 26 + s[k] + 1]]
  OBVIOUS
<1>2. n \in Nat /\ \A k \in 1..n : s[k] \in Nat
  <2>1. n = Len(s)
    BY <1>1
  <2> QED
    BY ONLY <2>1, s \in Seq(Nat)
<1>3. \A k \in 0..n : k \in B => base[k] \in Nat
  BY <1>1
<1>4. ASSUME NEW k \in 0..n, k \notin B PROVE prev[k] \in 0..(k - 1) /\ step[k] \in [Nat -> Nat]
  <2>1. k # 0 /\ prev[k] = k - 1 /\ step[k] = [v \in Nat |-> v * 26 + s[k] + 1]
    BY <1>1, <1>4
  <2>2. k \in 1..n
    BY <1>2, <2>1
  <2>3. PICK d : d = s[k] /\ d \in Nat
    BY <1>2, <2>2
  <2>4. \A v \in Nat : v * 26 + d + 1 \in Nat
    BY <2>3
  <2>5. step[k] \in [Nat -> Nat]
    BY <2>1, <2>3, <2>4
  <2>6. k - 1 \in 0..(k - 1)
    BY <2>2
  <2>7. prev[k] = k - 1
    BY <2>1
  <2> QED
    BY ONLY <2>5, <2>6, <2>7
<1>5. PICK W \in [0..n -> Nat] : Builds(W, n, B, base, prev, step)
  BY <1>2, <1>3, <1>4, RecursionExists
<1>6. ASSUME NEW k \in 0..n PROVE W[k] = ValueNext(s, k, W)
  <2>1. CASE k = 0
    BY <1>1, <1>5, <2>1 DEF Builds, ValueNext
  <2>2. CASE k # 0
    <3>1. W[k] = step[k][W[k - 1]]
      BY <1>1, <1>5, <2>2 DEF Builds
    <3>2. W[k - 1] \in Nat
      BY <1>2, <1>5, <2>2
    <3> QED
      BY <1>1, <2>2, <3>1, <3>2 DEF ValueNext
  <2> QED
    BY <2>1, <2>2
<1>7. W = [k \in 0..Len(s) |-> ValueNext(s, k, W)]
  <2>1. W = [k \in 0..n |-> W[k]]
    BY <1>5
  <2> QED
    BY <1>1, <1>6, <2>1
<1> DEFINE F == CHOOSE f : f = [k \in 0..Len(s) |-> ValueNext(s, k, f)]
<1>8. F = [k \in 0..Len(s) |-> ValueNext(s, k, F)]
  BY <1>7, Zenon
<1>9. ValueOf(s) = F[Len(s)]
  BY DEF ValueOf, ValueNext
<1>10. PICK f : f = [k \in 0..Len(s) |-> ValueNext(s, k, f)] /\ ValueOf(s) = f[Len(s)]
  BY <1>8, <1>9
<1>11. PICK S : S = {k \in 0..n : f[k] \in Nat}
  OBVIOUS
<1>12. ASSUME NEW k \in 0..n, \A j \in 0..(k - 1) : j \in S PROVE k \in S
  <2>1. f[k] = ValueNext(s, k, f)
    BY <1>1, <1>10
  <2>2. CASE k = 0
    BY <1>11, <2>1, <2>2 DEF ValueNext
  <2>3. CASE k # 0
    <3>1. k - 1 \in S /\ s[k] \in Nat
      BY <1>2, <1>12, <2>3
    <3>2. f[k - 1] \in Nat
      BY <1>11, <3>1
    <3>3. f[k - 1] * 26 + s[k] + 1 \in Nat
      BY <3>1, <3>2
    <3> QED
      BY <1>11, <2>1, <2>3, <3>3 DEF ValueNext
  <2> QED
    BY <2>2, <2>3
<1>13. \A k \in 0..n : k \in S
  BY <1>2, <1>12, NumbersReached
<1>14. f \in [0..Len(s) -> Nat]
  BY <1>1, <1>10, <1>11, <1>13
<1>15. \A k \in 0..Len(s) : f[k] = ValueNext(s, k, f)
  BY <1>10
<1> QED
  BY <1>10, <1>14, <1>15

(* One more letter multiplies the value by 26 and adds its own.            *)
LEMMA ValueAppended ==
    ASSUME NEW s \in Seq(Nat), NEW d \in Nat
    PROVE  ValueOf(s) \in Nat /\ ValueOf(Append(s, d)) = ValueOf(s) * 26 + d + 1
<1>1. PICK q, n : q = Append(s, d) /\ n = Len(s)
  OBVIOUS
<1>2. q \in Seq(Nat) /\ Len(q) = n + 1 /\ n \in Nat /\ q[n + 1] = d /\ \A k \in 1..n : q[k] = s[k]
  BY <1>1
<1>3. PICK f \in [0..n -> Nat] : (\A k \in 0..n : f[k] = ValueNext(s, k, f)) /\ ValueOf(s) = f[n]
  BY <1>1, ValueUnfolds
<1>4. PICK g \in [0..(n + 1) -> Nat] : (\A k \in 0..(n + 1) : g[k] = ValueNext(q, k, g)) /\ ValueOf(q) = g[n + 1]
  BY <1>2, ValueUnfolds
<1>5. PICK S : S = {k \in 0..n : g[k] = f[k]}
  OBVIOUS
<1>6. ASSUME NEW k \in 0..n, \A j \in 0..(k - 1) : j \in S PROVE k \in S
  <2>1. f[k] = ValueNext(s, k, f) /\ g[k] = ValueNext(q, k, g)
    BY <1>2, <1>3, <1>4
  <2>2. CASE k = 0
    BY <1>5, <2>1, <2>2 DEF ValueNext
  <2>3. CASE k # 0
    <3>1. k - 1 \in S /\ q[k] = s[k]
      BY <1>2, <1>6, <2>3
    <3>2. g[k - 1] = f[k - 1]
      BY <1>5, <3>1
    <3> QED
      BY <1>5, <2>1, <2>3, <3>1, <3>2 DEF ValueNext
  <2> QED
    BY <2>2, <2>3
<1>7. \A k \in 0..n : k \in S
  BY <1>2, <1>6, NumbersReached
<1>8. g[n] = f[n] /\ f[n] \in Nat
  BY <1>2, <1>3, <1>5, <1>7
<1>9. g[n + 1] = g[n] * 26 + d + 1
  <2>1. n + 1 \in 0..(n + 1) /\ n + 1 # 0 /\ (n + 1) - 1 = n
    BY <1>2
  <2>2. g[n + 1] = ValueNext(q, n + 1, g)
    BY <1>4, <2>1
  <2> QED
    BY <1>2, <2>1, <2>2 DEF ValueNext
<1>10. PICK v, w : v = ValueOf(s) /\ w = ValueOf(Append(s, d))
  OBVIOUS
<1>11. v = f[n] /\ w = g[n + 1]
  BY <1>1, <1>3, <1>4, <1>10
<1>12. v \in Nat /\ w = v * 26 + d + 1
  BY <1>8, <1>9, <1>11
<1> QED
  BY ONLY <1>10, <1>12

(* The value of one letter is its number.                                  *)
LEMMA OneLetter == ASSUME NEW d \in Nat PROVE ValueOf(<<d>>) = d + 1
<1>1. PICK s : s = <<d>>
  OBVIOUS
<1>2. s \in Seq(Nat) /\ Len(s) = 1 /\ s[1] = d
  BY <1>1
<1>3. PICK f \in [0..1 -> Nat] : (\A k \in 0..1 : f[k] = ValueNext(s, k, f)) /\ ValueOf(s) = f[1]
  BY <1>2, ValueUnfolds
<1>4. f[0] = 0
  BY <1>3 DEF ValueNext
<1>5. f[1] = f[0] * 26 + s[1] + 1
  <2>1. f[1] = ValueNext(s, 1, f)
    BY <1>3
  <2> QED
    BY <2>1 DEF ValueNext
<1> QED
  BY <1>1, <1>2, <1>3, <1>4, <1>5

(* The letters of a column have its number as their value.                 *)
LEMMA LettersTell ==
    ASSUME NEW n \in Nat
    PROVE  ColumnLetter(n) \in Seq(Nat) /\ ValueOf(ColumnLetter(n)) = n + 1
<1>1. PICK f : f = [k \in 0..n |-> LetterNext(k, f)] /\ ColumnLetter(n) = f[n]
  BY LettersExist, LettersUnfold
<1>2. PICK S : S = {k \in 0..n : f[k] \in Seq(Nat) /\ ValueOf(f[k]) = k + 1}
  OBVIOUS
<1>3. ASSUME NEW k \in 0..n, \A j \in 0..(k - 1) : j \in S PROVE k \in S
  <2>1. f[k] = LetterNext(k, f)
    BY <1>1
  <2>2. CASE k < 26
    <3>1. f[k] = <<k>>
      BY <2>1, <2>2 DEF LetterNext
    <3>2. <<k>> \in Seq(Nat) /\ ValueOf(<<k>>) = k + 1
      BY OneLetter
    <3> QED
      BY <1>2, <3>1, <3>2
  <2>3. CASE ~(k < 26)
    <3>1. PICK c, d, p : c = k \div 26 /\ d = k % 26 /\ p = f[c - 1]
      OBVIOUS
    <3>2. c - 1 \in 0..(k - 1) /\ d \in Nat /\ c * 26 + d = k
      BY <2>3, <3>1, TwentySixes
    <3>3. p \in Seq(Nat) /\ ValueOf(p) = (c - 1) + 1
      BY <1>2, <1>3, <3>1, <3>2
    <3>4. f[k] = Append(p, d)
      BY <2>1, <2>3, <3>1 DEF LetterNext
    <3>5. ValueOf(f[k]) = ValueOf(p) * 26 + d + 1
      BY <3>2, <3>3, <3>4, ValueAppended
    <3>6. ValueOf(f[k]) = k + 1
      <4>1. PICK v : v = ValueOf(p)
        OBVIOUS
      <4>2. c \in Int /\ v = c /\ d \in Int
        BY <3>1, <3>2, <3>3, <4>1
      <4> QED
        BY <3>2, <3>5, <4>1, <4>2
    <3>7. f[k] \in Seq(Nat)
      BY <3>2, <3>3, <3>4
    <3> QED
      BY <1>2, <3>6, <3>7
  <2> QED
    BY <2>2, <2>3
<1>4. n \in S
  BY <1>3, NumbersReached
<1> QED
  BY <1>1, <1>2, <1>4

(* So no two columns have one name (parsers.py:292-298).                   *)
LEMMA ColumnNamesAlways == ASSUME ParsingTyped PROVE ColumnNamesDecode
<1>1. ValueOf(ColumnLetter(column)) = column + 1
  BY LettersTell DEF ParsingTyped
<1> QED
  BY <1>1 DEF ColumnNamesDecode, ValueOf

-----------------------------------------------------------------------------
(* The sections of a document.                                             *)
PieceRecords == {[heading |-> h, text |-> t, size |-> SizeOf[t]] : h \in Headings \cup {NoHeading}, t \in PieceTexts}
ChunkTyped == pieces \in Seq(PieceRecords)

(* The document that is cut is made of pieces.                             *)
LEMMA PiecesTyped == ChunkInit => ChunkTyped
<1> SUFFICES ASSUME ChunkInit PROVE ChunkTyped
  OBVIOUS
<1>1. PICK n \in 1..MaxPieces : pieces \in [1..n -> PieceRecords]
  BY DEF ChunkInit, PieceRecords
<1> QED
  BY <1>1, ChunkerAssumption DEF ChunkTyped, ChunkerAssumption

(* A piece has a length.                                                   *)
LEMMA PiecesFit ==
    ASSUME ChunkTyped
    PROVE  /\ Len(pieces) \in Nat /\ DOMAIN pieces = 1..Len(pieces)
           /\ \A k \in 1..Len(pieces) : pieces[k] \in PieceRecords /\ pieces[k].size \in Nat \ {0}
<1>1. Len(pieces) \in Nat /\ DOMAIN pieces = 1..Len(pieces)
  BY DEF ChunkTyped
<1>2. \A k \in 1..Len(pieces) : pieces[k] \in PieceRecords
  BY DEF ChunkTyped
<1>3. \A c \in PieceRecords : c.size \in Nat \ {0}
  BY ChunkerAssumption DEF PieceRecords, ChunkerAssumption
<1> QED
  BY <1>1, <1>2, <1>3

SectionNext(i, f) ==
    IF i = 1 THEN [start |-> 1, heading |-> pieces[1].heading]
    ELSE IF pieces[i].heading \notin {NoHeading, f[i - 1].heading}
         THEN [start |-> i, heading |-> pieces[i].heading]
         ELSE f[i - 1]

(* The section of each piece unfolds.                                      *)
LEMMA SectionsUnfold ==
    ASSUME NEW W, W = [i \in 1..Len(pieces) |-> SectionNext(i, W)]
    PROVE  SectionOf = [i \in 1..Len(pieces) |-> SectionNext(i, SectionOf)]
<1> DEFINE F == CHOOSE f : f = [i \in 1..Len(pieces) |-> SectionNext(i, f)]
<1>1. SectionOf = F
  BY DEF SectionOf, SectionNext
<1>2. F = [i \in 1..Len(pieces) |-> SectionNext(i, F)]
  BY Zenon
<1> QED
  BY <1>1, <1>2

(* Every piece has a section.                                              *)
LEMMA SectionsExist ==
    ASSUME ChunkTyped
    PROVE  \E W : W = [i \in 1..Len(pieces) |-> SectionNext(i, W)]
<1>1. PICK n : n = Len(pieces) /\ n \in Nat
  BY PiecesFit
<1>2. PICK T : T = [start : Nat, heading : Headings \cup {NoHeading}]
  OBVIOUS
<1>3. PICK one : one = [start |-> 1, heading |-> pieces[1].heading]
  OBVIOUS
<1>4. PICK base : base = [k \in 0..n |-> one]
  OBVIOUS
<1>5. PICK prev : prev = [k \in 0..n |-> k - 1]
  OBVIOUS
<1>6. PICK step : step = [k \in 0..n |-> [r \in T |->
          IF pieces[k].heading \notin {NoHeading, r.heading}
          THEN [start |-> k, heading |-> pieces[k].heading] ELSE r]]
  OBVIOUS
<1>7. CASE n = 0
  <2>1. PICK W : W = [i \in 1..n |-> one]
    OBVIOUS
  <2>2. 1..n = {}
    BY <1>7
  <2>3. W = [i \in 1..n |-> SectionNext(i, W)]
    BY <2>1, <2>2
  <2> QED
    BY <1>1, <2>3
<1>8. CASE n # 0
  <2>1. \A k \in 1..n : pieces[k].heading \in Headings \cup {NoHeading}
    BY <1>1, PiecesFit DEF PieceRecords
  <2>2. PICK B : B = {0, 1}
    OBVIOUS
  <2>3. one \in T
    BY <1>1, <1>2, <1>3, <1>8, <2>1
  <2>4. \A k \in 0..n : k \in B => base[k] \in T
    BY <1>4, <2>3
  <2>5. ASSUME NEW k \in 0..n, k \notin B PROVE prev[k] \in 0..(k - 1) /\ step[k] \in [T -> T]
    <3>1. k \in 1..n /\ k - 1 \in 0..(k - 1) /\ prev[k] = k - 1
      BY <1>1, <1>5, <2>2, <2>5
    <3>2. [start |-> k, heading |-> pieces[k].heading] \in T
      BY <1>2, <2>1, <3>1
    <3>3. step[k] = [r \in T |-> IF pieces[k].heading \notin {NoHeading, r.heading}
                                 THEN [start |-> k, heading |-> pieces[k].heading] ELSE r]
      BY <1>6
    <3>4. step[k] \in [T -> T]
      BY <3>2, <3>3
    <3> QED
      BY <3>1, <3>4
  <2>6. PICK g \in [0..n -> T] : Builds(g, n, B, base, prev, step)
    BY <1>1, <2>4, <2>5, RecursionExists
  <2>7. PICK W : W = [i \in 1..n |-> g[i]]
    OBVIOUS
  <2>8. ASSUME NEW k \in 1..n PROVE W[k] = SectionNext(k, W)
    <3>1. CASE k = 1
      <4>1. g[k] = base[k] /\ base[k] = one
        BY <1>1, <1>4, <2>2, <2>6, <3>1 DEF Builds
      <4> QED
        BY <1>3, <2>7, <3>1, <4>1 DEF SectionNext
    <3>2. CASE k # 1
      <4>1. k - 1 \in 1..n /\ k \in 0..n /\ k \notin B /\ prev[k] = k - 1
        BY <1>1, <1>5, <2>2, <3>2
      <4>2. g[k] = step[k][g[k - 1]]
        BY <2>6, <4>1 DEF Builds
      <4>3. g[k - 1] \in T /\ W[k - 1] = g[k - 1] /\ W[k] = g[k]
        BY <1>1, <2>6, <2>7, <4>1
      <4>4. g[k] = IF pieces[k].heading \notin {NoHeading, W[k - 1].heading}
                   THEN [start |-> k, heading |-> pieces[k].heading] ELSE W[k - 1]
        BY <1>6, <4>1, <4>2, <4>3
      <4> QED
        BY <3>2, <4>3, <4>4 DEF SectionNext
    <3> QED
      BY <3>1, <3>2
  <2>9. W = [i \in 1..n |-> W[i]]
    BY <2>7
  <2> QED
    BY <1>1, <2>8, <2>9
<1> QED
  BY <1>7, <1>8

\* The first piece of the section of piece i.
StartOf(i) == SectionOf[i].start

(* A section goes on or a new one starts.                                  *)
LEMMA StartsFollow ==
    ASSUME ChunkTyped, NEW i \in 1..Len(pieces)
    PROVE  StartOf(i) = i \/ (i - 1 \in 1..Len(pieces) /\ StartOf(i) = StartOf(i - 1))
<1>1. SectionOf = [k \in 1..Len(pieces) |-> SectionNext(k, SectionOf)]
  BY SectionsExist, SectionsUnfold
<1>2. SectionOf[i] = SectionNext(i, SectionOf)
  BY <1>1
<1>3. CASE i = 1
  BY <1>2, <1>3 DEF StartOf, SectionNext
<1>4. CASE i # 1 /\ pieces[i].heading \notin {NoHeading, SectionOf[i - 1].heading}
  BY <1>2, <1>4 DEF StartOf, SectionNext
<1>5. CASE i # 1 /\ pieces[i].heading \in {NoHeading, SectionOf[i - 1].heading}
  <2>1. SectionOf[i] = SectionOf[i - 1]
    BY <1>2, <1>5 DEF SectionNext
  <2>2. i - 1 \in 1..Len(pieces)
    BY <1>5, PiecesFit
  <2> QED
    BY <2>1, <2>2 DEF StartOf
<1> QED
  BY <1>3, <1>4, <1>5

(* A section starts with its first piece, and sections follow one another. *)
LEMMA StartsFit ==
    ASSUME ChunkTyped, NEW i \in 1..Len(pieces)
    PROVE  /\ StartOf(i) \in 1..i /\ StartOf(StartOf(i)) = StartOf(i)
           /\ \A k \in 1..i : StartOf(k) <= StartOf(i)
<1>1. PICK n : n = Len(pieces) /\ n \in Nat
  BY PiecesFit
<1>2. PICK S : S = {m \in 0..n : m > 0 => /\ StartOf(m) \in 1..m /\ StartOf(StartOf(m)) = StartOf(m)
                                         /\ \A k \in 1..m : StartOf(k) <= StartOf(m)}
  OBVIOUS
<1>3. ASSUME NEW m \in 0..n, \A j \in 0..(m - 1) : j \in S PROVE m \in S
  <2>1. CASE m = 0
    BY <1>1, <1>2, <2>1
  <2>2. CASE m # 0
    <3>1. m \in 1..n /\ m - 1 \in 0..(m - 1)
      BY <1>1, <2>2
    <3>2. \A k \in 1..m : k = m \/ k \in 1..(m - 1)
      BY <3>1
    <3>3. CASE StartOf(m) = m
      <4>1. \A k \in 1..(m - 1) : StartOf(k) \in 1..k
        BY <1>1, <1>2, <1>3, <3>1
      <4>2. \A k \in 1..m : StartOf(k) <= m
        BY <3>1, <3>2, <3>3, <4>1
      <4> QED
        BY <1>2, <3>1, <3>3, <4>2
    <3>4. CASE m - 1 \in 1..n /\ StartOf(m) = StartOf(m - 1)
      <4>1. m - 1 \in S /\ m - 1 > 0
        BY <1>3, <3>1, <3>4
      <4>2. /\ StartOf(m - 1) \in 1..(m - 1) /\ StartOf(StartOf(m - 1)) = StartOf(m - 1)
            /\ \A k \in 1..(m - 1) : StartOf(k) <= StartOf(m - 1)
        BY <1>2, <4>1
      <4>3. StartOf(m) \in 1..m
        BY <3>1, <3>4, <4>2
      <4>4. \A k \in 1..m : StartOf(k) <= StartOf(m)
        BY <3>2, <3>4, <4>2, <4>3
      <4> QED
        BY <1>2, <3>4, <4>2, <4>3, <4>4
    <3> QED
      BY <1>1, <3>1, <3>3, <3>4, StartsFollow
  <2> QED
    BY <2>1, <2>2
<1>4. \A m \in 0..n : m \in S
  BY <1>1, <1>3, NumbersReached
<1>5. i \in S /\ i > 0
  BY <1>1, <1>4
<1> QED
  BY <1>2, <1>5

(* A section is the pieces from its start to its end.                      *)
LEMMA SectionFits ==
    ASSUME ChunkTyped, NEW s \in SectionStarts
    PROVE  /\ s \in 1..Len(pieces) /\ StartOf(s) = s /\ SectionEnd(s) \in s..Len(pieces)
           /\ \A k \in 1..Len(pieces) : StartOf(k) = s <=> k \in s..SectionEnd(s)
<1>1. PICK n : n = Len(pieces) /\ n \in Nat
  BY PiecesFit
<1>2. PICK i \in 1..n : s = StartOf(i)
  BY <1>1, PiecesFit DEF SectionStarts, StartOf
<1>3. s \in 1..n /\ StartOf(s) = s
  BY <1>1, <1>2, StartsFit
<1>4. PICK A : A = {k \in 1..n : StartOf(k) = s}
  OBVIOUS
<1>5. s \in A /\ A \in SUBSET (0..n)
  BY <1>1, <1>3, <1>4
<1>6. PICK m \in A : \A k \in A : k <= m
  BY <1>1, <1>5, GreatestUpTo
<1>7. \E e \in DOMAIN pieces : SectionOf[e].start = s /\ \A k \in DOMAIN pieces : SectionOf[k].start = s => k <= e
  <2>1. m \in DOMAIN pieces /\ SectionOf[m].start = s
    BY <1>1, <1>4, PiecesFit DEF StartOf
  <2>2. \A k \in DOMAIN pieces : SectionOf[k].start = s => k <= m
    BY <1>1, <1>4, <1>6, PiecesFit DEF StartOf
  <2> QED
    BY <2>1, <2>2
<1>8. PICK e : e = SectionEnd(s)
  OBVIOUS
<1>9. e \in 1..n /\ StartOf(e) = s /\ \A k \in 1..n : StartOf(k) = s => k <= e
  BY <1>1, <1>7, <1>8, PiecesFit DEF SectionEnd, StartOf
<1>10. e \in s..n
  BY <1>1, <1>3, <1>9
<1>11. ASSUME NEW k \in 1..n PROVE StartOf(k) = s <=> k \in s..e
  <2>1. ASSUME StartOf(k) = s PROVE k \in s..e
    <3>1. s \in 1..k /\ k <= e
      BY <1>1, <1>9, <2>1, StartsFit
    <3> QED
      BY <1>1, <1>9, <3>1
  <2>2. ASSUME k \in s..e PROVE StartOf(k) = s
    <3>1. s \in 1..k /\ k \in 1..e
      BY <1>1, <1>3, <1>9, <2>2
    <3>2. StartOf(s) <= StartOf(k) /\ StartOf(k) <= StartOf(e)
      BY <1>1, <1>9, <3>1, StartsFit
    <3>3. StartOf(k) \in 1..k
      BY <1>1, StartsFit
    <3> QED
      BY <1>3, <1>9, <3>2, <3>3
  <2> QED
    BY <2>1, <2>2
<1> QED
  BY <1>1, <1>3, <1>8, <1>10, <1>11

-----------------------------------------------------------------------------
(* The length of joined pieces.                                            *)
JoinNext(first, i, f) == IF i = first THEN pieces[i].size ELSE f[i - 1] + Separator + pieces[i].size

(* The length of joined pieces unfolds.                                    *)
LEMMA JoinedUnfolds ==
    ASSUME NEW first, NEW last, NEW W, W = [i \in first..last |-> JoinNext(first, i, W)]
    PROVE  \E f : f = [i \in first..last |-> JoinNext(first, i, f)] /\ Joined(first, last) = f[last]
<1> DEFINE F == CHOOSE f : f = [i \in first..last |-> JoinNext(first, i, f)]
<1>1. Joined(first, last) = F[last]
  BY DEF Joined, JoinNext
<1>2. F = [i \in first..last |-> JoinNext(first, i, F)]
  BY Zenon
<1> QED
  BY <1>1, <1>2

\* The lengths of the first pieces together.
Adds(P) ==
    /\ P \in [0..Len(pieces) -> Nat] /\ P[0] = 0
    /\ \A k \in 1..Len(pieces) : P[k] = P[k - 1] + pieces[k].size

(* The lengths of the pieces add up.                                       *)
LEMMA SumsExist == ASSUME ChunkTyped PROVE \E P : Adds(P)
<1>1. PICK n : n = Len(pieces) /\ n \in Nat
  BY PiecesFit
<1>2. PICK base : base = [k \in 0..n |-> 0]
  OBVIOUS
<1>3. PICK prev : prev = [k \in 0..n |-> k - 1]
  OBVIOUS
<1>4. PICK step : step = [k \in 0..n |-> [v \in Nat |-> v + pieces[k].size]]
  OBVIOUS
<1>5. PICK B : B = {0}
  OBVIOUS
<1>6. \A k \in 0..n : k \in B => base[k] \in Nat
  BY <1>2
<1>7. ASSUME NEW k \in 0..n, k \notin B PROVE prev[k] \in 0..(k - 1) /\ step[k] \in [Nat -> Nat]
  <2>1. k \in 1..n /\ k - 1 \in 0..(k - 1) /\ prev[k] = k - 1
    BY <1>1, <1>3, <1>5, <1>7
  <2>2. PICK d : d = pieces[k].size /\ d \in Nat
    BY <1>1, <2>1, PiecesFit
  <2>3. step[k] = [v \in Nat |-> v + d]
    BY <1>4, <2>2
  <2>4. step[k] \in [Nat -> Nat]
    BY <2>2, <2>3
  <2> QED
    BY ONLY <2>1, <2>4
<1>8. PICK P \in [0..n -> Nat] : Builds(P, n, B, base, prev, step)
  BY <1>1, <1>6, <1>7, RecursionExists
<1>9. P[0] = 0
  BY <1>1, <1>2, <1>5, <1>8 DEF Builds
<1>10. ASSUME NEW k \in 1..n PROVE P[k] = P[k - 1] + pieces[k].size
  <2>1. k - 1 \in 0..n /\ k \in 0..n /\ k \notin B /\ prev[k] = k - 1
    BY <1>1, <1>3, <1>5
  <2>2. P[k] = step[k][P[k - 1]] /\ P[k - 1] \in Nat
    BY <1>8, <2>1 DEF Builds
  <2> QED
    BY <1>4, <2>1, <2>2
<1> QED
  BY <1>1, <1>8, <1>9, <1>10 DEF Adds

(* The sums grow.                                                          *)
LEMMA SumsGrow ==
    ASSUME ChunkTyped, NEW P, Adds(P), NEW j \in 0..Len(pieces), NEW k \in 0..j
    PROVE  P[k] \in Nat /\ P[j] \in Nat /\ P[k] <= P[j]
<1>1. PICK n : n = Len(pieces) /\ n \in Nat /\ \A m \in 1..n : pieces[m].size \in Nat
  BY PiecesFit
<1>2. PICK S : S = {m \in 0..n : k <= m => P[k] <= P[m]}
  OBVIOUS
<1>3. \A m \in 0..n : P[m] \in Nat
  BY <1>1 DEF Adds
<1>4. k \in 0..n /\ j \in 0..n
  BY <1>1
<1>5. ASSUME NEW m \in 0..n, \A b \in 0..(m - 1) : b \in S PROVE m \in S
  <2>1. CASE k = m
    BY <1>2, <1>3, <2>1
  <2>2. CASE k < m
    <3>1. m \in 1..n /\ m - 1 \in 0..(m - 1) /\ k <= m - 1 /\ m - 1 \in 0..n
      BY <1>1, <1>4, <2>2
    <3>2. P[k] <= P[m - 1]
      BY <1>2, <1>5, <3>1
    <3>3. P[m] = P[m - 1] + pieces[m].size
      BY <1>1, <3>1 DEF Adds
    <3>4. P[k] <= P[m]
      BY <1>1, <1>3, <1>4, <3>1, <3>2, <3>3
    <3> QED
      BY <1>2, <3>4
  <2>3. CASE m < k
    BY <1>2, <1>4, <2>3
  <2> QED
    BY <1>4, <2>1, <2>2, <2>3
<1>6. \A m \in 0..n : m \in S
  BY <1>1, <1>5, NumbersReached
<1> QED
  BY <1>2, <1>3, <1>4, <1>6

(* The length of joined pieces is a difference of sums, with the           *)
(* separators.                                                             *)
LEMMA JoinedBySums ==
    ASSUME ChunkTyped, NEW P, Adds(P), NEW last \in 1..Len(pieces), NEW first \in 1..last
    PROVE  Joined(first, last) = P[last] - P[first - 1] + 2 * (last - first)
<1>1. PICK n : n = Len(pieces) /\ n \in Nat /\ \A m \in 1..n : pieces[m].size \in Nat
  BY PiecesFit
<1>2. \A m \in 0..n : P[m] \in Nat
  BY <1>1 DEF Adds
<1>3. \A m \in 1..n : P[m] = P[m - 1] + pieces[m].size
  BY <1>1 DEF Adds
<1>4. PICK W : W = [i \in first..last |-> P[i] - P[first - 1] + 2 * (i - first)]
  OBVIOUS
<1>5. ASSUME NEW i \in first..last
      PROVE  /\ W[i] = P[i] - P[first - 1] + 2 * (i - first)
             /\ i = first => W[i] = pieces[i].size
             /\ i # first => i - 1 \in first..last /\ W[i] = W[i - 1] + 2 + pieces[i].size
  <2>1. i \in 1..n /\ i - 1 \in 0..n /\ first - 1 \in 0..n /\ first \in 1..n
    BY <1>1
  <2>2. W[i] = P[i] - P[first - 1] + 2 * (i - first)
    BY <1>4
  <2>3. PICK a, b, c, d : a = P[i] /\ b = P[i - 1] /\ c = P[first - 1] /\ d = pieces[i].size
    OBVIOUS
  <2>4. a \in Nat /\ b \in Nat /\ c \in Nat /\ d \in Nat /\ a = b + d
    BY <1>1, <1>2, <1>3, <2>1, <2>3
  <2>5. CASE i = first
    BY <2>2, <2>3, <2>4, <2>5
  <2>6. CASE i # first
    <3>1. i - 1 \in first..last
      BY <2>1, <2>6
    <3>2. PICK h : h = i - 1
      OBVIOUS
    <3>3. W[h] = b - c + 2 * (h - first)
      <4>1. W[h] = P[h] - P[first - 1] + 2 * (h - first)
        BY <1>4, <3>1, <3>2
      <4>2. P[h] = b
        BY <2>3, <3>2
      <4> QED
        BY ONLY <2>3, <4>1, <4>2
    <3>4. W[i] = a - c + 2 * (i - first)
      BY <2>2, <2>3
    <3>5. i \in Int /\ first \in Int /\ h \in Int
      BY <2>1, <3>2
    <3>6. W[i] = W[h] + 2 + d
      BY ONLY <2>4, <3>2, <3>3, <3>4, <3>5
    <3> QED
      BY <2>2, <2>3, <2>6, <3>1, <3>2, <3>6
  <2> QED
    BY <2>5, <2>6
<1>6. W = [i \in first..last |-> JoinNext(first, i, W)]
  <2>1. \A i \in first..last : W[i] = JoinNext(first, i, W)
    BY <1>5 DEF JoinNext, Separator
  <2>2. W = [i \in first..last |-> W[i]]
    BY <1>4
  <2> QED
    BY <2>1, <2>2
<1>7. PICK f : f = [i \in first..last |-> JoinNext(first, i, f)] /\ Joined(first, last) = f[last]
  BY <1>6, JoinedUnfolds
<1>8. PICK S : S = {m \in 0..last : m >= first => f[m] = W[m]}
  OBVIOUS
<1>9. ASSUME NEW m \in 0..last, \A b \in 0..(m - 1) : b \in S PROVE m \in S
  <2>1. CASE m < first
    BY <1>8, <2>1
  <2>2. CASE m >= first
    <3>1. m \in first..last /\ f[m] = JoinNext(first, m, f)
      BY <1>1, <1>7, <2>2
    <3>2. CASE m = first
      BY <1>5, <1>8, <3>1, <3>2 DEF JoinNext
    <3>3. CASE m # first
      <4>1. m - 1 \in S /\ m - 1 >= first
        BY <1>1, <1>9, <3>1, <3>3
      <4>2. f[m - 1] = W[m - 1]
        BY <1>8, <4>1
      <4> QED
        BY <1>5, <1>8, <3>1, <3>3, <4>2 DEF JoinNext, Separator
    <3> QED
      BY <3>2, <3>3
  <2> QED
    BY <1>1, <2>1, <2>2
<1>10. \A m \in 0..last : m \in S
  <2>1. last \in Nat
    BY <1>1
  <2> QED
    BY <1>9, <2>1, NumbersReached
<1>11. last \in 0..last /\ last >= first /\ last \in first..last
  BY <1>1
<1> QED
  BY <1>5, <1>7, <1>8, <1>10, <1>11

(* A piece more, and its separator, are so much longer; and a piece is not *)
(* longer than what it is joined into.                                     *)
LEMMA JoinedFits ==
    ASSUME ChunkTyped, NEW j \in 1..Len(pieces), NEW i \in 1..j
    PROVE  /\ Joined(i, j) \in Nat
           /\ \A k \in i..j : pieces[k].size <= Joined(i, j)
           /\ j + 1 \in 1..Len(pieces) => Joined(i, j + 1) = Joined(i, j) + 2 + pieces[j + 1].size
<1>1. PICK n : n = Len(pieces) /\ n \in Nat /\ \A m \in 1..n : pieces[m].size \in Nat
  BY PiecesFit
<1>2. PICK P : Adds(P)
  BY SumsExist
<1>3. j \in 1..n /\ i \in 1..n /\ i - 1 \in 0..n /\ i - 1 \in 0..j /\ i <= j
  BY <1>1
<1>4. PICK a, c, v : a = P[j] /\ c = P[i - 1] /\ v = Joined(i, j)
  OBVIOUS
<1>5. v = a - c + 2 * (j - i)
  BY <1>1, <1>2, <1>4, JoinedBySums
<1>6. a \in Nat /\ c \in Nat /\ c <= a
  BY <1>1, <1>2, <1>3, <1>4, SumsGrow
<1>7. v \in Nat /\ a - c <= v
  BY <1>3, <1>5, <1>6
<1>8. ASSUME NEW k \in i..j PROVE pieces[k].size <= v
  <2>1. k \in 1..n /\ k - 1 \in 0..n /\ k \in 0..j /\ i - 1 \in 0..(k - 1)
    BY <1>1, <1>3
  <2>2. P[k] = P[k - 1] + pieces[k].size
    BY <1>1, <1>2, <2>1 DEF Adds
  <2>3. P[k] \in Nat /\ P[k] <= a
    BY <1>1, <1>2, <1>3, <1>4, <2>1, SumsGrow
  <2>4. P[k - 1] \in Nat /\ c <= P[k - 1]
    BY <1>1, <1>2, <1>4, <2>1, SumsGrow
  <2>5. PICK x, y, d : x = P[k] /\ y = P[k - 1] /\ d = pieces[k].size
    OBVIOUS
  <2>6. d <= v
    BY <1>1, <1>6, <1>7, <2>1, <2>2, <2>3, <2>4, <2>5
  <2> QED
    BY <2>5, <2>6
<1>9. ASSUME j + 1 \in 1..n PROVE Joined(i, j + 1) = v + 2 + pieces[j + 1].size
  <2>1. PICK w, b, d : w = Joined(i, j + 1) /\ b = P[j + 1] /\ d = pieces[j + 1].size
    OBVIOUS
  <2>2. i \in 1..(j + 1)
    BY <1>3
  <2>3. w = b - c + 2 * ((j + 1) - i)
    BY <1>1, <1>2, <1>4, <1>9, <2>1, <2>2, JoinedBySums
  <2>4. P[j + 1] = P[(j + 1) - 1] + pieces[j + 1].size
    BY <1>1, <1>2, <1>9 DEF Adds
  <2>5. (j + 1) - 1 = j
    BY <1>3
  <2>6. b = a + d /\ d \in Nat
    BY <1>1, <1>4, <1>9, <2>1, <2>4, <2>5
  <2>7. w = v + 2 + d
    BY <1>3, <1>5, <1>6, <2>3, <2>6
  <2> QED
    BY <2>1, <2>7
<1> QED
  BY <1>1, <1>4, <1>7, <1>8, <1>9

(* What still fits into a chunk.                                           *)
LEMMA BufferFits ==
    ASSUME ChunkTyped, NEW end \in 1..Len(pieces), NEW i \in 1..end
    PROVE  /\ BufferEnd(i, end) \in i..end
           /\ BufferEnd(i, end) = i \/ Joined(i, BufferEnd(i, end)) <= ChunkMax
           /\ BufferEnd(i, end) < end => Joined(i, BufferEnd(i, end) + 1) > ChunkMax
<1>1. PICK n : n = Len(pieces) /\ n \in Nat
  BY PiecesFit
<1>2. i \in 1..n /\ end \in 1..n /\ i <= end /\ ChunkMax \in Nat
  BY <1>1 DEF ChunkMax
<1>3. PICK A : A = {j \in i..end : \A k \in i..j : k = i \/ Joined(i, k) <= ChunkMax}
  OBVIOUS
<1>4. i \in A /\ A \in SUBSET (0..n)
  <2>1. i..i = {i} /\ i \in i..end
    BY <1>2
  <2>2. i \in A
    BY <1>3, <2>1
  <2>3. \A j \in A : j \in 0..n
    BY <1>1, <1>2, <1>3
  <2> QED
    BY <2>2, <2>3
<1>5. PICK j \in A : \A k \in A : k <= j
  BY <1>1, <1>4, GreatestUpTo
<1>6. j \in i..end /\ \A k \in i..j : k = i \/ Joined(i, k) <= ChunkMax
  BY <1>3
<1>7. ASSUME j < end PROVE Joined(i, j + 1) > ChunkMax
  <2>1. j + 1 \in i..end /\ j + 1 \notin A /\ j + 1 # i
    BY <1>2, <1>5, <1>6, <1>7
  <2>2. PICK k \in i..(j + 1) : ~(k = i \/ Joined(i, k) <= ChunkMax)
    BY <1>3, <2>1
  <2>3. k = j + 1
    BY <1>2, <1>6, <2>2
  <2>4. Joined(i, j + 1) \in Nat
    <3>1. j + 1 \in 1..Len(pieces) /\ i \in 1..(j + 1)
      BY <1>1, <1>2, <2>1
    <3> QED
      BY <3>1, JoinedFits
  <2> QED
    BY <1>2, <2>2, <2>3, <2>4
<1>8. \E b \in i..end : /\ \A k \in i..b : k = i \/ Joined(i, k) <= ChunkMax
                        /\ b < end => Joined(i, b + 1) > ChunkMax
  BY <1>6, <1>7
<1>9. PICK b : b = BufferEnd(i, end)
  OBVIOUS
<1>10. /\ b \in i..end /\ (\A k \in i..b : k = i \/ Joined(i, k) <= ChunkMax)
       /\ b < end => Joined(i, b + 1) > ChunkMax
  BY <1>8, <1>9 DEF BufferEnd
<1>11. b \in i..b
  BY <1>2, <1>10
<1> QED
  BY <1>9, <1>10, <1>11

-----------------------------------------------------------------------------
(* The chunks of a document.                                               *)
ChunkSpans == [first : Nat, last : Nat]

\* A chunk of the pieces a..b: of one section, and not too long unless it is one piece.
ChunkFits(c, a, b) ==
    /\ c.first \in a..b /\ c.last \in c.first..b
    /\ c.first = c.last \/ Joined(c.first, c.last) <= ChunkMax
    /\ StartOf(c.first) = StartOf(c.last)

\* A short piece before one that does not fit after it.
LostFits(k) ==
    /\ pieces[k].size < ChunkMin
    /\ \E m \in DOMAIN pieces : /\ m > k /\ StartOf(m) = StartOf(k)
                                /\ pieces[m].size > ChunkMax - ChunkMin - Separator

CoveredBy(q, k) == \E c \in DOMAIN q : k \in q[c].first..q[c].last

\* The chunks q are cut from the pieces a..b, in their order.
CutFrom(q, a, b) ==
    /\ q \in Seq(ChunkSpans)
    /\ \A c \in DOMAIN q : ChunkFits(q[c], a, b)
    /\ \A c \in DOMAIN q : c < Len(q) => ComesAfter(q[c], q[c + 1])
    /\ \A k \in a..b : CoveredBy(q, k) \/ LostFits(k)

(* Cuts of two stretches that adjoin, or share a piece, are a cut of both, *)
(* if the last chunk of the one and the first of the other follow.         *)
LEMMA CutsJoin ==
    ASSUME NEW a \in Nat, NEW b \in Nat, NEW d \in Nat, NEW c \in Nat, a <= d, d <= b + 1, b <= c,
           NEW q, CutFrom(q, a, b), NEW r, CutFrom(r, d, c),
           q # <<>> /\ r # <<>> => ComesAfter(q[Len(q)], r[1])
    PROVE  CutFrom(q \o r, a, c)
<1>1. PICK w, m, n : w = q \o r /\ m = Len(q) /\ n = Len(r)
  OBVIOUS
<1>2. q \in Seq(ChunkSpans) /\ r \in Seq(ChunkSpans)
  BY DEF CutFrom
<1>3. /\ w \in Seq(ChunkSpans) /\ Len(w) = m + n /\ m \in Nat /\ n \in Nat
      /\ DOMAIN q = 1..m /\ DOMAIN r = 1..n /\ DOMAIN w = 1..(m + n)
  BY <1>1, <1>2
<1>4. (\A k \in 1..m : w[k] = q[k]) /\ (\A k \in (m + 1)..(m + n) : w[k] = r[k - m])
  BY <1>1, <1>2
<1>5. (\A k \in 1..m : ChunkFits(q[k], a, b)) /\ (\A k \in 1..n : ChunkFits(r[k], d, c))
  BY <1>3 DEF CutFrom
<1>6. ASSUME NEW k \in 1..(m + n)
      PROVE  \/ k \in 1..m /\ w[k] = q[k] /\ ChunkFits(w[k], a, b)
             \/ k \in (m + 1)..(m + n) /\ k - m \in 1..n /\ w[k] = r[k - m] /\ ChunkFits(w[k], d, c)
  <2>1. CASE k <= m
    <3>1. k \in 1..m
      BY <1>3, <2>1
    <3> QED
      BY <1>4, <1>5, <3>1
  <2>2. CASE ~(k <= m)
    <3>1. k \in (m + 1)..(m + n) /\ k - m \in 1..n
      BY <1>3, <2>2
    <3> QED
      BY <1>4, <1>5, <3>1
  <2> QED
    BY <2>1, <2>2
<1>7. \A k \in 1..(m + n) : ChunkFits(w[k], a, c)
  <2> SUFFICES ASSUME NEW k \in 1..(m + n) PROVE ChunkFits(w[k], a, c)
    OBVIOUS
  <2>1. CASE ChunkFits(w[k], a, b)
    BY <2>1 DEF ChunkFits
  <2>2. CASE ChunkFits(w[k], d, c)
    BY <2>2 DEF ChunkFits
  <2> QED
    BY <1>6, <2>1, <2>2
<1>8. ASSUME NEW k \in 1..(m + n), k < m + n PROVE ComesAfter(w[k], w[k + 1])
  <2>1. k + 1 \in 1..(m + n) /\ k \in Nat
    BY <1>3, <1>8
  <2>2. CASE k + 1 <= m
    <3>1. k \in 1..m /\ k + 1 \in 1..m /\ k < m
      BY <1>3, <2>1, <2>2
    <3>2. ComesAfter(q[k], q[k + 1])
      BY <1>1, <1>3, <3>1 DEF CutFrom
    <3> QED
      BY <1>4, <3>1, <3>2
  <2>3. CASE k = m
    <3>1. k \in 1..m /\ k + 1 \in (m + 1)..(m + n) /\ k + 1 \notin 1..m /\ k \notin (m + 1)..(m + n)
      BY <1>3, <2>1, <2>3
    <3>2. w[k] = q[m]
      BY <1>4, <2>3, <3>1
    <3>3. w[k + 1] = r[1]
      <4>1. w[k + 1] = r[(k + 1) - m] /\ (k + 1) - m = 1
        BY <1>3, <1>4, <2>3, <3>1
      <4> QED
        BY <4>1
    <3>4. q # <<>> /\ r # <<>>
      BY <1>1, <1>3, <3>1
    <3> QED
      BY <1>1, <3>2, <3>3, <3>4
  <2>4. CASE k > m
    <3>1. PICK h : h = k - m
      OBVIOUS
    <3>2. h \in 1..n /\ h < n /\ h + 1 \in 1..n /\ (k + 1) - m = h + 1 /\ k \in (m + 1)..(m + n) /\ k + 1 \in (m + 1)..(m + n)
      BY <1>3, <1>8, <2>1, <2>4, <3>1
    <3>3. ComesAfter(r[h], r[h + 1])
      BY <1>1, <1>3, <3>2 DEF CutFrom
    <3>4. w[k] = r[h]
      BY <1>4, <3>1, <3>2
    <3>5. w[k + 1] = r[h + 1]
      <4>1. w[k + 1] = r[(k + 1) - m]
        BY <1>4, <3>2
      <4> QED
        BY <3>2, <4>1
    <3> QED
      BY <3>3, <3>4, <3>5
  <2> QED
    BY <1>3, <2>1, <2>2, <2>3, <2>4
<1>9. ASSUME NEW k \in a..c PROVE CoveredBy(w, k) \/ LostFits(k)
  <2>1. CASE k \in a..b
    <3>1. CASE CoveredBy(q, k)
      <4>1. PICK e \in 1..m : k \in q[e].first..q[e].last
        BY <1>3, <3>1 DEF CoveredBy
      <4>2. e \in DOMAIN w /\ w[e] = q[e]
        BY <1>3, <1>4
      <4> QED
        BY <4>1, <4>2 DEF CoveredBy
    <3> QED
      BY <2>1, <3>1 DEF CutFrom
  <2>2. CASE k \in (b + 1)..c
    <3>1. CASE CoveredBy(r, k)
      <4>1. PICK e \in 1..n : k \in r[e].first..r[e].last
        BY <1>3, <3>1 DEF CoveredBy
      <4>2. PICK h : h = e + m
        OBVIOUS
      <4>3. h \in (m + 1)..(m + n) /\ h \in 1..(m + n) /\ h - m = e
        BY <1>3, <4>2
      <4>4. h \in DOMAIN w /\ w[h] = r[e]
        BY <1>3, <1>4, <4>3
      <4> QED
        BY <4>1, <4>4 DEF CoveredBy
    <3>2. k \in d..c
      BY <2>2
    <3> QED
      BY <3>1, <3>2 DEF CutFrom
  <2> QED
    BY <2>1, <2>2
<1>10. CutFrom(w, a, c)
  BY <1>3, <1>7, <1>8, <1>9 DEF CutFrom
<1> QED
  BY <1>1, <1>10

(* Cuts of adjoining stretches follow each other.                          *)
LEMMA CutsFollow ==
    ASSUME NEW a \in Nat, NEW b \in Nat, NEW d \in Nat, NEW c \in Nat, b < d,
           NEW q, CutFrom(q, a, b), NEW r, CutFrom(r, d, c), q # <<>>, r # <<>>
    PROVE  ComesAfter(q[Len(q)], r[1])
<1>1. q \in Seq(ChunkSpans) /\ r \in Seq(ChunkSpans)
  BY DEF CutFrom
<1>2. Len(q) \in DOMAIN q /\ 1 \in DOMAIN r
  BY <1>1
<1>3. ChunkFits(q[Len(q)], a, b) /\ ChunkFits(r[1], d, c)
  BY <1>2 DEF CutFrom
<1>4. PICK x, y : x = q[Len(q)] /\ y = r[1]
  OBVIOUS
<1>5. x.first \in Int /\ x.last \in Int /\ x.last <= b /\ y.first \in Int /\ d <= y.first
  BY <1>3, <1>4 DEF ChunkFits
<1>6. x.last < y.first
  BY <1>5
<1> QED
  BY <1>4, <1>6 DEF ComesAfter

(* A stretch that is short enough, or one piece, is a chunk.               *)
LEMMA OneChunk ==
    ASSUME NEW a \in Nat, NEW b \in Nat, a <= b, a = b \/ Joined(a, b) <= ChunkMax, StartOf(a) = StartOf(b)
    PROVE  CutFrom(<<[first |-> a, last |-> b]>>, a, b)
<1>1. PICK c : c = [first |-> a, last |-> b]
  OBVIOUS
<1>2. PICK q : q = <<c>>
  OBVIOUS
<1>3. c \in ChunkSpans /\ c.first = a /\ c.last = b
  BY <1>1 DEF ChunkSpans
<1>4. q \in Seq(ChunkSpans) /\ DOMAIN q = {1} /\ Len(q) = 1 /\ q[1] = c
  BY <1>2, <1>3
<1>5. ChunkFits(c, a, b)
  BY <1>3 DEF ChunkFits
<1>6. \A k \in a..b : CoveredBy(q, k)
  BY <1>3, <1>4 DEF CoveredBy
<1>7. CutFrom(q, a, b)
  BY <1>4, <1>5, <1>6 DEF CutFrom
<1> QED
  BY <1>1, <1>2, <1>7

(* A stretch that is lost has no chunk.                                    *)
LEMMA NoChunk ==
    ASSUME NEW a, NEW b, \A k \in a..b : LostFits(k)
    PROVE  CutFrom(<<>>, a, b)
<1>1. PICK q : q = <<>>
  OBVIOUS
<1>2. q \in Seq(ChunkSpans) /\ DOMAIN q = {}
  BY <1>1
<1>3. CutFrom(q, a, b)
  BY <1>2 DEF CutFrom
<1> QED
  BY <1>1, <1>3

\* What _fill_to_target makes of the pieces from i on, before it goes on.
ChunkAt(i, end) ==
    IF Taken(i, BufferEnd(i, end), end) THEN <<[first |-> i, last |-> BufferEnd(i, end)]>> ELSE <<>>

\* The pieces i..end are of one section.
OneSection(i, end) == \A k \in i..end : StartOf(k) = StartOf(end)

(* One round of the loop cuts a stretch and goes on after it.              *)
LEMMA FillsOn ==
    ASSUME ChunkTyped, NEW end \in 1..Len(pieces), NEW i \in 1..end, OneSection(i, end), NEW j, j = BufferEnd(i, end)
    PROVE  /\ j = end => CutFrom(ChunkAt(i, end), i, end)
           /\ j # end => /\ NextStart(i, j) \in (i + 1)..end /\ NextStart(i, j) \in {j, j + 1}
                         /\ CutFrom(ChunkAt(i, end), i, j) /\ j \in i..end
                         /\ NextStart(i, j) = j => i < j /\ OpensAgain(i, j)
<1>1. PICK n : n = Len(pieces) /\ n \in Nat /\ DOMAIN pieces = 1..n /\ \A k \in 1..n : pieces[k].size \in Nat
  BY PiecesFit
<1>2. i \in Nat /\ end \in Nat /\ i \in 1..n /\ end \in 1..n /\ i <= end
  BY <1>1
<1>3. j \in i..end /\ (j = i \/ Joined(i, j) <= ChunkMax) /\ (j < end => Joined(i, j + 1) > ChunkMax)
  BY BufferFits
<1>4. PICK v : v = Joined(i, j)
  OBVIOUS
<1>5. j \in 1..n /\ i \in 1..j /\ j \in Nat /\ i <= j
  BY <1>1, <1>2, <1>3
<1>6. v \in Nat /\ \A k \in i..j : pieces[k].size <= v
  BY <1>1, <1>4, <1>5, JoinedFits
<1>7. \A k \in i..j : StartOf(k) = StartOf(end)
  BY <1>2, <1>3 DEF OneSection
<1>8. StartOf(i) = StartOf(end) /\ StartOf(j) = StartOf(end)
  BY <1>5, <1>7
<1>9. CutFrom(<<[first |-> i, last |-> j]>>, i, j)
  BY <1>3, <1>5, <1>8, OneChunk
<1>10. CASE j = end
  <2>1. ChunkAt(i, end) = <<[first |-> i, last |-> j]>>
    BY <1>10 DEF ChunkAt, Taken
  <2> QED
    BY <1>9, <1>10, <2>1
<1>11. CASE j # end
  <2>1. j < end /\ j + 1 \in 1..n /\ j + 1 \in i..end
    BY <1>1, <1>2, <1>3, <1>11
  <2>2. ASSUME v < ChunkMin, NEW k \in i..j PROVE LostFits(k)
    <3>1. PICK d : d = pieces[j + 1].size
      OBVIOUS
    <3>2. d \in Nat /\ Joined(i, j + 1) = v + 2 + d
      BY <1>1, <1>4, <1>5, <2>1, <3>1, JoinedFits
    <3>3. d > ChunkMax - ChunkMin - Separator
      BY <1>3, <1>6, <2>1, <2>2, <3>2 DEF ChunkMax, ChunkMin, Separator
    <3>4. pieces[k].size < ChunkMin
      <4>1. pieces[k].size \in Nat /\ pieces[k].size <= v
        BY <1>1, <1>2, <1>3, <1>6
      <4> QED
        BY <1>6, <2>2, <4>1 DEF ChunkMin
    <3>5. StartOf(j + 1) = StartOf(k)
      <4>1. StartOf(j + 1) = StartOf(end)
        BY <2>1 DEF OneSection
      <4> QED
        BY <1>7, <4>1
    <3>6. j + 1 > k
      BY <1>5
    <3> QED
      BY <1>1, <2>1, <3>1, <3>3, <3>4, <3>5, <3>6 DEF LostFits
  <2>3. NextStart(i, j) \in {j, j + 1} /\ (NextStart(i, j) = j => i < j /\ OpensAgain(i, j))
    BY <1>5 DEF NextStart
  <2>4. NextStart(i, j) \in (i + 1)..end
    BY <1>2, <1>5, <2>1, <2>3
  <2>5. CutFrom(ChunkAt(i, end), i, j)
    <3>1. CASE v >= ChunkMin
      <4>1. ChunkAt(i, end) = <<[first |-> i, last |-> j]>>
        BY <1>4, <3>1 DEF ChunkAt, Taken
      <4> QED
        BY <1>9, <4>1
    <3>2. CASE ~(v >= ChunkMin)
      <4>1. ChunkAt(i, end) = <<>>
        BY <1>4, <1>11, <3>2 DEF ChunkAt, Taken
      <4>2. v < ChunkMin
        BY <1>6, <3>2 DEF ChunkMin
      <4>3. CutFrom(<<>>, i, j)
        BY <2>2, <4>2, NoChunk
      <4> QED
        BY <4>1, <4>3
    <3> QED
      BY <3>1, <3>2
  <2> QED
    BY <1>3, <1>11, <2>3, <2>4, <2>5
<1> QED
  BY <1>10, <1>11

FillNext(i, end, f) ==
    IF i = end + 1 THEN <<>>
    ELSE IF BufferEnd(i, end) = end THEN ChunkAt(i, end)
    ELSE ChunkAt(i, end) \o f[NextStart(i, BufferEnd(i, end))]

(* The loop over a section unfolds.                                        *)
LEMMA FillUnfolds ==
    ASSUME NEW start, NEW end, NEW W, W = [i \in start..(end + 1) |-> FillNext(i, end, W)]
    PROVE  \E f : f = [i \in start..(end + 1) |-> FillNext(i, end, f)] /\ FillToTarget(start, end) = f[start]
<1> DEFINE F == CHOOSE f : f = [i \in start..(end + 1) |-> FillNext(i, end, f)]
<1>1. FillToTarget(start, end) = F[start]
  BY DEF FillToTarget, FillNext, ChunkAt
<1>2. F = [i \in start..(end + 1) |-> FillNext(i, end, F)]
  BY Zenon
<1> QED
  BY <1>1, <1>2

(* The loop comes to its end from everywhere.                              *)
LEMMA FillExists ==
    ASSUME ChunkTyped, NEW end \in 1..Len(pieces), NEW start \in 1..end, OneSection(start, end)
    PROVE  \E W : W = [i \in start..(end + 1) |-> FillNext(i, end, W)]
<1>1. PICK top, n, T : top = end + 1 /\ n = end + 1 - start /\ T = Seq(ChunkSpans)
  OBVIOUS
<1>2. n \in Nat /\ top \in Nat /\ start \in Nat /\ end \in Nat /\ start <= end /\ n = top - start /\ end < top
  BY <1>1, PiecesFit
<1>3. \A m \in 1..n : top - m \in start..end /\ top - m \in 1..end
  BY <1>1, <1>2
<1>4. ASSUME NEW i \in start..end
      PROVE  /\ ChunkAt(i, end) \in T
             /\ BufferEnd(i, end) # end => NextStart(i, BufferEnd(i, end)) \in (i + 1)..end
  <2>1. i \in 1..end /\ OneSection(i, end)
    BY <1>2 DEF OneSection
  <2> QED
    BY <1>1, <2>1, FillsOn DEF CutFrom
<1>5. PICK B : B = {m \in 0..n : m = 0 \/ BufferEnd(top - m, end) = end}
  OBVIOUS
<1>6. PICK base : base = [m \in 0..n |-> IF m = 0 THEN <<>> ELSE ChunkAt(top - m, end)]
  OBVIOUS
<1>7. PICK prev : prev = [m \in 0..n |-> top - NextStart(top - m, BufferEnd(top - m, end))]
  OBVIOUS
<1>8. PICK step : step = [m \in 0..n |-> [q \in T |-> ChunkAt(top - m, end) \o q]]
  OBVIOUS
<1>9. ASSUME NEW m \in 0..n, m \in B PROVE base[m] \in T
  <2>1. CASE m = 0
    BY <1>1, <1>6, <2>1
  <2>2. CASE m # 0
    <3>1. m \in 1..n
      BY <1>2, <2>2
    <3>2. ChunkAt(top - m, end) \in T
      BY <1>3, <1>4, <3>1
    <3> QED
      BY <1>6, <2>2, <3>2
  <2> QED
    BY <2>1, <2>2
<1>10. ASSUME NEW m \in 0..n, m \notin B PROVE prev[m] \in 0..(m - 1) /\ step[m] \in [T -> T]
  <2>1. m # 0 /\ BufferEnd(top - m, end) # end
    BY <1>5, <1>10
  <2>2. PICK i : i = top - m
    OBVIOUS
  <2>3. m \in 1..n /\ i \in start..end /\ m \in Nat
    BY <1>2, <1>3, <2>1, <2>2
  <2>4. PICK k : k = NextStart(i, BufferEnd(i, end))
    OBVIOUS
  <2>5. k \in (i + 1)..end /\ ChunkAt(i, end) \in T
    BY <1>4, <2>1, <2>2, <2>3, <2>4
  <2>6. prev[m] = top - k
    BY <1>7, <2>2, <2>4
  <2>7. top - k \in 0..(m - 1)
    BY <1>2, <2>2, <2>3, <2>5
  <2>8. step[m] = [q \in T |-> ChunkAt(i, end) \o q]
    BY <1>8, <2>2
  <2>9. \A q \in T : ChunkAt(i, end) \o q \in T
    BY <1>1, <2>5
  <2>10. step[m] \in [T -> T]
    BY <2>8, <2>9
  <2> QED
    BY ONLY <2>6, <2>7, <2>10
<1>11. PICK g \in [0..n -> T] : Builds(g, n, B, base, prev, step)
  BY <1>2, <1>9, <1>10, RecursionExists
<1>12. PICK W : W = [i \in start..top |-> g[top - i]]
  OBVIOUS
<1>13. ASSUME NEW i \in start..top PROVE W[i] = FillNext(i, end, W)
  <2>1. PICK m : m = top - i
    OBVIOUS
  <2>2. m \in 0..n /\ top - m = i /\ m \in Nat /\ i \in Nat
    BY <1>2, <2>1
  <2>3. W[i] = g[m]
    BY <1>12, <2>1
  <2>4. CASE i = top
    <3>1. m = 0
      BY <1>2, <2>1, <2>4
    <3>2. g[m] = base[m] /\ base[m] = <<>>
      BY <1>5, <1>6, <1>11, <2>2, <3>1 DEF Builds
    <3> QED
      BY <1>1, <2>3, <2>4, <3>2 DEF FillNext
  <2>5. CASE i # top /\ BufferEnd(i, end) = end
    <3>1. m # 0
      BY <1>2, <2>1, <2>2, <2>5
    <3>2. g[m] = base[m] /\ base[m] = ChunkAt(i, end)
      BY <1>5, <1>6, <1>11, <2>2, <2>5, <3>1 DEF Builds
    <3> QED
      BY <1>1, <2>3, <2>5, <3>2 DEF FillNext
  <2>6. CASE i # top /\ BufferEnd(i, end) # end
    <3>1. m # 0 /\ i \in start..end
      BY <1>2, <2>1, <2>2, <2>6
    <3>2. m \notin B
      BY <1>5, <2>2, <2>6, <3>1
    <3>3. PICK k : k = NextStart(i, BufferEnd(i, end))
      OBVIOUS
    <3>4. k \in (i + 1)..end
      BY <1>4, <2>6, <3>1, <3>3
    <3>5. k \in start..top /\ top - k \in 0..n /\ W[k] = g[top - k]
      BY <1>2, <1>12, <2>2, <3>1, <3>4
    <3>6. prev[m] = top - k /\ step[m] = [q \in T |-> ChunkAt(i, end) \o q]
      BY <1>7, <1>8, <2>2, <3>3
    <3>7. g[m] = step[m][g[prev[m]]]
      BY <1>11, <2>2, <3>2 DEF Builds
    <3>8. W[k] \in T /\ g[m] = step[m][W[k]]
      BY <1>11, <3>5, <3>6, <3>7
    <3>9. g[m] = ChunkAt(i, end) \o W[k]
      BY <3>6, <3>8
    <3> QED
      BY <1>1, <2>3, <2>6, <3>3, <3>9 DEF FillNext
  <2> QED
    BY <2>4, <2>5, <2>6
<1>14. W = [i \in start..top |-> W[i]]
  BY <1>12
<1> QED
  BY <1>1, <1>13, <1>14

(* A section that is filled is cut from its first piece to its last.       *)
LEMMA FillCuts ==
    ASSUME ChunkTyped, NEW end \in 1..Len(pieces), NEW start \in 1..end, OneSection(start, end)
    PROVE  CutFrom(FillToTarget(start, end), start, end)
<1>1. PICK f : f = [i \in start..(end + 1) |-> FillNext(i, end, f)] /\ FillToTarget(start, end) = f[start]
  BY FillExists, FillUnfolds
<1>2. PICK top, n : top = end + 1 /\ n = end - start
  OBVIOUS
<1>3. n \in Nat /\ top \in Nat /\ start \in Nat /\ end \in Nat /\ start <= end /\ top = end + 1
  BY <1>2, PiecesFit
<1>4. PICK S : S = {m \in 0..n : CutFrom(f[end - m], end - m, end)}
  OBVIOUS
<1>5. ASSUME NEW m \in 0..n, \A b \in 0..(m - 1) : b \in S PROVE m \in S
  <2>1. PICK i : i = end - m
    OBVIOUS
  <2>2. i \in start..end /\ i \in 1..end /\ i \in start..(end + 1) /\ i # end + 1 /\ i \in Nat /\ i <= end
    BY <1>2, <1>3, <2>1
  <2>3. OneSection(i, end)
    BY <1>3, <2>2 DEF OneSection
  <2>4. f[i] = FillNext(i, end, f)
    BY <1>1, <2>2
  <2>5. PICK j : j = BufferEnd(i, end)
    OBVIOUS
  <2>6. /\ j = end => CutFrom(ChunkAt(i, end), i, end)
        /\ j # end => /\ NextStart(i, j) \in (i + 1)..end /\ NextStart(i, j) \in {j, j + 1}
                      /\ CutFrom(ChunkAt(i, end), i, j) /\ j \in i..end
                      /\ NextStart(i, j) = j => i < j /\ OpensAgain(i, j)
    BY <2>2, <2>3, <2>5, FillsOn
  <2>7. CASE j = end
    <3>1. f[i] = ChunkAt(i, end)
      BY <2>2, <2>4, <2>5, <2>7 DEF FillNext
    <3> QED
      BY <1>4, <2>1, <2>6, <2>7, <3>1
  <2>8. CASE j # end
    <3>1. PICK k : k = NextStart(i, j)
      OBVIOUS
    <3>2. /\ k \in (i + 1)..end /\ k \in {j, j + 1} /\ CutFrom(ChunkAt(i, end), i, j) /\ j \in i..end
          /\ k = j => i < j /\ OpensAgain(i, j)
      BY <2>6, <2>8, <3>1
    <3>3. f[i] = ChunkAt(i, end) \o f[k]
      BY <2>2, <2>4, <2>5, <2>8, <3>1 DEF FillNext
    <3>4. PICK h : h = end - k
      OBVIOUS
    <3>5. h \in 0..(m - 1) /\ end - h = k
      BY <1>3, <2>1, <2>2, <3>2, <3>4
    <3>6. CutFrom(f[k], k, end)
      BY <1>4, <1>5, <3>5
    <3>7. j \in Nat /\ k \in Nat /\ i <= k /\ k <= j + 1 /\ j <= end
      BY <1>3, <2>2, <3>2
    <3>8. ASSUME ChunkAt(i, end) # <<>>, f[k] # <<>>
          PROVE  ComesAfter(ChunkAt(i, end)[Len(ChunkAt(i, end))], f[k][1])
      <4>1. CASE j < k
        BY <1>3, <2>2, <3>2, <3>6, <3>7, <3>8, <4>1, CutsFollow
      <4>2. CASE k = j
        <5>1. PICK x : x = [first |-> i, last |-> j]
          OBVIOUS
        <5>2. ChunkAt(i, end) = <<x>>
          BY <2>5, <3>8, <5>1 DEF ChunkAt
        <5>3. ChunkAt(i, end)[Len(ChunkAt(i, end))] = x
          BY <5>2
        <5>4. f[k] \in Seq(ChunkSpans)
          BY <3>6 DEF CutFrom
        <5>5. 1 \in DOMAIN f[k]
          BY <3>8, <5>4
        <5>6. PICK y : y = f[k][1]
          OBVIOUS
        <5>7. ChunkFits(y, k, end)
          BY <3>6, <5>5, <5>6 DEF CutFrom
        <5>8. y.first \in Int /\ j <= y.first /\ x.first = i /\ x.last = j
          BY <3>7, <4>2, <5>1, <5>7 DEF ChunkFits
        <5>9. x.last < y.first \/ x.last = y.first
          BY <3>7, <5>8
        <5>10. ComesAfter(x, y)
          BY <3>2, <4>2, <5>8, <5>9 DEF ComesAfter
        <5> QED
          BY <5>3, <5>6, <5>10
      <4> QED
        BY <3>2, <3>7, <4>1, <4>2
    <3>9. CutFrom(ChunkAt(i, end) \o f[k], i, end)
      BY <1>3, <2>2, <3>2, <3>6, <3>7, <3>8, CutsJoin
    <3> QED
      BY <1>4, <2>1, <3>3, <3>9
  <2> QED
    BY <2>7, <2>8
<1>6. \A m \in 0..n : m \in S
  BY <1>3, <1>5, NumbersReached
<1>7. n \in S /\ end - n = start
  BY <1>2, <1>3, <1>6
<1> QED
  BY <1>1, <1>4, <1>7

(* A section is cut (chunker.py:84-194).                                   *)
LEMMA SectionCut ==
    ASSUME ChunkTyped, NEW s \in SectionStarts
    PROVE  CutFrom(MergeSection(s), s, SectionEnd(s))
<1>1. PICK e : e = SectionEnd(s)
  OBVIOUS
<1>2. s \in 1..Len(pieces) /\ e \in s..Len(pieces) /\ \A k \in 1..Len(pieces) : StartOf(k) = s <=> k \in s..e
  BY <1>1, SectionFits
<1>3. s \in Nat /\ e \in Nat /\ s <= e /\ e \in 1..Len(pieces) /\ s \in 1..e
  BY <1>2, PiecesFit
<1>4. \A k \in s..e : StartOf(k) = s
  BY <1>2, <1>3
<1>5. OneSection(s, e)
  BY <1>3, <1>4 DEF OneSection
<1>6. CASE Joined(s, e) <= ChunkMax
  <2>1. StartOf(s) = StartOf(e)
    BY <1>3, <1>4
  <2>2. CutFrom(<<[first |-> s, last |-> e]>>, s, e)
    BY <1>3, <1>6, <2>1, OneChunk
  <2> QED
    BY <1>1, <1>6, <2>2 DEF MergeSection
<1>7. CASE ~(Joined(s, e) <= ChunkMax)
  <2>1. CutFrom(FillToTarget(s, e), s, e)
    BY <1>3, <1>5, FillCuts
  <2> QED
    BY <1>1, <1>7, <2>1 DEF MergeSection
<1> QED
  BY <1>6, <1>7

SplitNext(i, f) ==
    IF i = 0 THEN <<>>
    ELSE IF i \in SectionStarts THEN f[i - 1] \o MergeSection(i) ELSE f[i - 1]

(* The loop over the sections unfolds.                                     *)
LEMMA SplitUnfolds ==
    ASSUME NEW W, W = [i \in 0..Len(pieces) |-> SplitNext(i, W)]
    PROVE  \E f : f = [i \in 0..Len(pieces) |-> SplitNext(i, f)] /\ SplitDocument = f[Len(pieces)]
<1> DEFINE F == CHOOSE f : f = [i \in 0..Len(pieces) |-> SplitNext(i, f)]
<1>1. SplitDocument = F[Len(pieces)]
  BY DEF SplitDocument, SplitNext
<1>2. F = [i \in 0..Len(pieces) |-> SplitNext(i, F)]
  BY Zenon
<1> QED
  BY <1>1, <1>2

(* It comes to its end, too.                                               *)
LEMMA SplitExists ==
    ASSUME ChunkTyped
    PROVE  \E W : W = [i \in 0..Len(pieces) |-> SplitNext(i, W)]
<1>1. PICK n : n = Len(pieces) /\ n \in Nat
  BY PiecesFit
<1>2. PICK T : T = Seq(ChunkSpans)
  OBVIOUS
<1>3. PICK base : base = [k \in 0..n |-> <<>>]
  OBVIOUS
<1>4. PICK prev : prev = [k \in 0..n |-> k - 1]
  OBVIOUS
<1>5. PICK step : step = [k \in 0..n |-> [q \in T |-> IF k \in SectionStarts THEN q \o MergeSection(k) ELSE q]]
  OBVIOUS
<1>6. PICK B : B = {0}
  OBVIOUS
<1>7. \A k \in 0..n : k \in B => base[k] \in T
  BY <1>2, <1>3
<1>8. ASSUME NEW k \in 0..n, k \notin B PROVE prev[k] \in 0..(k - 1) /\ step[k] \in [T -> T]
  <2>1. k - 1 \in 0..(k - 1) /\ prev[k] = k - 1
    BY <1>1, <1>4, <1>6, <1>8
  <2>2. k \in SectionStarts => MergeSection(k) \in T
    BY <1>2, SectionCut DEF CutFrom
  <2>3. step[k] = [q \in T |-> IF k \in SectionStarts THEN q \o MergeSection(k) ELSE q]
    BY <1>5
  <2>4. \A q \in T : k \in SectionStarts => q \o MergeSection(k) \in T
    BY <1>2, <2>2
  <2>5. step[k] \in [T -> T]
    BY <2>3, <2>4
  <2> QED
    BY ONLY <2>1, <2>5
<1>9. PICK W \in [0..n -> T] : Builds(W, n, B, base, prev, step)
  BY <1>1, <1>7, <1>8, RecursionExists
<1>10. ASSUME NEW k \in 0..n PROVE W[k] = SplitNext(k, W)
  <2>1. CASE k = 0
    BY <1>3, <1>6, <1>9, <2>1 DEF Builds, SplitNext
  <2>2. CASE k # 0
    <3>1. k - 1 \in 0..n /\ k \notin B /\ prev[k] = k - 1
      BY <1>1, <1>4, <1>6, <2>2
    <3>2. W[k] = step[k][W[k - 1]] /\ W[k - 1] \in T
      BY <1>9, <3>1 DEF Builds
    <3> QED
      BY <1>5, <2>2, <3>2 DEF SplitNext
  <2> QED
    BY <2>1, <2>2
<1>11. W = [k \in 0..n |-> W[k]]
  BY <1>9
<1> QED
  BY <1>1, <1>10, <1>11

\* Where the section of piece i ends; nothing is cut before the first piece.
LastOfSection(i) == IF i = 0 THEN 0 ELSE SectionEnd(StartOf(i))

(* Sections follow one another without a gap.                              *)
LEMMA SectionsCover ==
    ASSUME ChunkTyped, NEW i \in 1..Len(pieces)
    PROVE  /\ i \in SectionStarts => /\ LastOfSection(i - 1) = i - 1
                                     /\ LastOfSection(i) = SectionEnd(i)
           /\ i \notin SectionStarts => i - 1 \in 1..Len(pieces) /\ LastOfSection(i) = LastOfSection(i - 1)
           /\ LastOfSection(i) \in i..Len(pieces)
<1>1. PICK n : n = Len(pieces) /\ n \in Nat /\ DOMAIN pieces = 1..n
  BY PiecesFit
<1>2. i # 0 /\ i \in 1..n /\ i \in Nat
  BY <1>1
<1>3. \A k \in 1..n : StartOf(k) \in SectionStarts
  BY <1>1 DEF SectionStarts, StartOf
<1>4. LastOfSection(i) = SectionEnd(StartOf(i))
  BY <1>2 DEF LastOfSection
<1>5. LastOfSection(i) \in i..n
  <2>1. PICK s : s = StartOf(i) /\ s \in SectionStarts
    BY <1>2, <1>3
  <2>2. SectionEnd(s) \in s..n /\ i \in s..SectionEnd(s)
    BY <1>1, <1>2, <2>1, SectionFits
  <2> QED
    BY <1>1, <1>2, <1>4, <2>1, <2>2
<1>6. ASSUME i \in SectionStarts PROVE LastOfSection(i - 1) = i - 1 /\ LastOfSection(i) = SectionEnd(i)
  <2>1. StartOf(i) = i
    BY <1>6, SectionFits
  <2>2. CASE i = 1
    BY <1>4, <2>1, <2>2 DEF LastOfSection
  <2>3. CASE i # 1
    <3>1. i - 1 \in 1..n /\ i - 1 # 0
      BY <1>1, <1>2, <2>3
    <3>2. PICK s : s = StartOf(i - 1) /\ s \in SectionStarts
      BY <1>3, <3>1
    <3>3. s \in 1..(i - 1)
      BY <1>1, <3>1, <3>2, StartsFit
    <3>4. i - 1 \in s..SectionEnd(s) /\ i \notin s..SectionEnd(s) /\ SectionEnd(s) \in s..n
      <4>1. s # i
        BY <1>2, <3>3
      <4> QED
        BY <1>1, <1>2, <2>1, <3>1, <3>2, <4>1, SectionFits
    <3>5. SectionEnd(s) = i - 1
      BY <1>1, <1>2, <3>3, <3>4
    <3> QED
      BY <1>4, <2>1, <3>1, <3>2, <3>5 DEF LastOfSection
  <2> QED
    BY <2>2, <2>3
<1>7. ASSUME i \notin SectionStarts PROVE i - 1 \in 1..n /\ LastOfSection(i) = LastOfSection(i - 1)
  <2>1. StartOf(i) # i
    BY <1>2, <1>3, <1>7
  <2>2. i - 1 \in 1..n /\ StartOf(i) = StartOf(i - 1)
    BY <1>1, <2>1, StartsFollow
  <2>3. i - 1 # 0
    BY <1>1, <2>2
  <2> QED
    BY <1>4, <2>2, <2>3 DEF LastOfSection
<1> QED
  BY <1>1, <1>5, <1>6, <1>7

(* A document is cut (chunker.py:23-81).                                   *)
LEMMA DocumentCut == ASSUME ChunkTyped PROVE CutFrom(SplitDocument, 1, Len(pieces))
<1>1. PICK f : f = [i \in 0..Len(pieces) |-> SplitNext(i, f)] /\ SplitDocument = f[Len(pieces)]
  BY SplitExists, SplitUnfolds
<1>2. PICK n : n = Len(pieces) /\ n \in Nat
  BY PiecesFit
<1>3. PICK S : S = {k \in 0..n : CutFrom(f[k], 1, LastOfSection(k))}
  OBVIOUS
<1>4. ASSUME NEW i \in 0..n, \A b \in 0..(i - 1) : b \in S PROVE i \in S
  <2>1. f[i] = SplitNext(i, f)
    BY <1>1, <1>2
  <2>2. CASE i = 0
    <3>1. f[i] = <<>> /\ LastOfSection(i) = 0
      BY <2>1, <2>2 DEF SplitNext, LastOfSection
    <3>2. CutFrom(<<>>, 1, 0)
      BY NoChunk
    <3> QED
      BY <1>3, <3>1, <3>2
  <2>3. CASE i # 0
    <3>1. i \in 1..n /\ i - 1 \in 0..(i - 1) /\ i \in Nat
      BY <1>2, <2>3
    <3>2. CutFrom(f[i - 1], 1, LastOfSection(i - 1))
      BY <1>3, <1>4, <3>1
    <3>3. CASE i \in SectionStarts
      <4>1. PICK b, e : b = i - 1 /\ e = SectionEnd(i)
        OBVIOUS
      <4>2. LastOfSection(i - 1) = b /\ LastOfSection(i) = e /\ e \in i..n
        BY <1>2, <3>1, <3>3, <4>1, SectionsCover
      <4>3. CutFrom(f[b], 1, b)
        BY <3>2, <4>1, <4>2
      <4>4. b + 1 = i /\ b \in Nat /\ e \in Nat /\ 1 <= b + 1 /\ b <= e
        BY <1>2, <3>1, <4>1, <4>2
      <4>5. CutFrom(MergeSection(i), b + 1, e)
        BY <3>3, <4>1, <4>4, SectionCut
      <4>6. CutFrom(f[b] \o MergeSection(i), 1, e)
        <5>1. PICK d : d = b + 1 /\ d \in Nat /\ b < d /\ 1 <= d
          BY <4>4
        <5>2. CutFrom(MergeSection(i), d, e)
          BY <4>5, <5>1
        <5>3. f[b] # <<>> /\ MergeSection(i) # <<>> => ComesAfter(f[b][Len(f[b])], MergeSection(i)[1])
          BY <4>3, <4>4, <5>1, <5>2, CutsFollow
        <5> QED
          BY <4>3, <4>4, <5>1, <5>2, <5>3, CutsJoin
      <4>7. f[i] = f[b] \o MergeSection(i)
        BY <2>1, <2>3, <3>3, <4>1 DEF SplitNext
      <4> QED
        BY <1>3, <4>2, <4>6, <4>7
    <3>4. CASE i \notin SectionStarts
      <4>1. f[i] = f[i - 1]
        BY <2>1, <2>3, <3>4 DEF SplitNext
      <4>2. LastOfSection(i) = LastOfSection(i - 1)
        BY <1>2, <3>1, <3>4, SectionsCover
      <4> QED
        BY <1>3, <3>2, <4>1, <4>2
    <3> QED
      BY <3>3, <3>4
  <2> QED
    BY <2>2, <2>3
<1>5. \A k \in 0..n : k \in S
  BY <1>2, <1>4, NumbersReached
<1>6. CutFrom(f[n], 1, LastOfSection(n))
  BY <1>2, <1>3, <1>5
<1>7. LastOfSection(n) = n
  <2>1. CASE n = 0
    BY <2>1 DEF LastOfSection
  <2>2. CASE n # 0
    <3>1. n \in 1..n
      BY <1>2, <2>2
    <3>2. LastOfSection(n) \in n..n
      BY <1>2, <3>1, SectionsCover
    <3> QED
      BY <1>2, <3>2
  <2> QED
    BY <2>1, <2>2
<1> QED
  BY <1>1, <1>2, <1>6, <1>7

(* So chunks have their sizes, lose only what is short, and are in order.   *)
LEMMA ChunksAlways == ASSUME ChunkTyped PROVE ChunkSizes /\ LostOnlyWhenShort /\ ChunksInOrder
<1>1. PICK q, n : q = SplitDocument /\ n = Len(pieces)
  OBVIOUS
<1>2. CutFrom(q, 1, n) /\ DOMAIN pieces = 1..n
  BY <1>1, DocumentCut, PiecesFit
<1>3. ChunkSizes
  BY <1>1, <1>2 DEF ChunkSizes, CutFrom, ChunkFits, StartOf
<1>4. LostOnlyWhenShort
  <2> SUFFICES ASSUME NEW i \in 1..n, i \notin UNION {q[c].first..q[c].last : c \in DOMAIN q}
               PROVE  LostFits(i)
    BY <1>1, <1>2 DEF LostOnlyWhenShort, LostFits, StartOf
  <2>1. ~CoveredBy(q, i)
    BY DEF CoveredBy
  <2> QED
    BY <1>2, <2>1 DEF CutFrom
<1>5. ChunksInOrder
  <2>1. q \in Seq(ChunkSpans) /\ \A c \in DOMAIN q : ChunkFits(q[c], 1, n)
    BY <1>2 DEF CutFrom
  <2>2. PICK m : m = Len(q) /\ m \in Nat /\ DOMAIN q = 1..m
    BY <2>1
  <2>3. \A c \in 1..m : c < m => ComesAfter(q[c], q[c + 1])
    BY <1>2, <2>2 DEF CutFrom
  <2>4. ASSUME NEW c \in 1..m, c + 1 < m PROVE q[c].last < q[c + 2].first
    <3>1. PICK x, y, z : x = q[c] /\ y = q[c + 1] /\ z = q[c + 2]
      OBVIOUS
    <3>2. c + 1 \in 1..m /\ c + 2 \in 1..m /\ c < m /\ (c + 1) + 1 = c + 2
      BY <2>2, <2>4
    <3>3. ComesAfter(x, y) /\ ComesAfter(y, z)
      <4>1. ComesAfter(q[c], q[c + 1]) /\ ComesAfter(q[c + 1], q[(c + 1) + 1])
        BY <2>3, <2>4, <3>2
      <4> QED
        BY <3>1, <3>2, <4>1
    <3>4. ChunkFits(x, 1, n) /\ ChunkFits(y, 1, n) /\ ChunkFits(z, 1, n)
      BY <2>1, <2>2, <3>1, <3>2
    <3>5. /\ x.last \in Int /\ y.first \in Int /\ y.last \in Int /\ y.first <= y.last /\ z.first \in Int
      BY <3>4 DEF ChunkFits
    <3>6. x.last <= y.first /\ (y.last < z.first \/ (y.last = z.first /\ y.first < y.last))
      BY <3>3, <3>5 DEF ComesAfter
    <3>7. x.last < z.first
      BY <3>5, <3>6
    <3> QED
      BY <3>1, <3>7
  <2> QED
    BY <1>1, <2>2, <2>3, <2>4 DEF ChunksInOrder
<1> QED
  BY <1>3, <1>4, <1>5

(* Sections nest and leave no line out, a paragraph is cited with its own  *)
(* line where single blank lines divide the text, its heading path goes    *)
(* down to the nearest heading above, and the letters of a column name no  *)
(* other (parsers.py:29-298).                                              *)
THEOREM ParsedAsWritten ==
    ParsingInit => SectionsNest /\ CitedLinesExact /\ HeadingPathsDescend /\ ColumnNamesDecode
  BY ParsedTyped, SectionsNestAlways, CitedLinesAlways, HeadingPathsAlways, ColumnNamesAlways

(* A chunk is of one section and not too long unless it is one piece, only *)
(* short pieces before one that does not fit are lost, and no piece is in  *)
(* three chunks, or in two unless a paragraph is repeated, for any texts   *)
(* and documents (chunker.py:84-194).                                      *)
THEOREM DocumentsAreCut == ChunkInit => ChunkSizes /\ LostOnlyWhenShort /\ ChunksInOrder
  BY PiecesTyped, ChunksAlways
==============================================================================
