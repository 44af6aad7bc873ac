------------------------------- MODULE Comments -------------------------------
(***************************************************************************)
(* app/services/comments.py and app/api/comments.py: comments on tasks,    *)
(* risks and reports, with replies, mentions and their notifications.      *)
(* Connections leave foreign keys off, so that deleting a comment leaves   *)
(* its replies and mentions as they are.                                   *)
(***************************************************************************)
EXTENDS Membership

CONSTANTS
    NoParent,       \* parent_id NULL
    MaxComments     \* bound: comments created

ASSUME CommentAssumption == MaxComments \in Nat /\ NoParent \notin Nat

VARIABLES
    comments,       \* Seq of comments, in order of creation; gone when deleted
    mentionRows     \* Seq of <<comment, user>>: mention

commentVars == <<comments, mentionRows>>
-----------------------------------------------------------------------------
Exists(c) == c \in DOMAIN comments /\ ~comments[c].gone

\* Mutant: the writer is not told apart from the others.
ToldOfCommentAll(by, named, parent) ==
    LET replied == IF parent = NoParent THEN {} ELSE {comments[parent].author}
    IN  Notify(Notify(inbox, named \cap ActiveUsers, "mention", by), replied, "comment_reply", by)

\* create_comment of the API: the users named, then the author of the comment
\* answered; never the writer.
ToldOfComment(by, named, parent) ==
    LET others == (named \cap ActiveUsers) \ {by}
        replied == IF parent # NoParent /\ Exists(parent) THEN {comments[parent].author} \ {by} ELSE {}
    IN  Notify(Notify(inbox, others, "mention", by), replied, "comment_reply", by)

\* create_comment: the parent is stored as it comes.
CreateComment(by, named, parent) ==
    /\ May(by, "member") /\ Len(comments) < MaxComments
    /\ comments' = Append(comments,
           [author |-> by, parent |-> parent, resolved |-> FALSE, gone |-> FALSE])
    /\ \E order \in [1..Cardinality(named \cap ActiveUsers) -> named \cap ActiveUsers] :
           /\ {order[i] : i \in DOMAIN order} = named \cap ActiveUsers
           /\ mentionRows' = mentionRows \o
                  [i \in DOMAIN order |-> <<Len(comments) + 1, order[i]>>]
    /\ inbox' = ToldOfComment(by, named, parent)
    /\ UNCHANGED role

\* update_comment: its author alone; mentions stay as they were.
EditComment(by, c) ==
    /\ May(by, "member") /\ Exists(c) /\ comments[c].author = by
    /\ UNCHANGED <<role, inbox, commentVars>>

\* delete_comment: the route asks for a manager before it looks at the author.
DeleteComment(by, c) ==
    /\ May(by, "pm") /\ Exists(c)
    /\ comments[c].author = by \/ HasMinRole(role[by], "pm")
    /\ comments' = [comments EXCEPT ![c].gone = TRUE]
    /\ UNCHANGED <<role, inbox, mentionRows>>

\* resolve_comment, by the route.
ResolveComment(by, c) ==
    /\ May(by, "pm") /\ Exists(c)
    /\ comments' = [comments EXCEPT ![c].resolved = TRUE]
    /\ UNCHANGED <<role, inbox, mentionRows>>

Undeleted == {c \in DOMAIN comments : ~comments[c].gone}

TopLevel == {c \in Undeleted : comments[c].parent = NoParent}

\* Mutant: only open comments are looked at for replies.
RepliesOpen(c) == {r \in Undeleted : comments[r].parent = c /\ ~comments[c].resolved}

Replies(c) == {r \in Undeleted : comments[r].parent = c}

\* list_comments: the comments without a parent, and one level of replies.
Listed == TopLevel \cup UNION {Replies(c) : c \in TopLevel}

CommentStep ==
    \E by \in Users :
        \/ \E named \in SUBSET Users, parent \in DOMAIN comments \cup {NoParent} :
               CreateComment(by, named, parent)
        \/ \E c \in DOMAIN comments :
               EditComment(by, c) \/ DeleteComment(by, c) \/ ResolveComment(by, c)

CommentInit == comments = <<>> /\ mentionRows = <<>>

CommentSpec ==
    /\ MembershipInit /\ CommentInit
    /\ [][CommentStep \/ ((RoleStep \/ ReadStep) /\ UNCHANGED commentVars)]_<<role, inbox, commentVars>>
-----------------------------------------------------------------------------
CommentTypeOK ==
    /\ \A c \in DOMAIN comments : /\ comments[c].author \in Users
                                  /\ comments[c].parent \in DOMAIN comments \cup {NoParent}
    /\ \A i \in DOMAIN mentionRows : mentionRows[i] \in (DOMAIN comments) \X Users

\* Nobody is told of what he wrote himself, neither as one named nor as the
\* author of what he answers (api/comments.py:54-79).
NobodyToldOfOwn ==
    \A u \in Users : \A i \in DOMAIN inbox[u] :
        inbox[u][i].kind \in {"mention", "comment_reply"} => inbox[u][i].from # u

\* A stored answer to a listed comment without a parent is listed with it,
\* whatever became of either since (comments.py:111-167).
DirectAnswersListed ==
    \A r \in Undeleted : (comments[r].parent # NoParent /\ comments[r].parent \in TopLevel) => r \in Listed
=============================================================================
