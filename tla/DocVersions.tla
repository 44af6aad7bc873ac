----------------------------- MODULE DocVersions -----------------------------
(***************************************************************************)
(* app/services/doc_version.py: the versions of a project's files and the  *)
(* log of their changes.  A tracker hashes a file, reads the current row,  *)
(* and replaces it; the row and the log entry are two commits.  Trackers   *)
(* are started from outside, and each has a connection of its own: nothing *)
(* keeps two of them from reading the same row and replacing it twice.     *)
(***************************************************************************)
EXTENDS Integers, FiniteSets, Sequences

CONSTANTS
    Paths,        \* the files of a project
    Hashes,       \* what a file can hold: one SHA-256 each
    NoFile,       \* a file that does not exist, or has no row
    Trackers,     \* processes that record versions
    MaxEdits,     \* bound: changes of files
    MaxDeaths     \* bound: trackers that die between two commits

ASSUME DocAssumption ==
    /\ NoFile \notin Hashes
    /\ MaxEdits \in Nat /\ MaxDeaths \in Nat

VARIABLES
    content,      \* [Paths -> Hashes or NoFile]: the files
    rows,         \* [Paths -> Seq of rows]: document_version, as inserted
    changeLog,    \* [Paths -> Seq of entries]: document_change_log
    tracker,      \* [Trackers -> what a tracker has read and will write]
    rowWrites,    \* [Paths -> how often its rows were written, and by a tracker
                  \* that another had overtaken since it read]: kept for the properties
    edits,        \* changes of files so far
    deaths        \* trackers that died so far

docVars == <<content, rows, changeLog, tracker, rowWrites, edits, deaths>>
-----------------------------------------------------------------------------
Row == [sha : Hashes, parse : Nat, current : BOOLEAN]

LogEntry == [kind : {"modified", "deleted"}, old : Hashes \cup {NoFile},
             new : Hashes \cup {NoFile}, parse : Nat]

NoEntry == [kind |-> "deleted", old |-> NoFile, new |-> NoFile, parse |-> 0]

AtRest == [at |-> "idle", path |-> NoFile, sha |-> NoFile, row |-> 0, seen |-> 0, entry |-> NoEntry]

RowWrites == [all : Nat, late : Nat]

DocInit ==
    /\ content \in [Paths -> Hashes \cup {NoFile}]
    /\ rows = [p \in Paths |-> <<>>]
    /\ changeLog = [p \in Paths |-> <<>>]
    /\ tracker = [t \in Trackers |-> AtRest]
    /\ rowWrites = [p \in Paths |-> [all |-> 0, late |-> 0]]
    /\ edits = 0 /\ deaths = 0

\* _load_current_versions: the rows of a file that are current.
CurrentRows(p) == {i \in DOMAIN rows[p] : rows[p][i].current}

\* The stored hash detect_file_changes compares with: the row read last wins.
Stored(p) ==
    IF CurrentRows(p) = {} THEN NoFile
    ELSE rows[p][CHOOSE i \in CurrentRows(p) : \A j \in CurrentRows(p) : j <= i].sha

\* The buckets of detect_file_changes.
Bucket(p) ==
    CASE content[p] = NoFile /\ Stored(p) # NoFile -> "deleted"
      [] content[p] # NoFile /\ Stored(p) = NoFile -> "new"
      [] content[p] # NoFile /\ content[p] = Stored(p) -> "unchanged"
      [] NoFile \notin {content[p], Stored(p)} /\ content[p] # Stored(p) -> "modified"
      [] OTHER -> "ignored"
-----------------------------------------------------------------------------
\* Somebody edits, adds or removes a file.
Edit(p, h) ==
    /\ edits < MaxEdits /\ edits' = edits + 1
    /\ content[p] # h
    /\ content' = [content EXCEPT ![p] = h]
    /\ UNCHANGED <<rows, changeLog, tracker, rowWrites, deaths>>

\* initialise_project_versions, or a caller of detect_file_changes, hashes a
\* file that exists; the file may change before its version is recorded.
Hash(t, p) ==
    /\ tracker[t].at = "idle"
    /\ Bucket(p) \in {"new", "modified", "unchanged"}
    /\ tracker' = [tracker EXCEPT ![t] =
           [AtRest EXCEPT !.at = "select", !.path = p, !.sha = content[p]]]
    /\ UNCHANGED <<content, rows, changeLog, rowWrites, edits, deaths>>

\* The row record_file_version takes for the current one: the first of them, in
\* the order of their insertion.
FirstRow(p) ==
    IF CurrentRows(p) = {} THEN 0
    ELSE CHOOSE i \in CurrentRows(p) : \A j \in CurrentRows(p) : i <= j

\* record_file_version reads the current row of the file.
SelectRow(t) ==
    LET p == tracker[t].path
    IN  /\ tracker[t].at = "select"
        /\ tracker' = [tracker EXCEPT ![t] =
               [@ EXCEPT !.at = "write", !.row = FirstRow(p), !.seen = rowWrites[p].all]]
        /\ UNCHANGED <<content, rows, changeLog, rowWrites, edits, deaths>>

\* The rows of a file are written by a tracker that had read it at that point.
WriteRows(p, seen) ==
    LET w == rowWrites[p]
    IN  rowWrites' = [rowWrites EXCEPT ![p] =
            [all |-> w.all + 1, late |-> IF seen = w.all THEN w.late ELSE w.late + 1]]

Version(sha, parse) == [sha |-> sha, parse |-> parse, current |-> TRUE]

\* A file without a current row starts at version one.
FirstVersion(t) ==
    LET q == tracker[t]
    IN  /\ q.at = "write" /\ q.row = 0
        /\ rows' = [rows EXCEPT ![q.path] = Append(@, Version(q.sha, 1))]
        /\ tracker' = [tracker EXCEPT ![t] = AtRest]
        /\ WriteRows(q.path, q.seen)
        /\ UNCHANGED <<content, changeLog, edits, deaths>>

\* The same content: only last_seen_at changes.
SameVersion(t) ==
    LET q == tracker[t]
    IN  /\ q.at = "write" /\ q.row # 0
        /\ rows[q.path][q.row].sha = q.sha
        /\ tracker' = [tracker EXCEPT ![t] = AtRest]
        /\ UNCHANGED <<content, rows, changeLog, rowWrites, edits, deaths>>

\* Mutant: the row that is replaced stays current.
ReplaceVersionBoth(t) ==
    LET q == tracker[t]
        old == rows[q.path][q.row]
    IN  /\ q.at = "write" /\ q.row # 0 /\ old.sha # q.sha
        /\ rows' = [rows EXCEPT ![q.path] = Append(@, Version(q.sha, old.parse + 1))]
        /\ tracker' = [tracker EXCEPT ![t].at = "log",
               ![t].entry = [kind |-> "modified", old |-> old.sha, new |-> q.sha,
                             parse |-> old.parse + 1]]
        /\ WriteRows(q.path, q.seen)
        /\ UNCHANGED <<content, changeLog, edits, deaths>>

\* Mutant: the file is hashed again when its row is inserted.
ReplaceVersionRehashed(t) ==
    LET q == tracker[t]
        old == rows[q.path][q.row]
    IN  /\ q.at = "write" /\ q.row # 0 /\ old.sha # q.sha
        /\ rows' = [rows EXCEPT ![q.path] =
               Append([@ EXCEPT ![q.row].current = FALSE], Version(content[q.path], old.parse + 1))]
        /\ tracker' = [tracker EXCEPT ![t].at = "log",
               ![t].entry = [kind |-> "modified", old |-> old.sha, new |-> q.sha,
                             parse |-> old.parse + 1]]
        /\ WriteRows(q.path, q.seen)
        /\ UNCHANGED <<content, changeLog, edits, deaths>>

\* New content: the row read before is retired and its successor inserted, in
\* one transaction; the log entry is still to be written.
ReplaceVersion(t) ==
    LET q == tracker[t]
        old == rows[q.path][q.row]
    IN  /\ q.at = "write" /\ q.row # 0 /\ old.sha # q.sha
        /\ rows' = [rows EXCEPT ![q.path] =
               Append([@ EXCEPT ![q.row].current = FALSE], Version(q.sha, old.parse + 1))]
        /\ tracker' = [tracker EXCEPT ![t].at = "log",
               ![t].entry = [kind |-> "modified", old |-> old.sha, new |-> q.sha,
                             parse |-> old.parse + 1]]
        /\ WriteRows(q.path, q.seen)
        /\ UNCHANGED <<content, changeLog, edits, deaths>>

\* Mutant: the change is not logged.
LogChangeSkipped(t) ==
    /\ tracker[t].at = "log"
    /\ tracker' = [tracker EXCEPT ![t] = AtRest]
    /\ UNCHANGED <<content, rows, changeLog, rowWrites, edits, deaths>>

LogChange(t) ==
    /\ tracker[t].at = "log"
    /\ changeLog' = [changeLog EXCEPT ![tracker[t].path] = Append(@, tracker[t].entry)]
    /\ tracker' = [tracker EXCEPT ![t] = AtRest]
    /\ UNCHANGED <<content, rows, rowWrites, edits, deaths>>

\* detect_file_changes finds a file with a current row gone.
FindDeleted(t, p) ==
    /\ tracker[t].at = "idle" /\ Bucket(p) = "deleted"
    /\ tracker' = [tracker EXCEPT ![t] = [AtRest EXCEPT !.at = "delete", !.path = p]]
    /\ UNCHANGED <<content, rows, changeLog, rowWrites, edits, deaths>>

\* mark_file_deleted, wherever the file is by then: the rows stay, none is
\* current, and the entry is in the same commit.
MarkDeleted(t) ==
    LET p == tracker[t].path
    IN  /\ tracker[t].at = "delete"
        /\ rows' = [rows EXCEPT ![p] = [i \in DOMAIN @ |-> [@[i] EXCEPT !.current = FALSE]]]
        /\ changeLog' = [changeLog EXCEPT ![p] = Append(@, NoEntry)]
        /\ tracker' = [tracker EXCEPT ![t] = AtRest]
        /\ WriteRows(p, rowWrites[p].all)
        /\ UNCHANGED <<content, edits, deaths>>

\* A tracker dies between two commits.
TrackerDies(t) ==
    /\ deaths < MaxDeaths /\ deaths' = deaths + 1
    /\ tracker[t].at # "idle"
    /\ tracker' = [tracker EXCEPT ![t] = AtRest]
    /\ UNCHANGED <<content, rows, changeLog, rowWrites, edits>>

Track(t) ==
    \/ \E p \in Paths : Hash(t, p) \/ FindDeleted(t, p)
    \/ MarkDeleted(t) \/ SelectRow(t) \/ FirstVersion(t) \/ SameVersion(t) \/ ReplaceVersion(t)
    \/ LogChange(t) \/ TrackerDies(t)

DocNext ==
    \/ \E p \in Paths, h \in Hashes \cup {NoFile} : Edit(p, h)
    \/ \E t \in Trackers : Track(t)

DocSpec == DocInit /\ [][DocNext]_docVars
-----------------------------------------------------------------------------
DocTypeOK ==
    /\ content \in [Paths -> Hashes \cup {NoFile}]
    /\ rows \in [Paths -> Seq(Row)]
    /\ changeLog \in [Paths -> Seq(LogEntry)]
    /\ tracker \in [Trackers ->
           [at : {"idle", "select", "write", "log", "delete"}, path : Paths \cup {NoFile},
            sha : Hashes \cup {NoFile}, row : Nat, seen : Nat, entry : LogEntry]]
    /\ rowWrites \in [Paths -> RowWrites]
    /\ edits \in 0..MaxEdits /\ deaths \in 0..MaxDeaths

\* One row of a file is current at any time, also between the commits of
\* record_file_version and after a tracker died, and one more for every time a
\* tracker wrote a file that another had written, or found deleted, since it
\* read the current row: nothing else makes two (doc_version.py:190-258).
OneCurrentVersion == \A p \in Paths : Cardinality(CurrentRows(p)) <= 1 + rowWrites[p].late

Replacements(p) == {i \in DOMAIN rows[p] : rows[p][i].parse > 1}

LoggedChanges(p) == {i \in DOMAIN changeLog[p] : changeLog[p][i].kind = "modified"}

\* The replacements of a file that are neither logged nor about to be.
Unlogged(p) ==
    LET logging == {t \in Trackers : tracker[t].at = "log" /\ tracker[t].path = p}
    IN  Cardinality(Replacements(p)) - Cardinality(LoggedChanges(p)) - Cardinality(logging)

\* Every replacement is logged once, but for those whose tracker died between
\* the two commits: a lost entry is never made up for, as the next tracker
\* finds the file unchanged.
ReplacementsLogged == \A p \in Paths : Unlogged(p) \in 0..deaths

\* A log entry names the contents of two rows of its file, of a version and of
\* the next one, which is the version the entry gives, also when two trackers
\* replaced the same row (doc_version.py:226-265).
LogMatchesRows ==
    \A p \in Paths : \A k \in LoggedChanges(p) :
        LET e == changeLog[p][k]
        IN  \E i, j \in DOMAIN rows[p] :
                /\ i < j /\ rows[p][i].parse + 1 = e.parse /\ rows[p][j].parse = e.parse
                /\ rows[p][i].sha = e.old /\ rows[p][j].sha = e.new
=============================================================================
