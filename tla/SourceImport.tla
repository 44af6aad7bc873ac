---------------------------- MODULE SourceImport ----------------------------
(***************************************************************************)
(* The document import of app/rag/parsers.py over the scan of              *)
(* app/rag/scanner.py and the manifest of app/rag/manifest.py: the source  *)
(* directory is listed once, then every entry is rejected, skipped, or     *)
(* hashed and parsed, in that order.  People go on editing and removing    *)
(* files while the import reads them.                                      *)
(***************************************************************************)
EXTENDS Integers, Sequences, FiniteSets

CONSTANTS SourceEntries,  \* the names below source/
          MaxEntryEdits,       \* bound on the edits of source files
          MaxLosses       \* bound on the files removed during the import

ASSUME ImportAssumption ==
    IsFiniteSet(SourceEntries) /\ MaxEntryEdits \in Nat /\ MaxLosses \in Nat

VARIABLES tree,       \* what each name is on disk, and its edition
          listed,     \* whether the source directory exists
          waiting,    \* the scanned entries the import has not finished
          held,       \* the manifest record built but not yet appended
          manifest,   \* ImportResult.files
          documents,  \* ImportResult.parsed
          tally,      \* the three counters of ImportResult
          outcome,    \* what import_project has come to
          losses      \* the files removed so far

importVars == <<tree, listed, waiting, held, manifest, documents, tally, outcome, losses>>

(* SUPPORTED_EXTENSIONS and the is_symlink tests sort names into these kinds; *)
(* a "bad" file has a supported suffix and makes its parser raise.            *)
EntryKinds == {"good", "bad", "other", "escape", "broken", "gone"}

Supported(kind) == kind \in {"good", "bad"}
RejectedKind(kind) == kind \in {"escape", "broken"}

NoRecord == [entry |-> "", status |-> "", edition |-> 0]
FileRecord(e, status, edition) == [entry |-> e, status |-> status, edition |-> edition]
NoTally == [success |-> 0, failure |-> 0, skipped |-> 0]

ImportInit ==
    /\ tree \in [SourceEntries -> [kind : EntryKinds, edition : {1}]]
    /\ listed \in BOOLEAN
    /\ listed \/ \A e \in SourceEntries : tree[e].kind = "gone"
    /\ waiting = <<>> /\ held = NoRecord
    /\ manifest = <<>> /\ documents = {} /\ tally = NoTally
    /\ outcome = "idle" /\ losses = 0

-----------------------------------------------------------------------------
(* scan_source_entries: every name but directories, with the outcome of the   *)
(* link tests; a name that is gone is not listed.                             *)
Scanned(s) == /\ {s[k] : k \in DOMAIN s} = {e \in SourceEntries : tree[e].kind # "gone"}
              /\ \A i, j \in DOMAIN s : s[i] = s[j] => i = j

(* import_project begins; a project without source/ gives an empty result. *)
ScanSource ==
    /\ outcome = "idle"
    /\ IF listed
       THEN \E n \in 0..Cardinality(SourceEntries) : \E s \in [1..n -> SourceEntries] :
                /\ Scanned(s)
                /\ waiting' = [k \in DOMAIN s |-> [entry |-> s[k], kind |-> tree[s[k]].kind]]
                /\ outcome' = "running"
       ELSE waiting' = <<>> /\ outcome' = "done"
    /\ UNCHANGED <<tree, listed, held, manifest, documents, tally, losses>>

Working == outcome = "running" /\ waiting # <<>>

Counted(field) == [tally EXCEPT ![field] = @ + 1]

(* build_rejected_source_file: an escaping or broken link is recorded unread. *)
RejectEntry ==
    /\ Working /\ RejectedKind(Head(waiting).kind)
    /\ manifest' = Append(manifest, FileRecord(Head(waiting).entry, "failed", 0))
    /\ tally' = Counted("failure")
    /\ waiting' = Tail(waiting)
    /\ UNCHANGED <<tree, listed, held, documents, outcome, losses>>

(* build_source_file reads the size, the time and the digest of the file as   *)
(* it is now.                                                                 *)
HashEntry ==
    /\ Working /\ ~RejectedKind(Head(waiting).kind) /\ held = NoRecord
    /\ tree[Head(waiting).entry].kind # "gone"
    /\ held' = FileRecord(Head(waiting).entry, "pending", tree[Head(waiting).entry].edition)
    /\ UNCHANGED <<tree, listed, waiting, manifest, documents, tally, outcome, losses>>

(* The same call stands outside the try: a file removed since the scan ends   *)
(* the whole import with an exception.                                        *)
HashVanished ==
    /\ Working /\ ~RejectedKind(Head(waiting).kind) /\ held = NoRecord
    /\ tree[Head(waiting).entry].kind = "gone"
    /\ outcome' = "aborted"
    /\ UNCHANGED <<tree, listed, waiting, held, manifest, documents, tally, losses>>

Recorded(status) == /\ manifest' = Append(manifest, [held EXCEPT !.status = status])
                    /\ waiting' = Tail(waiting)
                    /\ held' = NoRecord

SkipEntry ==
    /\ Working /\ held # NoRecord /\ Head(waiting).kind = "other"
    /\ Recorded("unsupported") /\ tally' = Counted("skipped")
    /\ UNCHANGED <<tree, listed, documents, outcome, losses>>

(* Mutant: a parsed file is forgotten in the counters. *)
ParseEntryUncounted ==
    /\ Working /\ held # NoRecord /\ Supported(Head(waiting).kind)
    /\ tree[held.entry].kind = "good"
    /\ documents' = documents \union {[entry |-> held.entry, edition |-> tree[held.entry].edition]}
    /\ Recorded("success")
    /\ UNCHANGED <<tree, listed, tally, outcome, losses>>

(* Mutant: the digest is that of the file after the parser closed it, which   *)
(* an edit may have changed in between.                                       *)
ParseEntryHashedLater ==
    /\ Working /\ held # NoRecord /\ Supported(Head(waiting).kind)
    /\ tree[held.entry].kind = "good"
    /\ documents' = documents \union {[entry |-> held.entry, edition |-> held.edition]}
    /\ manifest' = Append(manifest, FileRecord(held.entry, "success", tree[held.entry].edition))
    /\ waiting' = Tail(waiting) /\ held' = NoRecord
    /\ tally' = Counted("success")
    /\ UNCHANGED <<tree, listed, outcome, losses>>

(* parse_file reads the file again; what its parser returns is kept with the  *)
(* record.                                                                    *)
ParseEntry ==
    /\ Working /\ held # NoRecord /\ Supported(Head(waiting).kind)
    /\ tree[held.entry].kind = "good"
    /\ documents' = documents \union {[entry |-> held.entry, edition |-> tree[held.entry].edition]}
    /\ Recorded("success") /\ tally' = Counted("success")
    /\ UNCHANGED <<tree, listed, outcome, losses>>

(* Mutant: the record of a failed file is lost with its exception. *)
ParseFailsUnrecorded ==
    /\ Working /\ held # NoRecord /\ Supported(Head(waiting).kind)
    /\ tree[held.entry].kind # "good"
    /\ waiting' = Tail(waiting) /\ held' = NoRecord /\ tally' = Counted("failure")
    /\ UNCHANGED <<tree, listed, manifest, documents, outcome, losses>>

(* Whatever the parser raises is kept in the record, a file that is gone by   *)
(* now included.                                                              *)
ParseFails ==
    /\ Working /\ held # NoRecord /\ Supported(Head(waiting).kind)
    /\ tree[held.entry].kind # "good"
    /\ Recorded("failed") /\ tally' = Counted("failure")
    /\ UNCHANGED <<tree, listed, documents, outcome, losses>>

FinishImport ==
    /\ outcome = "running" /\ waiting = <<>>
    /\ outcome' = "done"
    /\ UNCHANGED <<tree, listed, waiting, held, manifest, documents, tally, losses>>

-----------------------------------------------------------------------------
(* The people who own the directory. *)
EditEntry(e) ==
    /\ tree[e].kind \in {"good", "bad"} /\ tree[e].edition <= MaxEntryEdits
    /\ \E kind \in {"good", "bad"} : tree' = [tree EXCEPT ![e] = [kind |-> kind, edition |-> @.edition + 1]]
    /\ UNCHANGED <<listed, waiting, held, manifest, documents, tally, outcome, losses>>

RemoveEntry(e) ==
    /\ tree[e].kind # "gone" /\ losses < MaxLosses
    /\ tree' = [tree EXCEPT ![e].kind = "gone"]
    /\ losses' = losses + 1
    /\ UNCHANGED <<listed, waiting, held, manifest, documents, tally, outcome>>

ImportStep ==
    \/ ScanSource \/ RejectEntry \/ HashEntry \/ HashVanished \/ SkipEntry
    \/ ParseEntry \/ ParseFails \/ FinishImport
    \/ \E e \in SourceEntries : EditEntry(e) \/ RemoveEntry(e)

ImportSpec == ImportInit /\ [][ImportStep]_importVars
-----------------------------------------------------------------------------
(* Type correctness of the import and of what it collects. *)
ImportTypeOK ==
    /\ \A e \in SourceEntries : tree[e].kind \in EntryKinds /\ tree[e].edition \in 1..(MaxEntryEdits + 1)
    /\ listed \in BOOLEAN /\ losses \in 0..MaxLosses
    /\ outcome \in {"idle", "running", "done", "aborted"}
    /\ \A k \in DOMAIN waiting : waiting[k].entry \in SourceEntries /\ waiting[k].kind \in EntryKinds
    /\ \A k \in DOMAIN manifest : /\ manifest[k].entry \in SourceEntries
                                  /\ manifest[k].status \in {"success", "failed", "unsupported"}
    /\ \A d \in documents : d.entry \in SourceEntries
    /\ \A f \in DOMAIN tally : tally[f] \in 0..Cardinality(SourceEntries)

WithStatus(status) == {k \in DOMAIN manifest : manifest[k].status = status}

(* The numbers the import endpoint reports are the records it returns, and    *)
(* every successful record has its parsed document: no file is counted twice, *)
(* none is lost with the exception of its parser (parsers.py import_project). *)
CountsMatchManifest ==
    /\ tally.success = Cardinality(WithStatus("success"))
    /\ tally.failure = Cardinality(WithStatus("failed"))
    /\ tally.skipped = Cardinality(WithStatus("unsupported"))
    /\ {d.entry : d \in documents} = {manifest[k].entry : k \in WithStatus("success")}
    /\ \A i, j \in DOMAIN manifest : manifest[i].entry = manifest[j].entry => i = j

(* The digest of a record is never newer than the text that was parsed: an    *)
(* edit during the import leaves a digest the next comparison finds changed,  *)
(* never one that hides the edit (manifest.py before parsers.py).             *)
DigestNotAhead ==
    \A d \in documents : \A k \in DOMAIN manifest :
        manifest[k].entry = d.entry => manifest[k].edition <= d.edition
=============================================================================
