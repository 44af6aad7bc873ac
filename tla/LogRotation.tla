----------------------------- MODULE LogRotation -----------------------------
(***************************************************************************)
(* app/services/log_rotation.py, its hourly loop and its routes: logs over *)
(* a size are renamed, compressed, and started anew; files not touched for *)
(* long are removed.  Others write the logs, opening a file for each line. *)
(***************************************************************************)
EXTENDS Integers, FiniteSets, Sequences

CONSTANTS
    LogNames,         \* active logs, "app" among them
    LogLimitLines,    \* log_max_size_mb, in lines
    LogKept,          \* log_retention_days, in seconds
    Compressing,      \* log_compression_enabled
    MaxLines,         \* bound: lines written
    MaxSeconds        \* bound: the clock

ASSUME LogAssumption ==
    /\ LogLimitLines \in Nat \ {0} /\ LogKept \in Nat /\ Compressing \in BOOLEAN
    /\ MaxLines \in Nat /\ MaxSeconds \in Nat

VARIABLES
    logs,             \* [file names -> [lines, touched]]
    rotating,         \* a rotation between its rename and its end
    second,           \* the time
    lines,            \* lines written so far
    removedOld,       \* history: lines removed for their age
    overwritten       \* history: lines of a file another rotation was named as

logVars == <<logs, rotating, second, lines, removedOld, overwritten>>

\* A name: the active log it came from, the stamps it was given, "log" or "gz".
Active(n) == [base |-> n, stamps |-> <<>>, kind |-> "log"]

Rotated(f) == [f EXCEPT !.stamps = Append(@, second)]

Compressed(f) == [f EXCEPT !.kind = "gz"]

NoRotation == [at |-> "none", from |-> Active("app"), to |-> Active("app")]

LinesIn(f) == IF f \in DOMAIN logs THEN logs[f].lines ELSE {}

PutLog(files, f, content) ==
    [g \in DOMAIN files \cup {f} |->
        IF g = f THEN [lines |-> content, touched |-> second] ELSE files[g]]

Dropped(files, f) == [g \in DOMAIN files \ {f} |-> files[g]]
-----------------------------------------------------------------------------
\* A line is logged; the file is made when it is not there.
WriteLine(n) ==
    /\ lines < MaxLines /\ lines' = lines + 1
    /\ logs' = PutLog(logs, Active(n), LinesIn(Active(n)) \cup {lines + 1})
    /\ UNCHANGED <<rotating, second, removedOld, overwritten>>

SecondPasses ==
    /\ second < MaxSeconds /\ second' = second + 1
    /\ UNCHANGED <<logs, rotating, lines, removedOld, overwritten>>

\* rotate, from a request or rotate_all, which takes every file named like a
\* log, a rotated one that was not compressed too: the name has the second in
\* it, and a file of that name is lost.
Rename(f) ==
    /\ rotating.at = "none" /\ f \in DOMAIN logs /\ f.kind = "log"
    /\ Cardinality(logs[f].lines) >= LogLimitLines
    /\ Len(f.stamps) < 2
    /\ overwritten' = overwritten \cup LinesIn(Rotated(f))
    /\ logs' = PutLog(Dropped(logs, f), Rotated(f), logs[f].lines)
    /\ rotating' = [at |-> IF Compressing THEN "compress" ELSE "touch", from |-> f, to |-> Rotated(f)]
    /\ UNCHANGED <<second, lines, removedOld>>

\* Mutant: the file is emptied before it is read.
CompressEmptied ==
    /\ rotating.at = "compress"
    /\ overwritten' = overwritten \cup LinesIn(Compressed(rotating.to))
    /\ logs' = PutLog(logs, Compressed(rotating.to), {})
    /\ rotating' = [rotating EXCEPT !.at = "unlink"]
    /\ UNCHANGED <<second, lines, removedOld>>

\* _compress: the compressed copy replaces one of the same name.
Compress ==
    /\ rotating.at = "compress"
    /\ overwritten' = overwritten \cup (LinesIn(Compressed(rotating.to)) \ LinesIn(rotating.to))
    /\ logs' = PutLog(logs, Compressed(rotating.to), LinesIn(rotating.to))
    /\ rotating' = [rotating EXCEPT !.at = "unlink"]
    /\ UNCHANGED <<second, lines, removedOld>>

Unlink ==
    /\ rotating.at = "unlink"
    /\ logs' = Dropped(logs, rotating.to)
    /\ rotating' = [rotating EXCEPT !.at = "touch"]
    /\ UNCHANGED <<second, lines, removedOld, overwritten>>

\* Mutant: the new log is truncated.
TouchTruncating ==
    /\ rotating.at = "touch"
    /\ logs' = PutLog(logs, rotating.from, {})
    /\ rotating' = NoRotation
    /\ UNCHANGED <<second, lines, removedOld, overwritten>>

\* touch, which keeps a file that a line has made meanwhile.
Touch ==
    /\ rotating.at = "touch"
    /\ logs' = PutLog(logs, rotating.from, LinesIn(rotating.from))
    /\ rotating' = NoRotation
    /\ UNCHANGED <<second, lines, removedOld, overwritten>>

\* A step raises, or the process dies: no new log is started, and a copy that
\* was being written may be beside the file.
RotationFails ==
    /\ rotating.at # "none" /\ rotating' = NoRotation
    /\ UNCHANGED <<logs, second, lines, removedOld, overwritten>>

\* Mutant: a file as old as the limit goes too.
RemoveOldEarly(f) ==
    /\ rotating.at = "none" /\ f \in DOMAIN logs /\ f # Active("app")
    /\ second - logs[f].touched >= LogKept
    /\ removedOld' = removedOld \cup logs[f].lines
    /\ logs' = Dropped(logs, f)
    /\ UNCHANGED <<rotating, second, lines, overwritten>>

\* cleanup_old_logs of one file: app.log stays, all others go by their age,
\* active or not, and whatever they are.
RemoveOld(f) ==
    /\ rotating.at = "none" /\ f \in DOMAIN logs /\ f # Active("app")
    /\ second - logs[f].touched > LogKept
    /\ removedOld' = removedOld \cup logs[f].lines
    /\ logs' = Dropped(logs, f)
    /\ UNCHANGED <<rotating, second, lines, overwritten>>

LogInit ==
    /\ logs = [f \in {Active(n) : n \in LogNames} |-> [lines |-> {}, touched |-> 0]]
    /\ rotating = NoRotation /\ second = 0 /\ lines = 0 /\ removedOld = {} /\ overwritten = {}

LogStep ==
    \/ \E n \in LogNames : WriteLine(n)
    \/ SecondPasses
    \/ \E f \in DOMAIN logs : Rename(f) \/ RemoveOld(f)
    \/ Compress \/ Unlink \/ Touch \/ RotationFails

LogSpec == LogInit /\ [][LogStep]_logVars
-----------------------------------------------------------------------------
LogTypeOK ==
    /\ \A f \in DOMAIN logs : /\ f.base \in LogNames /\ f.kind \in {"log", "gz"}
                              /\ logs[f].lines \subseteq 1..lines /\ logs[f].touched \in 0..second
    /\ rotating.at \in {"none", "compress", "unlink", "touch"}

\* A line is in some file, unless that file was not touched for the retention
\* or was given another file's name in the same second: no crash between the
\* steps of a rotation and no line written meanwhile loses one
\* (log_rotation.py:33-88, 132-140).
LinesAreKept ==
    \A n \in 1..lines : \/ n \in removedOld \cup overwritten
                        \/ \E f \in DOMAIN logs : n \in logs[f].lines

\* The retention spares what was written within it.
RecentLinesStay ==
    [][\A f \in DOMAIN logs : second - logs[f].touched <= LogKept =>
           logs[f].lines \subseteq overwritten' \cup UNION {logs'[g].lines : g \in DOMAIN logs'}]_logVars
=============================================================================
