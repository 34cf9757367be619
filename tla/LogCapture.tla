------------------------------- MODULE LogCapture -------------------------------
(***************************************************************************)
(* The bounded log of a detached service: CaptureSink and the loop that    *)
(* feeds it in scripts/log_capture.py.  The active file is rotated when it *)
(* is full or old, numbered archives are pruned on every rotation by size  *)
(* and at every periodic check, and the process may be killed anywhere in  *)
(* between and be started again on the files it left.                      *)
(*                                                                         *)
(* A unit of size stands for what one os.write appends.  Times are kept as *)
(* ages, which grow up to a bound; the clock does not go back, so that the *)
(* archives' names are in the order they were made.                        *)
(***************************************************************************)
EXTENDS Integers, Sequences, Functions

CONSTANTS
    MaxFile,      \* max_file_bytes
    MaxTotal,     \* max_total_bytes
    Retention,    \* retention_seconds
    Hour,         \* the 3600 seconds after which a file is rotated
    Interval,     \* cleanup_interval
    MaxSegments,  \* the 512 archives kept
    Late,         \* how late the loop may be with a check
    MaxAge        \* bound on ages: what is older is taken to be as old

ASSUME LimitAssumption ==
    /\ MaxFile \in Nat \ {0} /\ MaxTotal \in Nat /\ MaxTotal >= MaxFile
    /\ Retention \in Nat \ {0} /\ Hour \in Nat \ {0} /\ Interval \in Nat \ {0}
    /\ MaxSegments \in Nat \ {0}
ASSUME BoundAssumption == Late \in Nat /\ MaxAge \in Nat /\ MaxAge > Retention /\ MaxAge > Hour

VARIABLES
    files,      \* the log directory, and how long ago the active file was opened
    running,    \* the capture process holds the lock and drains its child
    due         \* the time until next_cleanup, negative when it has passed

vars == <<files, running, due>>

\* A file: its size, and the ages of its oldest bytes and of its newest (st_mtime).
Fresh == [size |-> 0, first |-> 0, last |-> 0]
NoFile == [size |-> 0, first |-> -1, last |-> -1]

Init ==
    /\ files = [active |-> NoFile, archives |-> <<>>, opened |-> 0]
    /\ running = FALSE
    /\ due = Interval

Budget == MaxTotal - MaxFile
RotateAfter == IF Hour < Retention THEN Hour ELSE Retention

Total(seq) ==
    LET sum[i \in 0..Len(seq)] == IF i = 0 THEN 0 ELSE sum[i - 1] + seq[i].size
    IN  sum[Len(seq)]

\* Operators named ...Faulty are the operator they precede with one plausible
\* mistake; no specification uses them.  They show that a property notices it.

\* the name of the archive sorts before the older ones
ArchiveFaulty(f) == [f EXCEPT !.archives = <<f.active>> \o @, !.active = NoFile]

\* _archive and _open
Archive(f) == [f EXCEPT !.archives = Append(@, f.active), !.active = NoFile]
Open(f) == [f EXCEPT !.active = Fresh, !.opened = 0]

\* an archive goes by its age, the size of what is left, or the number of
\* archives that are as new
Expendable(a, remaining, newer) ==
    \/ a.last >= Retention
    \/ remaining > Budget
    \/ a.size = 0
    \/ a.size > MaxFile
    \/ newer > MaxSegments

\* what a removed archive took is not given back
PruneStepFaulty(acc, a) ==
    IF Expendable(a, acc.remaining, acc.left)
    THEN [acc EXCEPT !.left = @ - 1]
    ELSE [acc EXCEPT !.left = @ - 1, !.kept = Append(@, a)]

PruneStep(acc, a) ==
    IF Expendable(a, acc.remaining, acc.left)
    THEN [acc EXCEPT !.left = @ - 1, !.remaining = @ - a.size]
    ELSE [acc EXCEPT !.left = @ - 1, !.kept = Append(@, a)]

\* the archives when the loop of maintain has looked at the n oldest of them
Pruned(archives, n) ==
    LET looked[i \in 0..n] ==
            IF i = 0
            THEN [kept |-> <<>>, remaining |-> Total(archives), left |-> Len(archives)]
            ELSE PruneStep(looked[i - 1], archives[i])
    IN  looked[n].kept \o SubSeq(archives, n + 1, Len(archives))

Prune(f) == [f EXCEPT !.archives = Pruned(@, Len(@))]

Rotated(f) == IF f.opened >= RotateAfter THEN Open(Archive(f)) ELSE f

Maintain(f) == Prune(Rotated(f))

\* the full file makes room, if the next bytes need it
MakeRoomFaulty(f) ==
    IF f.active.size >= MaxFile THEN Open(Archive(f)) ELSE f

MakeRoom(f) ==
    IF f.active.size >= MaxFile THEN Maintain(Open(Archive(f))) ELSE f

Enter(f) == Maintain(Open(IF f.active = NoFile THEN f ELSE Archive(f)))

Start ==
    /\ ~running
    /\ running' = TRUE
    /\ files' = Enter(files)
    /\ due' = Interval

\* _drain reads what the service wrote; the writes of a chunk are steps of their own
Write ==
    /\ running
    /\ LET f == MakeRoom(files)
       IN files' = [f EXCEPT !.active.size = @ + 1,
                             !.active.first = IF f.active.size = 0 THEN 0 ELSE @,
                             !.active.last = 0]
    /\ UNCHANGED <<running, due>>

Check ==
    /\ running
    /\ due <= 0
    /\ files' = Maintain(files)
    /\ due' = Interval
    /\ UNCHANGED running

\* the service has exited and its output is drained
Finish ==
    /\ running
    /\ running' = FALSE
    /\ UNCHANGED <<files, due>>

\* What a rotation and the pruning after it leave when they are cut short: f
\* archived, f archived and opened again, or the n oldest archives looked at.
Partly(f) ==
    LET g == Open(Archive(f))
    IN {Archive(f)} \cup {[g EXCEPT !.archives = Pruned(@, n)] : n \in 0..Len(g.archives)}

\* SIGKILL, or a failing write, in the middle of a rotation or a check
Crash ==
    /\ running
    /\ running' = FALSE
    /\ \/ /\ files.active.size >= MaxFile \/ (due <= 0 /\ Rotated(files) # files)
          /\ files' \in Partly(files)
       \/ /\ due <= 0
          /\ Rotated(files) = files
          /\ files' \in {[files EXCEPT !.archives = Pruned(@, n)] : n \in 0..Len(files.archives)}
    /\ UNCHANGED due

\* ... or in __enter__
CrashAtStart ==
    /\ ~running
    /\ files' \in (IF files.active = NoFile
                   THEN {[Open(files) EXCEPT !.archives = Pruned(@, n)] : n \in 0..Len(files.archives)}
                   ELSE Partly(files))
    /\ Len(files'.archives) <= MaxSegments + 1
    /\ UNCHANGED <<running, due>>

Older(age) == IF age < MaxAge THEN age + 1 ELSE age
OlderFile(a) == [a EXCEPT !.first = Older(@), !.last = Older(@)]

Tick ==
    /\ running => due > -Late
    /\ files' = [active |-> IF files.active = NoFile THEN NoFile ELSE OlderFile(files.active),
                 archives |-> [i \in DOMAIN files.archives |-> OlderFile(files.archives[i])],
                 opened |-> Older(files.opened)]
    /\ due' = IF running THEN due - 1 ELSE due
    /\ UNCHANGED running

Next == Start \/ Write \/ Check \/ Finish \/ Crash \/ CrashAtStart \/ Tick

Spec == Init /\ [][Next]_vars

--------------------------------------------------------------------------------
(* Properties.                                                               *)

Files(f) == {f.active} \cup Range(f.archives)

\* The log never takes more than its total, not even between a rotation and
\* the pruning that follows it or after a crash between the two.
TotalBounded == Total(files.archives) + files.active.size <= MaxTotal

\* While the service runs, no more than MaxSegments archives are kept, however
\* many an earlier process has left.
SegmentsBounded == running => Len(files.archives) <= MaxSegments

\* While the service runs no byte is kept for as long as the retention, the hour
\* of a segment and the interval twice: until the check that rotates its segment,
\* and until the check that finds the segment too old.  docs/RUNTIME_LIMITS.md
\* counts the interval once, which holds only of segments that are opened at a
\* check.
AgeBounded ==
    running =>
        \A a \in Files(files) :
            a.size > 0 => a.first < Retention + RotateAfter + 2 * (Interval + Late)

\* The limits of the log hold at every moment, also across kills and restarts: its
\* files, their number, their total and their age.
LimitsKept ==
    /\ \A f \in Files(files) : f.size <= MaxFile
    /\ TotalBounded /\ SegmentsBounded /\ AgeBounded

\* The archives are in the order they were written, so that the budget takes the
\* oldest first, and nothing in the active file is older than they are.
InOrder ==
    LET all == IF files.active = NoFile THEN files.archives
               ELSE Append(files.archives, files.active)
    IN \A i, j \in DOMAIN all : i < j => all[i].last >= all[j].first

\* an archive that is young and fits the limits together with all that is newer
Worth(i) ==
    LET a == files.archives[i]
        newer == SubSeq(files.archives, i, Len(files.archives))
    IN  /\ a.last < Retention /\ a.size > 0
        /\ Total(newer) + files.active.size <= Budget
        /\ Len(newer) < MaxSegments

\* No step but the passing of time drops an archive that is worth keeping, nor what
\* is in the active file: that is still there after the step, archived or not,
\* unless it does not fit the budget or is too old.
NothingLost ==
    [][\/ Tick
       \/ /\ \A i \in DOMAIN files.archives : Worth(i) => files.archives[i] \in Range(files'.archives)
          /\ \/ files.active.size \notin 1..Budget
             \/ files.active.last >= Retention
             \/ \E a \in Files(files') :
                   a.first = files.active.first /\ a.size >= files.active.size]_vars
================================================================================
