---------------------------- MODULE DetachedRuntime ----------------------------
(***************************************************************************)
(* How the backend starts, stops and looks at a detached local service     *)
(* (scripts/shielded_relayer_backend.py, and scripts/dex_automation_-      *)
(* backend.py line by line the same).  A service runs in a process group   *)
(* of its own under scripts/log_capture.py, which holds a lock while it    *)
(* lives and takes the group down with it.  All that links a later command *)
(* to the group is a pid file.  Every backend command is a process; they   *)
(* are not kept from overlapping, and one that is killed leaves its work   *)
(* half done.                                                              *)
(*                                                                         *)
(* Process ids are not reused.  A group sent SIGKILL is gone at once.      *)
(***************************************************************************)
EXTENDS Integers, FiniteSets

CONSTANTS
    Cmd,         \* backend processes that may run at the same time
    MaxOps,      \* bound on the commands run
    MaxKilled    \* bound on the commands killed half way

ASSUME CmdAssumption == Cmd # {}
ASSUME BoundAssumption == MaxOps \in Nat /\ MaxKilled \in Nat

\* a start spawns one group at most
Pid == 1..MaxOps
NoPid == 0    \* no file, or None from _read_pid
Blank == -1   \* the file has been truncated and not written yet

VARIABLES
    pidFile,  \* the content of _PID_PATH
    group,    \* state of the process group led by the wrapper of that pid
    cmd,      \* the commands under way, with their local variables
    ops,      \* history: commands run so far
    killed,   \* history: commands killed so far
    overlap   \* history: two commands have been under way at the same time

vars == <<pidFile, group, cmd, ops, killed, overlap>>

\* States of a group: "boot" until the wrapper has the lock, "child" while the
\* service starts, "ready" while it answers, "ending" once the wrapper was told
\* to stop or the service has exited, "gone" when all of it has exited.
Live(p) == group[p] \notin {"none", "gone"}
HoldsLock(p) == group[p] \in {"child", "ready", "ending"}

\* A child that has exited is a zombie until the command that started it ends,
\* and os.kill(pid, 0) finds it.
Running(p) == p \in Pid /\ (Live(p) \/ \E c \in Cmd : cmd[c].child = p)

Healthy == \E p \in Pid : group[p] = "ready"

Idle == [pc |-> "idle", op |-> "none", after |-> "none", pid |-> NoPid,
         child |-> NoPid]

Init ==
    /\ pidFile = NoPid
    /\ group = [p \in Pid |-> "none"]
    /\ cmd = [c \in Cmd |-> Idle]
    /\ ops = 0
    /\ killed = 0
    /\ overlap = FALSE

At(c, pc) == cmd[c].pc = pc
Goto(c, pc) == cmd' = [cmd EXCEPT ![c].pc = pc]

Answer(c) == cmd' = [cmd EXCEPT ![c] = Idle]

\* An unlink while the file is being written leaves the writer with a file that
\* nobody finds any more.
Unlink(c, next) ==
    /\ pidFile' = NoPid
    /\ cmd' = [d \in Cmd |-> IF d = c THEN next
                            ELSE IF At(d, "write") THEN [cmd[d] EXCEPT !.pc = "write_lost"]
                            ELSE cmd[d]]

\* _read_pid: None for a file that is missing or blank
ReadPid == IF pidFile = Blank THEN NoPid ELSE pidFile

Call(c) ==
    /\ At(c, "idle")
    /\ ops < MaxOps
    /\ \E op \in {"start", "stop", "status"} :
          cmd' = [cmd EXCEPT ![c] =
                    [Idle EXCEPT !.op = op,
                                 !.pc = IF op = "stop" THEN "stop_read" ELSE "status_read",
                                 !.after = IF op = "start" THEN "spawn" ELSE "answer"]]
    /\ ops' = ops + 1
    /\ overlap' = (overlap \/ \E e \in Cmd : ~At(e, "idle"))
    /\ UNCHANGED <<pidFile, group, killed>>

--------------------------------------------------------------------------------
(* get_shielded_relayer_status, alone and as a part of the other commands.   *)

StatusRead(c) ==
    /\ At(c, "status_read")
    /\ cmd' = [cmd EXCEPT ![c].pc = "status_check", ![c].pid = ReadPid]
    /\ UNCHANGED <<pidFile, group, ops, killed, overlap>>

\* the pid is running: a start has nothing to do
StatusRunning(c) ==
    /\ At(c, "status_check")
    /\ Running(cmd[c].pid)
    /\ Answer(c)
    /\ UNCHANGED <<pidFile, group, ops, killed, overlap>>

StatusStale(c) ==
    /\ At(c, "status_check")
    /\ cmd[c].pid # NoPid
    /\ ~Running(cmd[c].pid)
    /\ Goto(c, "status_unlink")
    /\ UNCHANGED <<pidFile, group, ops, killed, overlap>>

\* what a command does after a status that found nothing running
AfterStatus(c) == IF cmd[c].after = "spawn" THEN [cmd[c] EXCEPT !.pc = "spawn"] ELSE Idle

StatusNone(c) ==
    /\ At(c, "status_check")
    /\ cmd[c].pid = NoPid
    /\ cmd' = [cmd EXCEPT ![c] = AfterStatus(c)]
    /\ UNCHANGED <<pidFile, group, ops, killed, overlap>>

\* the file is unlinked whatever it holds by now
StatusUnlink(c) ==
    /\ At(c, "status_unlink")
    /\ Unlink(c, AfterStatus(c))
    /\ UNCHANGED <<group, ops, killed, overlap>>

--------------------------------------------------------------------------------
(* start_shielded_relayer_runtime, once its status found nothing running.    *)

\* subprocess.Popen with start_new_session
Spawn(c) ==
    /\ At(c, "spawn")
    /\ \E p \in Pid :
          /\ group[p] = "none"
          /\ \A q \in 1..(p - 1) : group[q] # "none"
          /\ group' = [group EXCEPT ![p] = "boot"]
          /\ cmd' = [cmd EXCEPT ![c].pc = "truncate", ![c].child = p]
    /\ UNCHANGED <<pidFile, ops, killed, overlap>>

\* write_text opens the file, which empties it, before it writes
TruncatePidFile(c) ==
    /\ At(c, "truncate")
    /\ pidFile' = Blank
    /\ Goto(c, "write")
    /\ UNCHANGED <<group, ops, killed, overlap>>

WritePidFile(c) ==
    /\ cmd[c].pc \in {"write", "write_lost"}
    /\ pidFile' = IF At(c, "write") THEN cmd[c].child ELSE pidFile
    /\ Goto(c, "wait")
    /\ UNCHANGED <<group, ops, killed, overlap>>

\* _wait_for_ready probes the port, whoever answers there
WaitReady(c) ==
    /\ At(c, "wait")
    /\ Healthy
    /\ cmd' = [cmd EXCEPT ![c].pc = "status_read", ![c].after = "answer"]
    /\ UNCHANGED <<pidFile, group, ops, killed, overlap>>

\* after 180 seconds the start stops the service again and raises
WaitTimeout(c) ==
    /\ At(c, "wait")
    /\ ~Healthy
    /\ cmd' = [cmd EXCEPT ![c].pc = "stop_read", ![c].after = "failed"]
    /\ UNCHANGED <<pidFile, group, ops, killed, overlap>>

--------------------------------------------------------------------------------
(* stop_shielded_relayer_runtime.                                            *)

StopRead(c) ==
    /\ At(c, "stop_read")
    /\ cmd' = [cmd EXCEPT ![c].pc = "stop_term", ![c].pid = ReadPid]
    /\ UNCHANGED <<pidFile, group, ops, killed, overlap>>

\* Operators named ...Faulty are the operator they precede with one plausible
\* mistake; no specification uses them.  They show that a property notices it.

\* the group is told to stop and not waited for
StopTermFaulty1(c) ==
    /\ At(c, "stop_term")
    /\ group' = IF Running(cmd[c].pid) /\ Live(cmd[c].pid)
                THEN [group EXCEPT ![cmd[c].pid] = IF @ = "boot" THEN "gone" ELSE "ending"]
                ELSE group
    /\ Goto(c, "stop_unlink")
    /\ UNCHANGED <<pidFile, ops, killed, overlap>>

\* the file is left for the next status to remove, once the group is gone
StopTermFaulty2(c) ==
    /\ At(c, "stop_term")
    /\ group' = IF Running(cmd[c].pid) /\ Live(cmd[c].pid)
                THEN [group EXCEPT ![cmd[c].pid] = IF @ = "boot" THEN "gone" ELSE "ending"]
                ELSE group
    /\ Goto(c, IF Running(cmd[c].pid) THEN "status_read" ELSE "stop_unlink")
    /\ UNCHANGED <<pidFile, ops, killed, overlap>>

\* SIGTERM to the group: before its handlers are set the wrapper just dies of it
StopTerm(c) ==
    /\ At(c, "stop_term")
    /\ group' = IF Running(cmd[c].pid) /\ Live(cmd[c].pid)
                THEN [group EXCEPT ![cmd[c].pid] = IF @ = "boot" THEN "gone" ELSE "ending"]
                ELSE group
    /\ Goto(c, IF Running(cmd[c].pid) THEN "stop_wait" ELSE "stop_unlink")
    /\ UNCHANGED <<pidFile, ops, killed, overlap>>

StopWaited(c) ==
    /\ At(c, "stop_wait")
    /\ ~Running(cmd[c].pid)
    /\ Goto(c, "stop_unlink")
    /\ UNCHANGED <<pidFile, group, ops, killed, overlap>>

\* there is no deadline for a process that has exited but is still listed
StopDeadlineFaulty(c) ==
    /\ At(c, "stop_wait")
    /\ Running(cmd[c].pid)
    /\ Live(cmd[c].pid)
    /\ group' = [group EXCEPT ![cmd[c].pid] = "gone"]
    /\ Goto(c, "stop_unlink")
    /\ UNCHANGED <<pidFile, ops, killed, overlap>>

\* the deadline of 10 seconds and SIGKILL; a start that failed never sees its
\* own child disappear, so it is only this deadline that ends its wait
StopDeadline(c) ==
    /\ At(c, "stop_wait")
    /\ Running(cmd[c].pid)
    /\ group' = [group EXCEPT ![cmd[c].pid] = "gone"]
    /\ Goto(c, "stop_unlink")
    /\ UNCHANGED <<pidFile, ops, killed, overlap>>

StopUnlink(c) ==
    /\ At(c, "stop_unlink")
    /\ Unlink(c, [cmd[c] EXCEPT !.pc = "status_read"])
    /\ UNCHANGED <<group, ops, killed, overlap>>

--------------------------------------------------------------------------------
(* The process groups: log_capture.py and the service.                       *)

\* the lock is not asked for
BootFaulty(p) ==
    /\ group[p] = "boot"
    /\ group' = [group EXCEPT ![p] = "child"]
    /\ UNCHANGED <<pidFile, cmd, ops, killed, overlap>>

\* CaptureSink.__enter__ takes the lock or raises, which ends the wrapper
Boot(p) ==
    /\ group[p] = "boot"
    /\ group' = [group EXCEPT ![p] = IF \E q \in Pid : HoldsLock(q) THEN "gone" ELSE "child"]
    /\ UNCHANGED <<pidFile, cmd, ops, killed, overlap>>

ServiceReady(p) ==
    /\ group[p] = "child"
    /\ group' = [group EXCEPT ![p] = "ready"]
    /\ UNCHANGED <<pidFile, cmd, ops, killed, overlap>>

\* the service ends by itself, and the wrapper drains what it wrote
ServiceExits(p) ==
    /\ group[p] \in {"child", "ready"}
    /\ group' = [group EXCEPT ![p] = "ending"]
    /\ UNCHANGED <<pidFile, cmd, ops, killed, overlap>>

\* the service has exited, or _stop_group has killed the group after its deadlines
GroupEnds(p) ==
    /\ group[p] = "ending"
    /\ group' = [group EXCEPT ![p] = "gone"]
    /\ UNCHANGED <<pidFile, cmd, ops, killed, overlap>>

\* a command is killed, or interrupted from the keyboard, half way
Killed(c) ==
    /\ ~At(c, "idle")
    /\ killed < MaxKilled
    /\ killed' = killed + 1
    /\ cmd' = [cmd EXCEPT ![c] = Idle]
    /\ UNCHANGED <<pidFile, group, ops, overlap>>

Step(c) ==
    \/ StatusRead(c) \/ StatusRunning(c) \/ StatusStale(c) \/ StatusNone(c) \/ StatusUnlink(c)
    \/ Spawn(c) \/ TruncatePidFile(c) \/ WritePidFile(c) \/ WaitReady(c) \/ WaitTimeout(c)
    \/ StopRead(c) \/ StopTerm(c) \/ StopWaited(c) \/ StopDeadline(c) \/ StopUnlink(c)

Next ==
    \/ \E c \in Cmd : Call(c) \/ Step(c) \/ Killed(c)
    \/ \E p \in Pid : Boot(p) \/ ServiceReady(p) \/ ServiceExits(p) \/ GroupEnds(p)

Spec == Init /\ [][Next]_vars

\* A command runs on, its waits have deadlines, and so have those of _stop_group
FairSpec ==
    /\ Spec
    /\ \A c \in Cmd : WF_vars(Step(c))
    /\ \A p \in Pid : WF_vars(Boot(p)) /\ WF_vars(GroupEnds(p))

--------------------------------------------------------------------------------
(* Properties.                                                               *)

\* Types, and one writer per log: CaptureSink's lock.
TypeOK ==
    /\ pidFile \in Pid \cup {NoPid, Blank}
    /\ group \in [Pid -> {"none", "boot", "child", "ready", "ending", "gone"}]
    /\ cmd \in [Cmd -> [pc : {"idle", "status_read", "status_check", "status_unlink", "spawn",
                             "truncate", "write", "write_lost", "wait",
                             "stop_read", "stop_term", "stop_wait", "stop_unlink"},
                       op : {"none", "start", "stop", "status"},
                       after : {"none", "spawn", "answer", "failed"},
                       pid : Pid \cup {NoPid}, child : Pid \cup {NoPid}]]
    /\ ops \in 0..MaxOps
    /\ killed \in 0..MaxKilled
    /\ overlap \in BOOLEAN
    /\ Cardinality({p \in Pid : HoldsLock(p)}) <= 1

\* While commands run one after the other, each of them whole, they never lose
\* sight of a service: a group that lives is the one the pid file names, or its
\* start has yet to write it.
NoOrphans ==
    ~overlap /\ killed = 0 =>
        \A p \in Pid : Live(p) =>
            pidFile = p \/ \E c \in Cmd : cmd[c].child = p /\ cmd[c].pc \in {"truncate", "write"}

\* ... and when a stop, or a start that raises, ends, nothing that any start has
\* spawned is still alive.
StoppedMeansStopped ==
    [][\A c \in Cmd :
          /\ cmd[c].op = "stop" \/ cmd[c].after = "failed"
          /\ cmd[c].pc # "idle" /\ cmd'[c].pc = "idle"
          /\ ~overlap /\ killed' = 0
          => \A p \in Pid : ~Live(p)']_vars

\* Every command ends, even the start of a service that dies at once.
CommandsEnd == \A c \in Cmd : ~At(c, "idle") ~> At(c, "idle")
================================================================================
