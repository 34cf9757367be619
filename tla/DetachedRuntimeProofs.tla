------------------------- MODULE DetachedRuntimeProofs -------------------------
(***************************************************************************)
(* Proofs about DetachedRuntime, for any number of commands: one writer of *)
(* the log whatever happens, and, as long as commands are whole and one    *)
(* after the other, no service that is lost sight of.                      *)
(*                                                                         *)
(* NoOrphans is not inductive: it does not say what the command under way  *)
(* knows of the pid file and of the groups.  InTurn does.                  *)
(***************************************************************************)
EXTENDS DetachedRuntime, FiniteSetTheorems, TLAPS

NoneLive == \A p \in Pid : ~Live(p)
OnlyLive(x) == \A p \in Pid : Live(p) => p = x

\* what a command may be about to do
Flow ==
    \A c \in Cmd :
        /\ cmd[c].after = "spawn" => cmd[c].op = "start"
        /\ cmd[c].pc \in {"spawn", "truncate", "write", "write_lost", "wait"} =>
              cmd[c].after = "spawn"

Writing(c) == cmd[c].pc \in {"truncate", "write"}

\* what the command under way knows
Known(c) ==
    /\ cmd[c].pc \in {"status_unlink", "spawn", "stop_unlink"} => NoneLive
    /\ Writing(c) => OnlyLive(cmd[c].child)
    /\ cmd[c].pc # "write_lost"
    /\ cmd[c].pc \in {"status_check", "stop_term", "stop_wait"} => cmd[c].pid = pidFile
    /\ /\ cmd[c].op = "stop" \/ cmd[c].after = "failed"
       /\ cmd[c].pc \in {"status_read", "status_check"}
       => NoneLive

InTurn ==
    /\ \A c, d \in Cmd : ~At(c, "idle") /\ ~At(d, "idle") => c = d
    /\ (\A c \in Cmd : ~Writing(c)) => OnlyLive(pidFile)
    /\ (\A c \in Cmd : ~At(c, "write")) => pidFile # Blank
    /\ \A c \in Cmd : Known(c)

\* commands ran one after the other so far, and whole
Quiet == ~overlap /\ killed = 0

\* the lock of the log has one holder at most
OneWriter == \A p, q \in Pid : HoldsLock(p) /\ HoldsLock(q) => p = q

Pc == {"idle", "status_read", "status_check", "status_unlink", "spawn", "truncate", "write",
       "write_lost", "wait", "stop_read", "stop_term", "stop_wait", "stop_unlink"}

Command == [pc    : Pc,
            op    : {"none", "start", "stop", "status"},
            after : {"none", "spawn", "answer", "failed"},
            pid   : Pid \cup {NoPid}, child : Pid \cup {NoPid}]

Types ==
    /\ pidFile \in Pid \cup {NoPid, Blank}
    /\ group \in [Pid -> {"none", "boot", "child", "ready", "ending", "gone"}]
    /\ cmd \in [Cmd -> Command]
    /\ ops \in 0..MaxOps
    /\ killed \in 0..MaxKilled
    /\ overlap \in BOOLEAN

Inv == Types /\ OneWriter /\ Flow /\ (Quiet => InTurn)

--------------------------------------------------------------------------------
(* Types, writers, and the course of a command.                              *)

\* A command that moves on, and learns a pid or how it has ended, is a command.
LEMMA Updates ==
    ASSUME NEW r \in Command, NEW x \in Pc
    PROVE  /\ [r EXCEPT !.pc = x] \in Command
           /\ \A p \in Pid \cup {NoPid} : [r EXCEPT !.pc = x, !.pid = p] \in Command
           /\ \A p \in Pid \cup {NoPid} : [r EXCEPT !.pc = x, !.child = p] \in Command
           /\ \A p \in {"answer", "failed"} : [r EXCEPT !.pc = x, !.after = p] \in Command
           /\ Idle \in Command
<1>1. [r EXCEPT !.pc = x] \in Command
  BY DEF Command
<1>2. \A p \in Pid \cup {NoPid} : [r EXCEPT !.pc = x, !.pid = p] \in Command
  BY DEF Command
<1>3. \A p \in Pid \cup {NoPid} : [r EXCEPT !.pc = x, !.child = p] \in Command
  BY DEF Command
<1>4. \A p \in {"answer", "failed"} : [r EXCEPT !.pc = x, !.after = p] \in Command
  BY DEF Command
<1>5. Idle \in Command
  BY DEF Command, Idle, Pc
<1> QED
  BY <1>1, <1>2, <1>3, <1>4, <1>5

\* A new command starts with a read of the pid file; the others only learn of it.
LEMMA CallEffect ==
    ASSUME Types, NEW c \in Cmd, Call(c)
    PROVE  /\ cmd'[c] \in Command
           /\ cmd'[c].pc \in {"status_read", "stop_read"}
           /\ cmd'[c].after = "spawn" => cmd'[c].op = "start"
           /\ cmd'[c].pc = "status_read" => cmd'[c].op # "stop" /\ cmd'[c].after # "failed"
           /\ \A d \in Cmd \ {c} : cmd'[d] = cmd[d]
<1> DEFINE r(op) == [Idle EXCEPT !.op = op,
                                 !.pc = IF op = "stop" THEN "stop_read" ELSE "status_read",
                                 !.after = IF op = "start" THEN "spawn" ELSE "answer"]
<1>1. ASSUME NEW op \in {"start", "stop", "status"}
      PROVE  /\ r(op) \in Command
             /\ r(op).pc \in {"status_read", "stop_read"}
             /\ r(op).after = "spawn" => r(op).op = "start"
             /\ r(op).pc = "status_read" => r(op).op # "stop" /\ r(op).after # "failed"
  BY DEF Idle, Command, Pc
<1>2. PICK op \in {"start", "stop", "status"} : cmd' = [cmd EXCEPT ![c] = r(op)]
  BY DEF Call
<1> HIDE DEF r
<1>3. cmd'[c] = r(op) /\ \A d \in Cmd \ {c} : cmd'[d] = cmd[d]
  BY <1>2 DEF Types
<1> QED
  BY <1>1, <1>3

\* Every step leaves the commands commands.
LEMMA CommandStep ==
    ASSUME Types, [Next]_vars
    PROVE  cmd' \in [Cmd -> Command]
<1> USE DEF Types
<1>1. ASSUME NEW c \in Cmd, Call(c) PROVE cmd' \in [Cmd -> Command]
  <2>1. \A d \in Cmd : cmd'[d] \in Command
    BY <1>1, CallEffect
  <2>2. cmd' = [d \in Cmd |-> cmd'[d]]
    BY <1>1 DEF Call
  <2> QED
    BY <2>1, <2>2
<1>2. ASSUME NEW c \in Cmd, StatusRead(c) PROVE cmd' \in [Cmd -> Command]
  <2>1. [cmd[c] EXCEPT !.pc = "status_check", !.pid = ReadPid] \in Command
    BY Updates DEF Pc, ReadPid
  <2>2. cmd' = [cmd EXCEPT ![c] = [cmd[c] EXCEPT !.pc = "status_check", !.pid = ReadPid]]
    BY <1>2 DEF StatusRead
  <2> QED
    BY <2>1, <2>2
<1>3. ASSUME NEW c \in Cmd, StatusRunning(c) PROVE cmd' \in [Cmd -> Command]
  BY <1>3, Updates DEF StatusRunning, Answer, Pc
<1>4. ASSUME NEW c \in Cmd, StatusStale(c) PROVE cmd' \in [Cmd -> Command]
  <2>1. [cmd[c] EXCEPT !.pc = "status_unlink"] \in Command
    BY Updates DEF Pc
  <2>2. cmd' = [cmd EXCEPT ![c] = [cmd[c] EXCEPT !.pc = "status_unlink"]]
    BY <1>4 DEF StatusStale, Goto
  <2> QED
    BY <2>1, <2>2
<1>5. ASSUME NEW c \in Cmd, StatusNone(c) PROVE cmd' \in [Cmd -> Command]
  <2>1. AfterStatus(c) \in Command
    BY Updates DEF AfterStatus, Pc
  <2> QED
    BY <1>5, <2>1 DEF StatusNone
<1>6. ASSUME NEW c \in Cmd, StatusUnlink(c) PROVE cmd' \in [Cmd -> Command]
  <2>1. AfterStatus(c) \in Command
    BY Updates DEF AfterStatus, Pc
  <2>2. \A d \in Cmd : [cmd[d] EXCEPT !.pc = "write_lost"] \in Command
    BY Updates DEF Pc
  <2> QED
    BY <1>6, <2>1, <2>2 DEF StatusUnlink, Unlink
<1>7. ASSUME NEW c \in Cmd, Spawn(c) PROVE cmd' \in [Cmd -> Command]
  <2>1. PICK p \in Pid : cmd' = [cmd EXCEPT ![c] = [cmd[c] EXCEPT !.pc = "truncate", !.child = p]]
    BY <1>7 DEF Spawn
  <2>2. [cmd[c] EXCEPT !.pc = "truncate", !.child = p] \in Command
    BY Updates DEF Pc
  <2> QED
    BY <2>1, <2>2
<1>8. ASSUME NEW c \in Cmd, TruncatePidFile(c) PROVE cmd' \in [Cmd -> Command]
  <2>1. [cmd[c] EXCEPT !.pc = "write"] \in Command
    BY Updates DEF Pc
  <2>2. cmd' = [cmd EXCEPT ![c] = [cmd[c] EXCEPT !.pc = "write"]]
    BY <1>8 DEF TruncatePidFile, Goto
  <2> QED
    BY <2>1, <2>2
<1>9. ASSUME NEW c \in Cmd, WritePidFile(c) PROVE cmd' \in [Cmd -> Command]
  <2>1. [cmd[c] EXCEPT !.pc = "wait"] \in Command
    BY Updates DEF Pc
  <2>2. cmd' = [cmd EXCEPT ![c] = [cmd[c] EXCEPT !.pc = "wait"]]
    BY <1>9 DEF WritePidFile, Goto
  <2> QED
    BY <2>1, <2>2
<1>10. ASSUME NEW c \in Cmd, WaitReady(c) PROVE cmd' \in [Cmd -> Command]
  <2>1. [cmd[c] EXCEPT !.pc = "status_read", !.after = "answer"] \in Command
    BY Updates DEF Pc
  <2>2. cmd' = [cmd EXCEPT ![c] = [cmd[c] EXCEPT !.pc = "status_read", !.after = "answer"]]
    BY <1>10 DEF WaitReady
  <2> QED
    BY <2>1, <2>2
<1>11. ASSUME NEW c \in Cmd, WaitTimeout(c) PROVE cmd' \in [Cmd -> Command]
  <2>1. [cmd[c] EXCEPT !.pc = "stop_read", !.after = "failed"] \in Command
    BY Updates DEF Pc
  <2>2. cmd' = [cmd EXCEPT ![c] = [cmd[c] EXCEPT !.pc = "stop_read", !.after = "failed"]]
    BY <1>11 DEF WaitTimeout
  <2> QED
    BY <2>1, <2>2
<1>12. ASSUME NEW c \in Cmd, StopRead(c) PROVE cmd' \in [Cmd -> Command]
  <2>1. [cmd[c] EXCEPT !.pc = "stop_term", !.pid = ReadPid] \in Command
    BY Updates DEF Pc, ReadPid
  <2>2. cmd' = [cmd EXCEPT ![c] = [cmd[c] EXCEPT !.pc = "stop_term", !.pid = ReadPid]]
    BY <1>12 DEF StopRead
  <2> QED
    BY <2>1, <2>2
<1>13. ASSUME NEW c \in Cmd, StopTerm(c) PROVE cmd' \in [Cmd -> Command]
  <2>1. [cmd[c] EXCEPT !.pc = IF Running(cmd[c].pid) THEN "stop_wait" ELSE "stop_unlink"] \in Command
    BY Updates DEF Pc
  <2>2. cmd' =
          [cmd EXCEPT ![c] = [cmd[c] EXCEPT !.pc = IF Running(cmd[c].pid) THEN "stop_wait" ELSE "stop_unlink"]]
    BY <1>13 DEF StopTerm, Goto
  <2> QED
    BY <2>1, <2>2
<1>14. ASSUME NEW c \in Cmd, StopWaited(c) PROVE cmd' \in [Cmd -> Command]
  <2>1. [cmd[c] EXCEPT !.pc = "stop_unlink"] \in Command
    BY Updates DEF Pc
  <2>2. cmd' = [cmd EXCEPT ![c] = [cmd[c] EXCEPT !.pc = "stop_unlink"]]
    BY <1>14 DEF StopWaited, Goto
  <2> QED
    BY <2>1, <2>2
<1>15. ASSUME NEW c \in Cmd, StopDeadline(c) PROVE cmd' \in [Cmd -> Command]
  <2>1. [cmd[c] EXCEPT !.pc = "stop_unlink"] \in Command
    BY Updates DEF Pc
  <2>2. cmd' = [cmd EXCEPT ![c] = [cmd[c] EXCEPT !.pc = "stop_unlink"]]
    BY <1>15 DEF StopDeadline, Goto
  <2> QED
    BY <2>1, <2>2
<1>16. ASSUME NEW c \in Cmd, StopUnlink(c) PROVE cmd' \in [Cmd -> Command]
  <2>1. [cmd[c] EXCEPT !.pc = "status_read"] \in Command
    BY Updates DEF Pc
  <2>2. \A d \in Cmd : [cmd[d] EXCEPT !.pc = "write_lost"] \in Command
    BY Updates DEF Pc
  <2> QED
    BY <1>16, <2>1, <2>2 DEF StopUnlink, Unlink
<1>17. ASSUME NEW c \in Cmd, Killed(c) PROVE cmd' \in [Cmd -> Command]
  BY <1>17, Updates DEF Killed, Pc
<1>18. ASSUME NEW p \in Pid, Boot(p) \/ ServiceReady(p) \/ ServiceExits(p) \/ GroupEnds(p)
      PROVE  cmd' \in [Cmd -> Command]
  BY <1>18 DEF Boot, ServiceReady, ServiceExits, GroupEnds
<1>19. CASE UNCHANGED vars
  BY <1>19 DEF vars
<1> QED
  BY <1>1, <1>2, <1>3, <1>4, <1>5, <1>6, <1>7, <1>8, <1>9, <1>10, <1>11, <1>12, <1>13,
     <1>14, <1>15, <1>16, <1>17, <1>18, <1>19
     DEF Next, Step

\* Every step keeps the types.
LEMMA TypesStep ==
    ASSUME Types, [Next]_vars
    PROVE  Types'
<1>1. ASSUME NEW c \in Cmd, Call(c) PROVE Types'
  <2>1. /\ ops < MaxOps /\ ops' = ops + 1 /\ UNCHANGED <<pidFile, group, killed>>
        /\ overlap' = (overlap \/ \E e \in Cmd : ~At(e, "idle"))
    BY <1>1, Zenon DEF Call
  <2>2. ops' \in 0..MaxOps
    BY <2>1, BoundAssumption DEF Types
  <2>3. overlap' \in BOOLEAN
    BY <2>1, Zenon
  <2> QED
    BY <2>1, <2>2, <2>3, CommandStep DEF Types
<1>2. ASSUME NEW c \in Cmd, StatusRead(c) PROVE Types'
  BY <1>2, CommandStep, BoundAssumption DEF Types, StatusRead
<1>3. ASSUME NEW c \in Cmd, StatusRunning(c) PROVE Types'
  BY <1>3, CommandStep, BoundAssumption DEF Types, StatusRunning
<1>4. ASSUME NEW c \in Cmd, StatusStale(c) PROVE Types'
  BY <1>4, CommandStep, BoundAssumption DEF Types, StatusStale
<1>5. ASSUME NEW c \in Cmd, StatusNone(c) PROVE Types'
  BY <1>5, CommandStep, BoundAssumption DEF Types, StatusNone
<1>6. ASSUME NEW c \in Cmd, StatusUnlink(c) PROVE Types'
  BY <1>6, CommandStep, BoundAssumption DEF Types, StatusUnlink, Unlink, NoPid
<1>7. ASSUME NEW c \in Cmd, Spawn(c) PROVE Types'
  BY <1>7, CommandStep, BoundAssumption DEF Types, Spawn
<1>8. ASSUME NEW c \in Cmd, TruncatePidFile(c) PROVE Types'
  BY <1>8, CommandStep, BoundAssumption DEF Types, TruncatePidFile, Blank
<1>9. ASSUME NEW c \in Cmd, WritePidFile(c) PROVE Types'
  BY <1>9, CommandStep, BoundAssumption DEF Types, WritePidFile, Command
<1>10. ASSUME NEW c \in Cmd, WaitReady(c) PROVE Types'
  BY <1>10, CommandStep, BoundAssumption DEF Types, WaitReady
<1>11. ASSUME NEW c \in Cmd, WaitTimeout(c) PROVE Types'
  BY <1>11, CommandStep, BoundAssumption DEF Types, WaitTimeout
<1>12. ASSUME NEW c \in Cmd, StopRead(c) PROVE Types'
  BY <1>12, CommandStep, BoundAssumption DEF Types, StopRead
<1>13. ASSUME NEW c \in Cmd, StopTerm(c) PROVE Types'
  BY <1>13, CommandStep, BoundAssumption DEF Types, StopTerm, Running
<1>14. ASSUME NEW c \in Cmd, StopWaited(c) PROVE Types'
  BY <1>14, CommandStep, BoundAssumption DEF Types, StopWaited
<1>15. ASSUME NEW c \in Cmd, StopDeadline(c) PROVE Types'
  BY <1>15, CommandStep, BoundAssumption DEF Types, StopDeadline, Running
<1>16. ASSUME NEW c \in Cmd, StopUnlink(c) PROVE Types'
  BY <1>16, CommandStep, BoundAssumption DEF Types, StopUnlink, Unlink, NoPid
<1>17. ASSUME NEW c \in Cmd, Killed(c) PROVE Types'
  BY <1>17, CommandStep, BoundAssumption DEF Types, Killed
<1>18. ASSUME NEW p \in Pid, Boot(p) PROVE Types'
  BY <1>18, CommandStep, BoundAssumption DEF Types, Boot
<1>19. ASSUME NEW p \in Pid, ServiceReady(p) PROVE Types'
  BY <1>19, CommandStep, BoundAssumption DEF Types, ServiceReady
<1>20. ASSUME NEW p \in Pid, ServiceExits(p) PROVE Types'
  BY <1>20, CommandStep, BoundAssumption DEF Types, ServiceExits
<1>21. ASSUME NEW p \in Pid, GroupEnds(p) PROVE Types'
  BY <1>21, CommandStep, BoundAssumption DEF Types, GroupEnds
<1>22. CASE UNCHANGED vars
  BY <1>22, CommandStep DEF Types, vars
<1> QED
  BY <1>1, <1>2, <1>3, <1>4, <1>5, <1>6, <1>7, <1>8, <1>9, <1>10, <1>11, <1>12, <1>13,
     <1>14, <1>15, <1>16, <1>17, <1>18, <1>19, <1>20, <1>21, <1>22
     DEF Next, Step

\* No step gives the lock to a second wrapper.
LEMMA WriterStep ==
    ASSUME Types, OneWriter, [Next]_vars
    PROVE  OneWriter'
<1>1. ASSUME NEW c \in Cmd, Call(c) PROVE OneWriter'
  BY <1>1 DEF Types, OneWriter, HoldsLock, Call
<1>2. ASSUME NEW c \in Cmd, StatusRead(c) PROVE OneWriter'
  BY <1>2 DEF Types, OneWriter, HoldsLock, StatusRead
<1>3. ASSUME NEW c \in Cmd, StatusRunning(c) PROVE OneWriter'
  BY <1>3 DEF Types, OneWriter, HoldsLock, StatusRunning
<1>4. ASSUME NEW c \in Cmd, StatusStale(c) PROVE OneWriter'
  BY <1>4 DEF Types, OneWriter, HoldsLock, StatusStale
<1>5. ASSUME NEW c \in Cmd, StatusNone(c) PROVE OneWriter'
  BY <1>5 DEF Types, OneWriter, HoldsLock, StatusNone
<1>6. ASSUME NEW c \in Cmd, StatusUnlink(c) PROVE OneWriter'
  BY <1>6 DEF Types, OneWriter, HoldsLock, StatusUnlink
<1>7. ASSUME NEW c \in Cmd, Spawn(c) PROVE OneWriter'
  BY <1>7 DEF Types, OneWriter, HoldsLock, Spawn
<1>8. ASSUME NEW c \in Cmd, TruncatePidFile(c) PROVE OneWriter'
  BY <1>8 DEF Types, OneWriter, HoldsLock, TruncatePidFile
<1>9. ASSUME NEW c \in Cmd, WritePidFile(c) PROVE OneWriter'
  BY <1>9 DEF Types, OneWriter, HoldsLock, WritePidFile
<1>10. ASSUME NEW c \in Cmd, WaitReady(c) PROVE OneWriter'
  BY <1>10 DEF Types, OneWriter, HoldsLock, WaitReady
<1>11. ASSUME NEW c \in Cmd, WaitTimeout(c) PROVE OneWriter'
  BY <1>11 DEF Types, OneWriter, HoldsLock, WaitTimeout
<1>12. ASSUME NEW c \in Cmd, StopRead(c) PROVE OneWriter'
  BY <1>12 DEF Types, OneWriter, HoldsLock, StopRead
<1>13. ASSUME NEW c \in Cmd, StopTerm(c) PROVE OneWriter'
  BY <1>13 DEF Types, OneWriter, HoldsLock, StopTerm, Running, Live
<1>14. ASSUME NEW c \in Cmd, StopWaited(c) PROVE OneWriter'
  BY <1>14 DEF Types, OneWriter, HoldsLock, StopWaited
<1>15. ASSUME NEW c \in Cmd, StopDeadline(c) PROVE OneWriter'
  BY <1>15 DEF Types, OneWriter, HoldsLock, StopDeadline, Running, Live
<1>16. ASSUME NEW c \in Cmd, StopUnlink(c) PROVE OneWriter'
  BY <1>16 DEF Types, OneWriter, HoldsLock, StopUnlink
<1>17. ASSUME NEW c \in Cmd, Killed(c) PROVE OneWriter'
  BY <1>17 DEF Types, OneWriter, HoldsLock, Killed
<1>18. ASSUME NEW p \in Pid, Boot(p) PROVE OneWriter'
  BY <1>18 DEF Types, OneWriter, HoldsLock, Boot
<1>19. ASSUME NEW p \in Pid, ServiceReady(p) PROVE OneWriter'
  BY <1>19 DEF Types, OneWriter, HoldsLock, ServiceReady
<1>20. ASSUME NEW p \in Pid, ServiceExits(p) PROVE OneWriter'
  BY <1>20 DEF Types, OneWriter, HoldsLock, ServiceExits
<1>21. ASSUME NEW p \in Pid, GroupEnds(p) PROVE OneWriter'
  BY <1>21 DEF Types, OneWriter, HoldsLock, GroupEnds
<1>22. CASE UNCHANGED vars
  BY <1>22 DEF Types, OneWriter, HoldsLock, vars
<1> QED
  BY <1>1, <1>2, <1>3, <1>4, <1>5, <1>6, <1>7, <1>8, <1>9, <1>10, <1>11, <1>12, <1>13,
     <1>14, <1>15, <1>16, <1>17, <1>18, <1>19, <1>20, <1>21, <1>22
     DEF Next, Step

\* A command that starts a service is a start.
LEMMA FlowStep ==
    ASSUME Types, Flow, [Next]_vars
    PROVE  Flow'
<1>1. ASSUME NEW c \in Cmd, Call(c) PROVE Flow'
  BY <1>1, CallEffect DEF Flow
<1>2. ASSUME NEW c \in Cmd, StatusRead(c) PROVE Flow'
  BY <1>2 DEF Types, Command, Flow, StatusRead, At, ReadPid
<1>3. ASSUME NEW c \in Cmd, StatusRunning(c) PROVE Flow'
  BY <1>3 DEF Types, Command, Flow, StatusRunning, At, Answer, Idle
<1>4. ASSUME NEW c \in Cmd, StatusStale(c) PROVE Flow'
  BY <1>4 DEF Types, Command, Flow, StatusStale, At, Goto
<1>5. ASSUME NEW c \in Cmd, StatusNone(c) PROVE Flow'
  BY <1>5 DEF Types, Command, Flow, StatusNone, At, AfterStatus, Idle
<1>6. ASSUME NEW c \in Cmd, StatusUnlink(c) PROVE Flow'
  BY <1>6 DEF Types, Command, Flow, StatusUnlink, At, Unlink, AfterStatus, Idle
<1>7. ASSUME NEW c \in Cmd, Spawn(c) PROVE Flow'
  BY <1>7 DEF Types, Command, Flow, Spawn, At
<1>8. ASSUME NEW c \in Cmd, TruncatePidFile(c) PROVE Flow'
  BY <1>8 DEF Types, Command, Flow, TruncatePidFile, At, Goto
<1>9. ASSUME NEW c \in Cmd, WritePidFile(c) PROVE Flow'
  BY <1>9 DEF Types, Command, Flow, WritePidFile, At, Goto
<1>10. ASSUME NEW c \in Cmd, WaitReady(c) PROVE Flow'
  BY <1>10 DEF Types, Command, Flow, WaitReady, At
<1>11. ASSUME NEW c \in Cmd, WaitTimeout(c) PROVE Flow'
  BY <1>11 DEF Types, Command, Flow, WaitTimeout, At
<1>12. ASSUME NEW c \in Cmd, StopRead(c) PROVE Flow'
  BY <1>12 DEF Types, Command, Flow, StopRead, At, ReadPid
<1>13. ASSUME NEW c \in Cmd, StopTerm(c) PROVE Flow'
  BY <1>13 DEF Types, Command, Flow, StopTerm, At, Goto, Running
<1>14. ASSUME NEW c \in Cmd, StopWaited(c) PROVE Flow'
  BY <1>14 DEF Types, Command, Flow, StopWaited, At, Goto
<1>15. ASSUME NEW c \in Cmd, StopDeadline(c) PROVE Flow'
  BY <1>15 DEF Types, Command, Flow, StopDeadline, At, Goto, Running
<1>16. ASSUME NEW c \in Cmd, StopUnlink(c) PROVE Flow'
  BY <1>16 DEF Types, Command, Flow, StopUnlink, At, Unlink
<1>17. ASSUME NEW c \in Cmd, Killed(c) PROVE Flow'
  BY <1>17 DEF Types, Command, Flow, Killed, At, Idle
<1>18. ASSUME NEW p \in Pid, Boot(p) PROVE Flow'
  BY <1>18 DEF Types, Command, Flow, Boot, At
<1>19. ASSUME NEW p \in Pid, ServiceReady(p) PROVE Flow'
  BY <1>19 DEF Types, Command, Flow, ServiceReady, At
<1>20. ASSUME NEW p \in Pid, ServiceExits(p) PROVE Flow'
  BY <1>20 DEF Types, Command, Flow, ServiceExits, At
<1>21. ASSUME NEW p \in Pid, GroupEnds(p) PROVE Flow'
  BY <1>21 DEF Types, Command, Flow, GroupEnds, At
<1>22. CASE UNCHANGED vars
  BY <1>22 DEF Types, Command, Flow, vars, At
<1> QED
  BY <1>1, <1>2, <1>3, <1>4, <1>5, <1>6, <1>7, <1>8, <1>9, <1>10, <1>11, <1>12, <1>13,
     <1>14, <1>15, <1>16, <1>17, <1>18, <1>19, <1>20, <1>21, <1>22
     DEF Next, Step

--------------------------------------------------------------------------------
(* What the command under way knows.                                         *)

\* The other commands are idle, and know nothing.
LEMMA Others ==
    ASSUME InTurn, NEW c \in Cmd, ~At(c, "idle")
    PROVE  \A d \in Cmd \ {c} : At(d, "idle")
BY DEF InTurn

\* What one command knows after its step is all there is to know.
LEMMA Turn ==
    ASSUME NEW c \in Cmd, \A d \in Cmd \ {c} : At(d, "idle")',
           Known(c)',
           ~Writing(c)' => OnlyLive(pidFile)',
           ~At(c, "write")' => (pidFile # Blank)'
    PROVE  InTurn'
<1>1. \A d \in Cmd \ {c} : Known(d)' /\ ~Writing(d)' /\ ~At(d, "write")'
  BY DEF At, Known, Writing
<1> QED
  BY <1>1 DEF InTurn

\* Without a new group the dead stay dead.
LEMMA FewerLive ==
    ASSUME Types, [Next]_vars, \A c \in Cmd : ~Spawn(c)
    PROVE  \A p \in Pid : Live(p)' => Live(p)
<1>1. ASSUME NEW c \in Cmd, StopTerm(c) PROVE \A p \in Pid : Live(p)' => Live(p)
  BY <1>1 DEF Types, StopTerm, Running, Live
<1>2. ASSUME NEW c \in Cmd, StopDeadline(c) PROVE \A p \in Pid : Live(p)' => Live(p)
  BY <1>2 DEF Types, StopDeadline, Live
<1>3. ASSUME NEW p \in Pid, Boot(p) \/ ServiceReady(p) \/ ServiceExits(p) \/ GroupEnds(p)
      PROVE  \A q \in Pid : Live(q)' => Live(q)
  BY <1>3 DEF Types, Boot, ServiceReady, ServiceExits, GroupEnds, Live
<1>4. CASE UNCHANGED group
  BY <1>4 DEF Live
<1> QED
  BY <1>1, <1>2, <1>3, <1>4
     DEF Next, Step, vars, Call, Killed, StatusRead, StatusRunning, StatusStale,
         StatusNone, StatusUnlink,
         TruncatePidFile, WritePidFile, WaitReady, WaitTimeout, StopRead, StopWaited, StopUnlink

\* A step of a command that is under way alone.
LEMMA CommandTurn ==
    ASSUME Inv, [Next]_vars, Quiet, NEW c \in Cmd, Step(c)
    PROVE  InTurn'
<1> USE DEF Pid, NoPid, Blank
<1>1. Types /\ Flow /\ InTurn /\ Types'
  BY TypesStep DEF Inv
<1>2. ~At(c, "idle")
  BY <1>1 DEF Step, At, StatusRead, StatusRunning, StatusStale, StatusNone,
              StatusUnlink, Spawn, TruncatePidFile, WritePidFile, WaitReady,
              WaitTimeout, StopRead, StopTerm, StopWaited, StopDeadline, StopUnlink
<1>3. \A d \in Cmd \ {c} : At(d, "idle") /\ ~Writing(d) /\ ~At(d, "write")
  BY <1>1, <1>2, Others DEF At, Writing
<1>4. /\ Known(c)
      /\ ~Writing(c) => OnlyLive(pidFile)
      /\ ~At(c, "write") => pidFile # Blank
  BY <1>1, <1>3 DEF InTurn
<1>5. \A d \in Cmd \ {c} : At(d, "idle")'
  BY <1>1, <1>3 DEF Step, StatusRead, StatusRunning, StatusStale, StatusNone,
                    StatusUnlink, Spawn, TruncatePidFile, WritePidFile, WaitReady,
                    WaitTimeout, StopRead, StopTerm, StopWaited, StopDeadline,
                    StopUnlink, Goto, Answer, Unlink, At, Types
<1>6. (\A d \in Cmd : ~Spawn(d)) => \A p \in Pid : Live(p)' => Live(p)
  BY <1>1, FewerLive
<1> DEFINE Goal == /\ Known(c)'
                   /\ ~Writing(c)' => OnlyLive(pidFile)'
                   /\ ~At(c, "write")' => (pidFile # Blank)'
<1>7. ASSUME StatusRead(c) PROVE Goal
  <2>1. \A p \in Pid : Live(p)' => Live(p)
    BY <1>7, <1>1, <1>3, <1>6 DEF StatusRead, Spawn, At
  <2> QED
    BY <2>1, <1>7, <1>1, <1>4 DEF Types, Command, Flow, Known, Writing, OnlyLive,
                                  NoneLive, StatusRead, At, ReadPid
<1>8. ASSUME StatusRunning(c) PROVE Goal
  <2>1. \A p \in Pid : Live(p)' => Live(p)
    BY <1>8, <1>1, <1>3, <1>6 DEF StatusRunning, Spawn, At
  <2> QED
    BY <2>1, <1>8, <1>1, <1>4 DEF Types, Command, Flow, Known, Writing, OnlyLive,
                                  NoneLive, StatusRunning, At, Answer, Idle, Running
<1>9. ASSUME StatusStale(c) PROVE Goal
  <2>1. \A p \in Pid : Live(p)' => Live(p)
    BY <1>9, <1>1, <1>3, <1>6 DEF StatusStale, Spawn, At
  <2> QED
    BY <2>1, <1>9, <1>1, <1>4 DEF Types, Command, Flow, Known, Writing, OnlyLive,
                                  NoneLive, StatusStale, At, Goto, Running
<1>10. ASSUME StatusNone(c) PROVE Goal
  <2>1. \A p \in Pid : Live(p)' => Live(p)
    BY <1>10, <1>1, <1>3, <1>6 DEF StatusNone, Spawn, At
  <2> QED
    BY <2>1, <1>10, <1>1, <1>4 DEF Types, Command, Flow, Known, Writing, OnlyLive,
                                   NoneLive, StatusNone, At, AfterStatus, Idle
<1>11. ASSUME StatusUnlink(c) PROVE Goal
  <2>1. \A p \in Pid : Live(p)' => Live(p)
    BY <1>11, <1>1, <1>3, <1>6 DEF StatusUnlink, Spawn, At
  <2> QED
    BY <2>1, <1>11, <1>1, <1>4 DEF Types, Command, Flow, Known, Writing, OnlyLive,
                                   NoneLive, StatusUnlink, At, Unlink, AfterStatus,
                                   Idle
<1>12. ASSUME Spawn(c) PROVE Goal
  BY <1>12, <1>1, <1>4 DEF Types, Command, Flow, Known, Writing, OnlyLive, NoneLive,
                           Live, Spawn, At
<1>13. ASSUME TruncatePidFile(c) PROVE Goal
  <2>1. \A p \in Pid : Live(p)' => Live(p)
    BY <1>13, <1>1, <1>3, <1>6 DEF TruncatePidFile, Spawn, At
  <2> QED
    BY <2>1, <1>13, <1>1, <1>4 DEF Types, Command, Flow, Known, Writing, OnlyLive,
                                   NoneLive, TruncatePidFile, At, Goto
<1>14. ASSUME WritePidFile(c) PROVE Goal
  <2>1. \A p \in Pid : Live(p)' => Live(p)
    BY <1>14, <1>1, <1>3, <1>6 DEF WritePidFile, Spawn, At
  <2> QED
    BY <2>1, <1>14, <1>1, <1>4 DEF Types, Command, Flow, Known, Writing, OnlyLive,
                                   NoneLive, WritePidFile, At, Goto
<1>15. ASSUME WaitReady(c) PROVE Goal
  <2>1. \A p \in Pid : Live(p)' => Live(p)
    BY <1>15, <1>1, <1>3, <1>6 DEF WaitReady, Spawn, At
  <2> QED
    BY <2>1, <1>15, <1>1, <1>4 DEF Types, Command, Flow, Known, Writing, OnlyLive,
                                   NoneLive, WaitReady, At
<1>16. ASSUME WaitTimeout(c) PROVE Goal
  <2>1. \A p \in Pid : Live(p)' => Live(p)
    BY <1>16, <1>1, <1>3, <1>6 DEF WaitTimeout, Spawn, At
  <2> QED
    BY <2>1, <1>16, <1>1, <1>4 DEF Types, Command, Flow, Known, Writing, OnlyLive,
                                   NoneLive, WaitTimeout, At
<1>17. ASSUME StopRead(c) PROVE Goal
  <2>1. \A p \in Pid : Live(p)' => Live(p)
    BY <1>17, <1>1, <1>3, <1>6 DEF StopRead, Spawn, At
  <2> QED
    BY <2>1, <1>17, <1>1, <1>4 DEF Types, Command, Flow, Known, Writing, OnlyLive,
                                   NoneLive, StopRead, At, ReadPid
<1>18. ASSUME StopTerm(c) PROVE Goal
  <2>1. \A p \in Pid : Live(p)' => Live(p)
    BY <1>18, <1>1, <1>3, <1>6 DEF StopTerm, Spawn, At
  <2> QED
    BY <2>1, <1>18, <1>1, <1>4 DEF Types, Command, Flow, Known, Writing, OnlyLive,
                                   NoneLive, StopTerm, At, Goto, Running
<1>19. ASSUME StopWaited(c) PROVE Goal
  <2>1. \A p \in Pid : Live(p)' => Live(p)
    BY <1>19, <1>1, <1>3, <1>6 DEF StopWaited, Spawn, At
  <2> QED
    BY <2>1, <1>19, <1>1, <1>4 DEF Types, Command, Flow, Known, Writing, OnlyLive,
                                   NoneLive, StopWaited, At, Goto, Running
<1>20. ASSUME StopDeadline(c) PROVE Goal
  <2>1. \A p \in Pid : Live(p)' => Live(p)
    BY <1>20, <1>1, <1>3, <1>6 DEF StopDeadline, Spawn, At
  <2> QED
    BY <2>1, <1>20, <1>1, <1>4 DEF Types, Command, Flow, Known, Writing, OnlyLive,
                                   NoneLive, StopDeadline, At, Goto, Running, Live
<1>21. ASSUME StopUnlink(c) PROVE Goal
  <2>1. \A p \in Pid : Live(p)' => Live(p)
    BY <1>21, <1>1, <1>3, <1>6 DEF StopUnlink, Spawn, At
  <2> QED
    BY <2>1, <1>21, <1>1, <1>4 DEF Types, Command, Flow, Known, Writing, OnlyLive,
                                   NoneLive, StopUnlink, At, Unlink
<1> HIDE DEF Goal
<1>22. Goal
  BY <1>7, <1>8, <1>9, <1>10, <1>11, <1>12, <1>13, <1>14, <1>15, <1>16, <1>17, <1>18,
     <1>19, <1>20, <1>21
     DEF Step
<1>23. /\ Known(c)'
       /\ ~Writing(c)' => OnlyLive(pidFile)'
       /\ ~At(c, "write")' => (pidFile # Blank)'
  BY <1>22 DEF Goal
<1> QED
  BY <1>5, <1>23, Turn

\* As long as commands are whole and one after the other, the one under way
\* keeps track.
LEMMA TurnStep ==
    ASSUME Inv, [Next]_vars, Quiet'
    PROVE  InTurn'
<1>1. Types /\ OneWriter /\ Flow /\ Types'
  BY TypesStep DEF Inv
<1>2. ASSUME NEW c \in Cmd, Call(c) PROVE InTurn'
  <2>1. /\ Quiet
        /\ \A d \in Cmd : At(d, "idle")
        /\ pidFile' = pidFile /\ group' = group
    BY <1>2, Zenon DEF Call, Quiet
  <2>2. InTurn
    BY <2>1 DEF Inv
  <2>3. /\ cmd'[c].pc \in {"status_read", "stop_read"}
        /\ cmd'[c].pc = "status_read" => cmd'[c].op # "stop" /\ cmd'[c].after # "failed"
        /\ \A d \in Cmd \ {c} : cmd'[d].pc = cmd[d].pc
    BY <1>1, <1>2, CallEffect
  <2>4. OnlyLive(pidFile) /\ pidFile # Blank
    BY <2>1, <2>2 DEF InTurn, At, Writing
  <2>5. Known(c)'
    BY <2>3 DEF Known, Writing
  <2>6. OnlyLive(pidFile)' /\ (pidFile # Blank)'
    BY <2>1, <2>4 DEF OnlyLive, Live
  <2>7. \A d \in Cmd \ {c} : At(d, "idle")'
    BY <2>1, <2>3 DEF At
  <2> QED
    BY <2>5, <2>6, <2>7, Turn
<1>3. ASSUME NEW c \in Cmd, Step(c) PROVE InTurn'
  <2>1. overlap' = overlap /\ killed' = killed
    BY <1>3 DEF Step, StatusRead, StatusRunning, StatusStale, StatusNone, StatusUnlink,
                Spawn, TruncatePidFile, WritePidFile, WaitReady, WaitTimeout, StopRead,
                StopTerm, StopWaited, StopDeadline, StopUnlink
  <2>2. Quiet
    BY <2>1 DEF Quiet
  <2> QED
    BY <1>3, <2>2, CommandTurn
<1>4. ASSUME NEW c \in Cmd, Killed(c) PROVE InTurn'
  BY <1>1, <1>4 DEF Killed, Quiet, Types
<1>5. ASSUME NEW p \in Pid, Boot(p) \/ ServiceReady(p) \/ ServiceExits(p) \/ GroupEnds(p)
      PROVE  InTurn'
  <2>1. UNCHANGED <<pidFile, cmd, killed, overlap>>
    BY <1>5 DEF Boot, ServiceReady, ServiceExits, GroupEnds
  <2>2. \A q \in Pid : Live(q)' => Live(q)
    BY <1>1, <1>5 DEF Types, Boot, ServiceReady, ServiceExits, GroupEnds, Live
  <2>3. InTurn
    BY <2>1 DEF Quiet, Inv
  <2> QED
    BY <2>1, <2>2, <2>3 DEF InTurn, At, Known, Writing, OnlyLive, NoneLive
<1>6. CASE UNCHANGED vars
  <2>1. InTurn
    BY <1>6 DEF vars, Quiet, Inv
  <2> QED
    BY <1>6, <2>1 DEF vars, InTurn, At, Known, Writing, OnlyLive, NoneLive, Live
<1> QED
  BY <1>2, <1>3, <1>4, <1>5, <1>6 DEF Next

--------------------------------------------------------------------------------
(* The invariant and the theorems.                                           *)

\* At first nothing runs.
LEMMA InitLemma == Init => Inv
<1> SUFFICES ASSUME Init PROVE Inv
  OBVIOUS
<1>1. Types
  <2>1. Idle \in Command
    BY DEF Idle, Command, Pc
  <2> QED
    <3>1. group \in [Pid -> {"none", "boot", "child", "ready", "ending", "gone"}]
      BY DEF Init
    <3>2. cmd \in [Cmd -> Command]
      BY <2>1 DEF Init
    <3>3. ops \in 0..MaxOps /\ killed \in 0..MaxKilled
      BY BoundAssumption DEF Init
    <3> QED
      BY <3>1, <3>2, <3>3 DEF Init, Types
<1>2. OneWriter
  BY DEF Init, OneWriter, HoldsLock
<1>3. Flow
  BY DEF Init, Flow, Idle
<1>4. InTurn
  BY DEF Init, InTurn, At, Idle, Known, Writing, OnlyLive, NoneLive, Live, NoPid, Blank
<1> QED
  BY <1>1, <1>2, <1>3, <1>4 DEF Inv

\* Each part of the invariant holds after every step.
LEMMA StepLemma == Inv /\ [Next]_vars => Inv'
<1> SUFFICES ASSUME Inv, [Next]_vars PROVE Inv'
  OBVIOUS
<1>1. Types' /\ OneWriter' /\ Flow'
  BY TypesStep, WriterStep, FlowStep DEF Inv
<1>2. Quiet' => InTurn'
  BY TurnStep
<1> QED
  BY <1>1, <1>2 DEF Inv

\* The invariant always holds.
LEMMA Invariance == Spec => []Inv
<1>1. Init => Inv
  BY InitLemma
<1>2. Inv /\ [Next]_vars => Inv'
  BY StepLemma
<1> QED
  BY <1>1, <1>2, PTL DEF Spec

\* Of all the wrappers that were ever spawned one at most holds the lock of the
\* log, with any number of commands, overlapping and killed at will.
THEOREM TypeCorrect == Spec => []TypeOK
<1>1. Inv => TypeOK
  <2> SUFFICES ASSUME Inv PROVE TypeOK
    OBVIOUS
  <2> DEFINE holders == {p \in Pid : HoldsLock(p)}
  <2>1. Cardinality(holders) <= 1
    <3>1. CASE holders = {}
      BY <3>1, FS_EmptySet
    <3>2. CASE holders # {}
      <4>1. PICK p \in holders : TRUE
        BY <3>2
      <4>2. holders = {p}
        BY <4>1 DEF Inv, OneWriter
      <4> QED
        BY <4>2, FS_Singleton
    <3> QED
      BY <3>1, <3>2
  <2> QED
    BY <2>1 DEF Inv, Types, TypeOK, Command, Pc
<1> QED
  BY <1>1, Invariance, PTL

\* While commands run one after the other, each of them whole, every group that
\* lives is the one the pid file names or is about to name.
THEOREM NothingIsLost == Spec => []NoOrphans
<1>1. Inv => NoOrphans
  BY DEF Inv, InTurn, Quiet, Known, Writing, OnlyLive, NoOrphans
<1> QED
  BY <1>1, Invariance, PTL

\* Commands that were killed stay counted.
LEMMA KilledGrows ==
    ASSUME Types, [Next]_vars
    PROVE  killed' >= killed
<1>1. ASSUME NEW c \in Cmd, Killed(c) PROVE killed' >= killed
  BY <1>1 DEF Types, Killed
<1>2. ASSUME UNCHANGED killed PROVE killed' >= killed
  BY <1>2 DEF Types
<1>3. ASSUME NEW c \in Cmd, Call(c) \/ Step(c) PROVE UNCHANGED killed
  BY <1>3 DEF Call, Step, StatusRead, StatusRunning, StatusStale, StatusNone,
              StatusUnlink, Spawn, TruncatePidFile, WritePidFile, WaitReady,
              WaitTimeout, StopRead, StopTerm, StopWaited, StopDeadline, StopUnlink
<1>4. ASSUME NEW p \in Pid, Boot(p) \/ ServiceReady(p) \/ ServiceExits(p) \/ GroupEnds(p)
      PROVE  UNCHANGED killed
  BY <1>4 DEF Boot, ServiceReady, ServiceExits, GroupEnds
<1> QED
  BY <1>1, <1>2, <1>3, <1>4 DEF Next, vars

\* A command ends with a status, unless it is killed.
LEMMA AnswerLemma ==
    ASSUME Types, [Next]_vars, NEW c \in Cmd, cmd[c].pc # "idle", cmd'[c].pc = "idle",
           killed' = killed
    PROVE  /\ StatusRunning(c) \/ StatusNone(c) \/ StatusUnlink(c)
           /\ \A d \in Cmd : ~Spawn(d)
<1>1. ASSUME NEW d \in Cmd, Call(d) PROVE FALSE
  <2>1. CASE d = c
    BY <1>1, <2>1 DEF Call, At
  <2>2. CASE d # c
    BY <1>1, <2>2, CallEffect
  <2> QED
    BY <2>1, <2>2
<1>2. ASSUME NEW d \in Cmd, Killed(d) PROVE FALSE
  BY <1>2 DEF Killed, Types
<1>3. ASSUME NEW d \in Cmd, Step(d), d # c PROVE FALSE
  BY <1>3 DEF Types, Command, Step, StatusRead, StatusRunning, StatusStale, StatusNone,
              StatusUnlink, Spawn, TruncatePidFile, WritePidFile, WaitReady,
              WaitTimeout, StopRead, StopTerm, StopWaited, StopDeadline, StopUnlink,
              Goto, Answer, Unlink, At
<1>4. ASSUME Step(c) PROVE StatusRunning(c) \/ StatusNone(c) \/ StatusUnlink(c)
  BY <1>4 DEF Types, Command, Step, StatusRead, StatusStale, Spawn, TruncatePidFile,
              WritePidFile,
              WaitReady, WaitTimeout, StopRead, StopTerm, StopWaited, StopDeadline, StopUnlink,
              Goto, Unlink, At
<1>5. ASSUME NEW d \in Cmd, Spawn(d) PROVE FALSE
  BY <1>5 DEF Types, Command, Spawn
<1>6. ASSUME UNCHANGED cmd PROVE FALSE
  BY <1>6
<1>7. ASSUME NEW p \in Pid, Boot(p) \/ ServiceReady(p) \/ ServiceExits(p) \/ GroupEnds(p)
      PROVE  FALSE
  BY <1>7 DEF Boot, ServiceReady, ServiceExits, GroupEnds
<1> QED
  BY <1>1, <1>2, <1>3, <1>4, <1>5, <1>6, <1>7 DEF Next, vars

\* A stop, and a start that raises, leave nothing alive that any start has
\* spawned, however many came before.
THEOREM StopIsFinal == Spec => StoppedMeansStopped
<1> DEFINE Ends(c) == /\ cmd[c].op = "stop" \/ cmd[c].after = "failed"
                      /\ cmd[c].pc # "idle" /\ cmd'[c].pc = "idle"
                      /\ ~overlap /\ killed' = 0
<1>1. ASSUME Inv, [Next]_vars, NEW c \in Cmd, Ends(c)
      PROVE  \A p \in Pid : ~Live(p)'
  <2>1. Types /\ Flow
    BY <1>1 DEF Inv
  <2>2. killed = 0
    BY <1>1, <2>1, KilledGrows DEF Types
  <2>3. Known(c)
    BY <1>1, <2>2 DEF Inv, Quiet, InTurn
  <2>4. /\ StatusRunning(c) \/ StatusNone(c) \/ StatusUnlink(c)
        /\ \A d \in Cmd : ~Spawn(d)
    BY <1>1, <2>1, <2>2, AnswerLemma
  <2>5. NoneLive
    BY <1>1, <2>1, <2>3, <2>4 DEF Known, NoneLive, StatusRunning, StatusNone,
                                  StatusUnlink, At
  <2> QED
    BY <1>1, <2>1, <2>4, <2>5, FewerLive DEF NoneLive
<1>2. Inv /\ [Next]_vars => [\A c \in Cmd : Ends(c) => \A p \in Pid : ~Live(p)']_vars
  BY <1>1
<1> QED
  BY <1>2, Invariance, PTL DEF Spec, StoppedMeansStopped
================================================================================
