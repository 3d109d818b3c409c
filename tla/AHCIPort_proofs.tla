----------------------------- MODULE AHCIPort_proofs ----------------------------
(* That the driver's calls have no outcome but those of DiskCommand, and that the *)
(* engine of the port is at rest between them, for a disk of any size, any number *)
(* of command slots, and whatever the controller and the device do in between.   *)
EXTENDS AHCIPort, TLAPS

Commands == {"configure", "identify", "capacity", "transfer", "destroy"}
Resting  == {"setup", "gpt", "idle", "return", "gone", "limit", "busy", "activate", "fault"}
Stopping == {"suspend", "receive", "stop"}
Working  == {"start", "issue", "poll", "check"}

Transferable == Nat \union {Info}

Registers == [st : BOOLEAN, fre : BOOLEAN, fr : BOOLEAN, cr : BOOLEAN,
              ci : SUBSET Slots, bsy : BOOLEAN, err : BOOLEAN]

\* The values of the variables.
Typed ==
  /\ port \in Registers
  /\ fis_err \in BOOLEAN /\ halted \in BOOLEAN
  /\ table \in [Slots -> SUBSET Transferable]
  /\ exec \in {None} \union [slot : Slots, secs : SUBSET Transferable]
  /\ max_lba \in Limits
  /\ pc \in Resting \union Stopping \union Working
  /\ op \in [cmd : Commands, a : Nat, n : Nat]
  /\ slot \in Slots
  /\ ok \in BOOLEAN /\ before \in BOOLEAN
  /\ moved \subseteq Transferable
  /\ gpt \in {"header", "entries", "none"}

\* The engine. A command is executed only while it runs, and is issued only to an engine
\* that is started; SuspendCommands has seen it stop wherever pc is in Resting.
Engine ==
  /\ exec # None => port.cr /\ port.bsy
  /\ ~port.st => port.ci = {}
  /\ pc \in Resting => ~port.st /\ ~port.fre /\ ~port.cr /\ ~port.fr /\ exec = None
  /\ pc = "start" => ~port.st /\ ~port.cr
  /\ pc = "issue" => port.st /\ port.ci = {} /\ exec = None
  /\ pc \in {"receive", "stop"} => ~port.st
  /\ pc = "stop" => ~port.fre

\* Which operation can be where.
Calls ==
  /\ op.cmd = "configure" => pc \in Stopping
  /\ op.cmd = "capacity" => max_lba = -1 /\ pc \notin {"limit", "return", "idle", "gpt"}
  /\ op.cmd = "identify" => pc \notin {"limit", "return", "idle"}
  /\ op.cmd = "destroy" => pc \in Stopping \union {"gone"}
  /\ pc \in {"return", "limit"} => op.cmd = "transfer"
  /\ pc = "gpt" => op.cmd = "identify"
  /\ op.cmd \in {"capacity", "transfer"} => op.n > 0

\* Errors stay: received_fis_ says nothing that the port does not, once Configure has
\* cleared it, and IdentifyDevice goes wrong only with an error.
Errors ==
  /\ op.cmd # "configure" => (fis_err => port.err)
  /\ before => port.err
  /\ op.cmd \in {"capacity", "transfer"} \/ pc \in {"gpt", "idle"} =>
       (max_lba # MaxLba => port.err)
  /\ op.cmd \in {"capacity", "transfer"} /\ max_lba # MaxLba => ~ok
  /\ ok => ~before
  /\ pc = "limit" => ~ok

Asking == op.cmd \in {"identify", "capacity", "transfer"}

\* The command of the running operation: what it has moved, and that it leaves
\* cmd_issue_ only when all is moved.
Progress ==
  /\ moved \subseteq OnDisk \union {Info}
  /\ Asking =>
       /\ pc \in {"limit", "setup", "busy", "activate", "start", "issue"} => moved = {}
       /\ pc \in {"busy", "activate", "start", "issue", "poll", "check", "suspend"} =>
            table[slot] = Data(op)
       /\ pc \in {"poll", "check", "suspend"} => port.ci \subseteq {slot}
       /\ moved \subseteq Data(op)
       /\ exec # None => exec.slot = slot /\ exec.secs \union moved = Data(op)
       /\ pc = "poll" => slot \in port.ci \/ (exec = None /\ moved = Data(op))
       /\ pc \in {"check"} \union Stopping =>
            port.err \/ (exec = None /\ port.ci = {} /\ moved = Data(op))
       /\ pc \in Stopping \union {"return"} /\ ok => exec = None /\ port.ci = {} /\ moved = Data(op)
       /\ pc \in Stopping \union {"return"} /\ ~ok =>
            port.err \/ (pc = "return" /\ moved = {} /\ op.a > MaxLba)

IInv == Typed /\ Engine /\ Calls /\ Errors /\ Progress

--------------------------------------------------------------------------------
\* A register is written and the others keep their values.
LEMMA RegistersWritten ==
  ASSUME NEW p \in Registers, NEW b \in BOOLEAN, NEW c \in SUBSET Slots
  PROVE  /\ [p EXCEPT !.st = b] \in Registers /\ [p EXCEPT !.fre = b] \in Registers
         /\ [p EXCEPT !.fr = b] \in Registers /\ [p EXCEPT !.cr = b] \in Registers
         /\ [p EXCEPT !.ci = c] \in Registers /\ [p EXCEPT !.bsy = b] \in Registers
         /\ [p EXCEPT !.err = b] \in Registers
         /\ [p EXCEPT !.st = b, !.ci = c] \in Registers
         /\ [p EXCEPT !.bsy = b, !.ci = c] \in Registers
         /\ [p EXCEPT !.bsy = FALSE, !.err = b] \in Registers
BY DEF Registers

LEMMA RegisterTypes ==
  ASSUME NEW p \in Registers
  PROVE  /\ p.st \in BOOLEAN /\ p.fre \in BOOLEAN /\ p.fr \in BOOLEAN /\ p.cr \in BOOLEAN
         /\ p.bsy \in BOOLEAN /\ p.err \in BOOLEAN /\ p.ci \subseteq Slots
BY DEF Registers

\* cmd_issue_ is clear when a command is set up, so that its first slot is taken.
LEMMA FirstFreeSlotIsZero ==
  ASSUME Typed, port.ci = {}
  PROVE  FirstFreeSlot = 0 /\ 0 \in Slots
BY AHCIPortAssumption DEF FirstFreeSlot, Slots, Typed, Registers

\* Every step keeps the variables in their types.
LEMMA TypedStep ==
  ASSUME IInv, [Next]_vars
  PROVE  Typed'
<1> USE AHCIPortAssumption, DiskCommandAssumption DEF IInv, Typed, Slots, Limits, Commands, Resting, Stopping, Working, Transferable, driver, hardware, vars
<1>1. ASSUME NEW a \in 0 .. MaxLba + 1, NEW n \in 1 .. MaxLen, DiskReadWrite(a, n)
       PROVE  Typed'
  <2>1. a \in Nat /\ n \in Nat
    OBVIOUS
  <2>2. Begin(a, n) /\ UNCHANGED gpt
    BY <1>1 DEF DiskReadWrite
  <2>3. op' \in [cmd : Commands, a : Nat, n : Nat]
    BY <2>1, <2>2 DEF Begin, Op
  <2>4. before' \in BOOLEAN
    BY <2>2, RegisterTypes DEF Begin, OpFailed
  <2> QED
    BY <2>2, <2>3, <2>4 DEF Begin, Goto
<1>2. CASE Destroy
  BY <1>2 DEF Destroy, Op, Goto
<1>3. CASE CheckLimit
  BY <1>3 DEF CheckLimit, Goto
<1>4. CASE SetupReadWrite
  <2>1. FirstFreeSlot = 0 /\ 0 \in Slots /\ slot' = 0
    BY <1>4, FirstFreeSlotIsZero DEF SetupReadWrite, Engine
  <2>2. Data(op) \in SUBSET Transferable
    BY DEF Data
  <2> QED
    BY <1>4, <2>1, <2>2 DEF SetupReadWrite, Goto
<1>5. CASE WhileBusy
  BY <1>5 DEF WhileBusy, Goto
<1>6. CASE ActivateCommands
  <2>1. port' \in Registers
    BY <1>6, RegistersWritten DEF ActivateCommands, Write, Goto, Engine, Slots
  <2> QED
    BY <1>6, <2>1 DEF ActivateCommands, Write, Goto
<1>7. CASE IssueCommand
  <2>1. port' \in Registers
    BY <1>7, RegistersWritten DEF IssueCommand, Write, Goto, Engine, Slots
  <2> QED
    BY <1>7, <2>1 DEF IssueCommand, Write, Goto
<1>8. CASE Poll
  BY <1>8 DEF Poll, Finished, OpInProgress, OpFailed, Goto
<1>9. CASE Check
  BY <1>9 DEF Check, OpFailed, Goto
<1>10. CASE SuspendCommands
  <2>1. port' \in Registers
    <3>1. [port EXCEPT !.st = FALSE, !.ci = IF port.st THEN {} ELSE @] \in Registers
      BY RegistersWritten, RegisterTypes
    <3> QED
      BY <1>10, <3>1, RegistersWritten DEF SuspendCommands, Write
  <2> QED
    BY <1>10, <2>1 DEF SuspendCommands, Write, Goto
<1>11. CASE Suspended
  <2>1. CASE Configured
    BY <1>11, <2>1 DEF Suspended, Configured, Op, Goto
  <2>2. CASE Identified
    BY <1>11, <2>2 DEF Suspended, Identified, Goto
  <2>3. CASE CapacityAsked
    BY <1>11, <2>3 DEF Suspended, CapacityAsked, Goto
  <2>4. CASE Transferred \/ Destroyed
    BY <1>11, <2>4 DEF Suspended, Transferred, Destroyed, Goto
  <2> QED
    BY <1>11, <2>1, <2>2, <2>3, <2>4 DEF Suspended
<1>12. CASE Return
  BY <1>12 DEF Return, Goto
<1>13. CASE ReadHeader
  <2>1. 1 \in Nat
    OBVIOUS
  <2>2. Begin(1, 1) /\ UNCHANGED gpt
    BY <1>13 DEF ReadHeader
  <2>3. op' \in [cmd : Commands, a : Nat, n : Nat]
    BY <2>1, <2>2 DEF Begin, Op
  <2>4. before' \in BOOLEAN
    BY <2>2, RegisterTypes DEF Begin, OpFailed
  <2> QED
    BY <2>2, <2>3, <2>4 DEF Begin, Goto
<1>14. CASE ReadGPT
  <2>1. CASE \E a \in 2 .. MaxLba + 1 : Begin(a, MaxLen) /\ gpt' = "entries"
    <3>1. PICK a \in 2 .. MaxLba + 1 : Begin(a, MaxLen) /\ gpt' = "entries"
      BY <2>1
    <3>2. a \in Nat /\ MaxLen \in Nat
      OBVIOUS
    <3>3. op' \in [cmd : Commands, a : Nat, n : Nat]
      BY <3>2, <3>1 DEF Begin, Op
    <3>4. before' \in BOOLEAN
      BY <3>1, RegisterTypes DEF Begin, OpFailed
    <3> QED
      BY <3>1, <3>3, <3>4 DEF Begin, Goto
  <2>2. CASE pc' \in {"fault", "idle"} /\ gpt' \in {gpt, "none"} /\ UNCHANGED <<hardware, table, max_lba, slot, op, ok, moved, before>>
    BY <2>2
  <2> QED
    BY <1>14, <2>1, <2>2 DEF ReadGPT, Goto
<1>15. CASE Receiver
  <2>1. port' \in Registers
    BY <1>15, RegistersWritten, RegisterTypes DEF Receiver
  <2> QED
    BY <1>15, <2>1 DEF Receiver
<1>16. CASE StartEngine
  <2>1. port' \in Registers
    BY <1>16, RegistersWritten DEF StartEngine, Engine, Slots
  <2> QED
    BY <1>16, <2>1 DEF StartEngine
<1>17. CASE StopEngine
  <2>1. port' \in Registers
    BY <1>17, RegistersWritten DEF StopEngine, Engine, Slots
  <2> QED
    BY <1>17, <2>1 DEF StopEngine
<1>18. CASE DropBusy
  <2>1. port' \in Registers
    BY <1>18, RegistersWritten DEF DropBusy, Engine, Slots
  <2> QED
    BY <1>18, <2>1 DEF DropBusy
<1>19. CASE Fetch
  <2>1. port' \in Registers
    BY <1>19, RegistersWritten DEF Fetch
  <2>2. PICK s \in port.ci : exec' = [slot |-> s, secs |-> table[s]]
    BY <1>19 DEF Fetch
  <2>3. s \in 0 .. NumberSlots /\ table[s] \in SUBSET Transferable
    BY RegisterTypes
  <2>4. exec' \in [slot : Slots, secs : SUBSET Transferable]
    BY <2>2, <2>3
  <2> QED
    BY <1>19, <2>1, <2>4 DEF Fetch
<1>20. CASE Transfer
  BY <1>20 DEF Transfer
<1>21. CASE Complete
  <2>1. port.ci \ {exec.slot} \in SUBSET Slots
    BY RegisterTypes
  <2>2. port' \in Registers
    BY <1>21, <2>1, RegistersWritten DEF Complete
  <2> QED
    BY <1>21, <2>2 DEF Complete
<1>22. CASE Fail
  <2>1. port' \in Registers
    BY <1>22, RegistersWritten DEF Fail, Engine, Slots
  <2> QED
    BY <1>22, <2>1 DEF Fail
<1>23. CASE LinkError
  <2>1. port' \in Registers
    BY <1>23, RegistersWritten DEF LinkError, Engine, Slots
  <2> QED
    BY <1>23, <2>1 DEF LinkError
<1>24. CASE UNCHANGED vars
  BY <1>24 DEF vars
<1> QED
  BY <1>1, <1>2, <1>3, <1>4, <1>5, <1>6, <1>7, <1>8, <1>9, <1>10, <1>11, <1>12, <1>13, <1>14, <1>15, <1>16, <1>17, <1>18, <1>19, <1>20, <1>21, <1>22, <1>23, <1>24 DEF Next, Driver, Device, Execute

\* No step lets a command be executed by an engine that the driver has seen stop, or issues
\* one to an engine that is not started.
LEMMA EngineStep ==
  ASSUME IInv, [Next]_vars
  PROVE  Engine'
<1> USE AHCIPortAssumption, DiskCommandAssumption DEF IInv, Engine, Typed, Registers, Resting, Stopping, Working, driver, hardware, vars
<1>1. ASSUME NEW a \in 0 .. MaxLba + 1, NEW n \in 1 .. MaxLen, DiskReadWrite(a, n)
       PROVE  Engine'
  BY <1>1 DEF DiskReadWrite, Begin, OpFailed, Op, Goto
<1>2. CASE Destroy
  BY <1>2 DEF Destroy, Op, Goto
<1>3. CASE CheckLimit
  BY <1>3 DEF CheckLimit, Goto
<1>4. CASE SetupReadWrite
  BY <1>4 DEF SetupReadWrite, Goto
<1>5. CASE WhileBusy
  BY <1>5 DEF WhileBusy, Goto
<1>6. CASE ActivateCommands
  BY <1>6 DEF ActivateCommands, Write, Goto
<1>7. CASE IssueCommand
  BY <1>7 DEF IssueCommand, Write, Goto
<1>8. CASE Poll
  BY <1>8 DEF Poll, Finished, OpInProgress, OpFailed, Goto
<1>9. CASE Check
  BY <1>9 DEF Check, OpFailed, Goto
<1>10. CASE SuspendCommands
  BY <1>10 DEF SuspendCommands, Write, Goto
<1>11. CASE Suspended
  BY <1>11 DEF Suspended, Stopped, Configured, Identified, CapacityAsked, Transferred, Destroyed, Op, Goto
<1>12. CASE Return
  BY <1>12 DEF Return, Goto
<1>13. CASE ReadHeader
  BY <1>13 DEF ReadHeader, Begin, OpFailed, Op, Goto
<1>14. CASE ReadGPT
  BY <1>14 DEF ReadGPT, Begin, OpFailed, Op, Goto
<1>15. CASE Receiver
  BY <1>15 DEF Receiver
<1>16. CASE StartEngine
  BY <1>16 DEF StartEngine
<1>17. CASE StopEngine
  BY <1>17 DEF StopEngine
<1>18. CASE DropBusy
  BY <1>18 DEF DropBusy
<1>19. CASE Fetch
  BY <1>19 DEF Fetch
<1>20. CASE Transfer
  BY <1>20 DEF Transfer
<1>21. CASE Complete
  BY <1>21 DEF Complete
<1>22. CASE Fail
  BY <1>22 DEF Fail
<1>23. CASE LinkError
  BY <1>23 DEF LinkError
<1>24. CASE UNCHANGED vars
  BY <1>24 DEF vars
<1> QED
  BY <1>1, <1>2, <1>3, <1>4, <1>5, <1>6, <1>7, <1>8, <1>9, <1>10, <1>11, <1>12, <1>13, <1>14, <1>15, <1>16, <1>17, <1>18, <1>19, <1>20, <1>21, <1>22, <1>23, <1>24 DEF Next, Driver, Device, Execute

\* The driver comes to each place only with the operations that lead there.
LEMMA CallsStep ==
  ASSUME IInv, [Next]_vars
  PROVE  Calls'
<1> USE AHCIPortAssumption, DiskCommandAssumption DEF IInv, Calls, Typed, Registers, Resting, Stopping, Working, Commands, driver, hardware, vars
<1>1. ASSUME NEW a \in 0 .. MaxLba + 1, NEW n \in 1 .. MaxLen, DiskReadWrite(a, n)
       PROVE  Calls'
  BY <1>1 DEF DiskReadWrite, Begin, OpFailed, Op, Goto
<1>2. CASE Destroy
  BY <1>2 DEF Destroy, Op, Goto
<1>3. CASE CheckLimit
  BY <1>3 DEF CheckLimit, Goto
<1>4. CASE SetupReadWrite
  BY <1>4 DEF SetupReadWrite, Goto
<1>5. CASE WhileBusy
  BY <1>5 DEF WhileBusy, Goto
<1>6. CASE ActivateCommands
  BY <1>6 DEF ActivateCommands, Write, Goto
<1>7. CASE IssueCommand
  BY <1>7 DEF IssueCommand, Write, Goto
<1>8. CASE Poll
  BY <1>8 DEF Poll, Finished, OpInProgress, OpFailed, Goto
<1>9. CASE Check
  BY <1>9 DEF Check, OpFailed, Goto
<1>10. CASE SuspendCommands
  BY <1>10 DEF SuspendCommands, Write, Goto
<1>11. CASE Suspended
  BY <1>11 DEF Suspended, Stopped, Configured, Identified, CapacityAsked, Transferred, Destroyed, Op, Goto
<1>12. CASE Return
  BY <1>12 DEF Return, Goto
<1>13. CASE ReadHeader
  BY <1>13 DEF ReadHeader, Begin, OpFailed, Op, Goto
<1>14. CASE ReadGPT
  BY <1>14 DEF ReadGPT, Begin, OpFailed, Op, Goto
<1>15. CASE Receiver
  BY <1>15 DEF Receiver
<1>16. CASE StartEngine
  BY <1>16 DEF StartEngine
<1>17. CASE StopEngine
  BY <1>17 DEF StopEngine
<1>18. CASE DropBusy
  BY <1>18 DEF DropBusy
<1>19. CASE Fetch
  BY <1>19 DEF Fetch
<1>20. CASE Transfer
  BY <1>20 DEF Transfer
<1>21. CASE Complete
  BY <1>21 DEF Complete
<1>22. CASE Fail
  BY <1>22 DEF Fail
<1>23. CASE LinkError
  BY <1>23 DEF LinkError
<1>24. CASE UNCHANGED vars
  BY <1>24 DEF vars
<1> QED
  BY <1>1, <1>2, <1>3, <1>4, <1>5, <1>6, <1>7, <1>8, <1>9, <1>10, <1>11, <1>12, <1>13, <1>14, <1>15, <1>16, <1>17, <1>18, <1>19, <1>20, <1>21, <1>22, <1>23, <1>24 DEF Next, Driver, Device, Execute

\* No step takes an error bit back once the port is configured, and a limit that is not the
\* size of the disk is never found without one.
LEMMA ErrorsStep ==
  ASSUME IInv, [Next]_vars
  PROVE  Errors'
<1> USE AHCIPortAssumption, DiskCommandAssumption DEF IInv, Errors, Calls, Progress, Asking, Data, Typed, Registers, Resting, Stopping, Working, Commands, Limits, driver, hardware, vars
<1>1. ASSUME NEW a \in 0 .. MaxLba + 1, NEW n \in 1 .. MaxLen, DiskReadWrite(a, n)
       PROVE  Errors'
  BY <1>1 DEF DiskReadWrite, Begin, OpFailed, Op, Goto
<1>2. CASE Destroy
  BY <1>2 DEF Destroy, Op, Goto
<1>3. CASE CheckLimit
  BY <1>3 DEF CheckLimit, Goto
<1>4. CASE SetupReadWrite
  BY <1>4 DEF SetupReadWrite, Goto
<1>5. CASE WhileBusy
  BY <1>5 DEF WhileBusy, Goto
<1>6. CASE ActivateCommands
  BY <1>6 DEF ActivateCommands, Write, Goto
<1>7. CASE IssueCommand
  BY <1>7 DEF IssueCommand, Write, Goto
<1>8. CASE Poll
  BY <1>8 DEF Poll, Finished, OpInProgress, OpFailed, Goto
<1>9. CASE Check
  BY <1>9 DEF Check, OpFailed, Goto
<1>10. CASE SuspendCommands
  <2>1. CASE Write("suspend", "receive", [port EXCEPT !.st = FALSE, !.ci = IF port.st THEN {} ELSE @])
    BY <2>1 DEF Write, Goto
  <2>2. CASE Write("receive", "stop", [port EXCEPT !.fre = FALSE])
    BY <2>2 DEF Write, Goto
  <2> QED
    BY <1>10, <2>1, <2>2 DEF SuspendCommands
<1>11. CASE Suspended
  BY <1>11 DEF Suspended, Stopped, Configured, Identified, CapacityAsked, Transferred, Destroyed, Op, Goto
<1>12. CASE Return
  BY <1>12 DEF Return, Goto
<1>13. CASE ReadHeader
  BY <1>13 DEF ReadHeader, Begin, OpFailed, Op, Goto
<1>14. CASE ReadGPT
  BY <1>14 DEF ReadGPT, Begin, OpFailed, Op, Goto
<1>15. CASE Receiver
  BY <1>15 DEF Receiver
<1>16. CASE StartEngine
  BY <1>16 DEF StartEngine
<1>17. CASE StopEngine
  BY <1>17 DEF StopEngine
<1>18. CASE DropBusy
  BY <1>18 DEF DropBusy
<1>19. CASE Fetch
  BY <1>19 DEF Fetch
<1>20. CASE Transfer
  BY <1>20 DEF Transfer
<1>21. CASE Complete
  BY <1>21 DEF Complete
<1>22. CASE Fail
  BY <1>22 DEF Fail
<1>23. CASE LinkError
  BY <1>23 DEF LinkError
<1>24. CASE UNCHANGED vars
  BY <1>24 DEF vars
<1> QED
  BY <1>1, <1>2, <1>3, <1>4, <1>5, <1>6, <1>7, <1>8, <1>9, <1>10, <1>11, <1>12, <1>13, <1>14, <1>15, <1>16, <1>17, <1>18, <1>19, <1>20, <1>21, <1>22, <1>23, <1>24 DEF Next, Driver, Device, Execute

\* Every step keeps account of the sectors of the running command: moved, still to be moved,
\* or given up with an error.
LEMMA ProgressStep ==
  ASSUME IInv, [Next]_vars
  PROVE  Progress'
<1> USE AHCIPortAssumption, DiskCommandAssumption DEF IInv, Progress, Asking, Engine, Errors, Calls, Data, Typed, Registers, Resting, Stopping, Working, Commands, Limits, driver, hardware, vars
<1>1. ASSUME NEW a \in 0 .. MaxLba + 1, NEW n \in 1 .. MaxLen, DiskReadWrite(a, n)
       PROVE  Progress'
  BY <1>1 DEF DiskReadWrite, Begin, OpFailed, Op, Goto
<1>2. CASE Destroy
  BY <1>2 DEF Destroy, Op, Goto
<1>3. CASE CheckLimit
  BY <1>3 DEF CheckLimit, Goto
<1>4. CASE SetupReadWrite
  <2>1. FirstFreeSlot = 0 /\ 0 \in Slots /\ slot' = 0
    BY <1>4, FirstFreeSlotIsZero DEF SetupReadWrite
  <2>2. table'[slot'] = Data(op)'
    BY <1>4, <2>1 DEF SetupReadWrite
  <2> QED
    BY <1>4, <2>2 DEF SetupReadWrite, Goto
<1>5. CASE WhileBusy
  BY <1>5 DEF WhileBusy, Goto
<1>6. CASE ActivateCommands
  BY <1>6 DEF ActivateCommands, Write, Goto
<1>7. CASE IssueCommand
  BY <1>7 DEF IssueCommand, Write, Goto
<1>8. CASE Poll
  BY <1>8 DEF Poll, Finished, OpInProgress, OpFailed, Goto
<1>9. CASE Check
  BY <1>9 DEF Check, OpFailed, Goto
<1>10. CASE SuspendCommands
  <2>1. CASE Write("suspend", "receive", [port EXCEPT !.st = FALSE, !.ci = IF port.st THEN {} ELSE @])
    BY <2>1 DEF Write, Goto
  <2>2. CASE Write("receive", "stop", [port EXCEPT !.fre = FALSE])
    BY <2>2 DEF Write, Goto
  <2> QED
    BY <1>10, <2>1, <2>2 DEF SuspendCommands
<1>11. CASE Suspended
  BY <1>11 DEF Suspended, Stopped, Configured, Identified, CapacityAsked, Transferred, Destroyed, Op, Goto
<1>12. CASE Return
  BY <1>12 DEF Return, Goto
<1>13. CASE ReadHeader
  BY <1>13 DEF ReadHeader, Begin, OpFailed, Op, Goto
<1>14. CASE ReadGPT
  BY <1>14 DEF ReadGPT, Begin, OpFailed, Op, Goto
<1>15. CASE Receiver
  BY <1>15 DEF Receiver
<1>16. CASE StartEngine
  BY <1>16 DEF StartEngine
<1>17. CASE StopEngine
  BY <1>17 DEF StopEngine
<1>18. CASE DropBusy
  BY <1>18 DEF DropBusy
<1>19. CASE Fetch
  <2>1. PICK s \in port.ci : exec' = [slot |-> s, secs |-> table[s]]
    BY <1>19 DEF Fetch
  <2>2. Asking => table[s] = Data(op) /\ s = slot
    BY <1>19, <2>1 DEF Fetch
  <2> QED
    BY <1>19, <2>1, <2>2 DEF Fetch
<1>20. CASE Transfer
  BY <1>20 DEF Transfer
<1>21. CASE Complete
  BY <1>21 DEF Complete
<1>22. CASE Fail
  BY <1>22 DEF Fail
<1>23. CASE LinkError
  BY <1>23 DEF LinkError
<1>24. CASE UNCHANGED vars
  BY <1>24 DEF vars
<1> QED
  BY <1>1, <1>2, <1>3, <1>4, <1>5, <1>6, <1>7, <1>8, <1>9, <1>10, <1>11, <1>12, <1>13, <1>14, <1>15, <1>16, <1>17, <1>18, <1>19, <1>20, <1>21, <1>22, <1>23, <1>24 DEF Next, Driver, Device, Execute

--------------------------------------------------------------------------------
\* The invariant holds of a port as the firmware may have left it.
LEMMA InitIInv == Init => IInv
<1> SUFFICES ASSUME Init PROVE IInv
  OBVIOUS
<1> USE AHCIPortAssumption, DiskCommandAssumption DEF Init, Op
<1>1. Typed
  <2>1. exec \in {None} \union [slot : Slots, secs : SUBSET Transferable]
    <3>1. ASSUME NEW s \in port.ci
          PROVE  [slot |-> s, secs |-> {0}] \in [slot : Slots, secs : SUBSET Transferable]
      BY DEF Transferable
    <3> QED
      BY <3>1
  <2>2. port \in Registers /\ table \in [Slots -> SUBSET Transferable] /\ 0 \in Slots
    BY DEF Registers, Slots
  <2> QED
    BY <2>1, <2>2 DEF Typed, Limits, Commands, Stopping
<1>2. Engine
  BY DEF Engine, Resting
<1>3. Calls /\ Errors
  BY DEF Calls, Errors, Stopping
<1>4. Progress
  BY DEF Progress, Asking
<1> QED
  BY <1>1, <1>2, <1>3, <1>4 DEF IInv

\* The inductive invariant: however the steps of the driver, the controller and the device
\* follow each other.
THEOREM Invariant == Spec => []IInv
<1>1. IInv /\ [Next]_vars => IInv'
  BY TypedStep, EngineStep, CallsStep, ErrorsStep, ProgressStep DEF IInv
<1> QED
  BY <1>1, InitIInv, PTL DEF Spec

\* Between operations, and after the destructor, the engine is at rest: SuspendCommands
\* has waited until the controller no longer runs it.
THEOREM Quiet == Spec => []QuietBetweenCalls
<1>1. IInv => QuietBetweenCalls
  BY DEF IInv, Engine, QuietBetweenCalls, Resting
<1> QED
  BY <1>1, Invariant, PTL

\* DiskReadWrite returns with one of the outcomes that DiskCommand lists, on which the
\* sector cache is built, whenever an error came.
THEOREM Outcomes == Spec => []ReturnsOutcome
<1>1. ASSUME IInv, pc = "return"
      PROVE  \E r \in DiskReadWriteOutcomes(before, op.a, op.n) :
               r.done = moved /\ r.ok = ok /\ (r.errored => OpFailed)
  <2> USE <1>1 DEF IInv
  <2>1. /\ op.cmd = "transfer" /\ op.a \in Nat /\ op.n \in Nat /\ op.n > 0
        /\ ok \in BOOLEAN /\ before \in BOOLEAN
    BY DEF Calls, Typed
  <2> DEFINE s == op.a .. op.a + op.n - 1
  <2>2. Data(op) = s /\ moved \subseteq s
    BY <2>1 DEF Data, Progress, Asking
  <2>3. moved \subseteq OnDisk
    BY <2>1, <2>2, AHCIPortAssumption DEF Progress
  <2>4. before => OpFailed
    BY DEF Errors, OpFailed
  <2>5. ~ok => OpFailed \/ (moved = {} /\ op.a > MaxLba)
    BY <2>1 DEF Progress, Asking, Stopping, OpFailed
  <2>6. ok => moved = s /\ ~before
    BY <2>1, <2>2 DEF Progress, Errors, Asking, Stopping
  <2>7. CASE op.a > MaxLba
    <3>1. moved = {} /\ ~ok
      <4>1. s \intersect OnDisk = {} /\ op.a \in s
        BY <2>1, <2>7, DiskCommandAssumption DEF OnDisk
      <4> QED
        BY <4>1, <2>2, <2>3, <2>6
    <3> QED
      BY <2>1, <2>4, <2>7, <3>1 DEF DiskReadWriteOutcomes
  <2>8. CASE op.a <= MaxLba /\ ~ok
    <3>1. moved \in SUBSET (s \intersect OnDisk)
      BY <2>2, <2>3
    <3>2. [done |-> moved, ok |-> FALSE, errored |-> TRUE] \in DiskReadWriteOutcomes(before, op.a, op.n)
      BY <3>1, <2>1, <2>8, DiskCommandAssumption DEF DiskReadWriteOutcomes
    <3>3. ok = FALSE /\ OpFailed
      BY <2>1, <2>5, <2>8, DiskCommandAssumption
    <3> QED
      BY <3>2, <3>3
  <2>9. CASE op.a <= MaxLba /\ ok
    <3>1. moved = s /\ s \subseteq OnDisk /\ ~before
      BY <2>3, <2>6, <2>9
    <3>2. [done |-> moved, ok |-> TRUE, errored |-> FALSE] \in DiskReadWriteOutcomes(before, op.a, op.n)
      BY <3>1, <2>1, <2>9, DiskCommandAssumption DEF DiskReadWriteOutcomes
    <3> QED
      BY <3>2, <2>9
  <2> QED
    BY <2>1, <2>7, <2>8, <2>9, DiskCommandAssumption
<1>2. IInv => ReturnsOutcome
  BY <1>1 DEF ReturnsOutcome
<1> QED
  BY <1>2, Invariant, PTL

================================================================================
