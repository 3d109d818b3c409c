--------------------------------- MODULE AHCIPort -------------------------------
(* SATAPort (sys/sata_port.cpp) as the driver of an AHCI port: how it starts the *)
(* port's engine, hands it a command, waits for it and stops the engine again,   *)
(* while the controller and the device run on their own. Nothing else in the     *)
(* kernel is concurrent.                                                         *)
(*                                                                               *)
(* A register access is one step of the processor; the controller and the device *)
(* take their steps in between. They are external: they do what the driver waits *)
(* for, or report an error. A command is the set of sectors it is to transfer,   *)
(* and it makes no difference here in which direction.                           *)
EXTENDS DiskCommand, FiniteSets

CONSTANTS
  NumberSlots,   \* the number of command slots the controller reports
  QueueDepth,    \* dev_info_[75] & 0x1F
  MaxLen,        \* bound: sectors of one command
  Info,          \* stands for the page of identification data
  None

ASSUME AHCIPortAssumption ==
  /\ NumberSlots \in Nat /\ QueueDepth \in Nat /\ MaxLen \in Nat \ {0}
  /\ Info \notin Nat

VARIABLES
  port,      \* the registers: st and fre, bits 0 and 4 of cmd_status_, which the driver
             \* sets, fr and cr, bits 14 and 15, with which the controller follows them;
             \* ci, the slots in cmd_issue_; bsy, in task_file_data_; err, an error bit
             \* in int_status_ or sata_error_
  fis_err,   \* STATUS_ERR in received_fis_
  table,     \* the command table of each slot
  exec,      \* the command that the device executes: its slot and the sectors left
  halted,    \* the controller has stopped at a failed command
  max_lba,   \* max_lba_, which is garbage if the device was not identified
  pc,        \* where the driver stands
  op,        \* the running operation and its sectors
  slot,      \* free_slot
  ok,        \* what the operation returns
  moved,     \* history: the sectors transferred since it began
  before,    \* history: OpFailed when it began
  gpt        \* what of the partition table the constructor is to read: "header",
             \* "entries", or "none" when it has returned

driver   == <<max_lba, pc, op, slot, ok, before, gpt>>
hardware == <<port, fis_err, exec, halted>>
vars     == <<driver, hardware, table, moved>>

Slots == 0 .. NumberSlots
Limits == {MaxLba, 0, -1}
Op(cmd, a, n) == [cmd |-> cmd, a |-> a, n |-> n]

\* The sectors of an operation.
Data(o) == CASE o.cmd = "transfer" -> o.a .. o.a + o.n - 1
             [] o.cmd = "identify" -> {Info}
             [] OTHER -> {}

OpInProgress == slot \in port.ci

OpFailed == fis_err \/ port.err

\* The first clear bit of cmd_issue_, of which only as many bits are looked at as the
\* queue is deep. (Before IdentifyDevice the depth is garbage, but cmd_issue_ is clear.)
FirstFreeSlot ==
  LET taken == {s \in port.ci : s < QueueDepth}
  IN  CHOOSE s \in 0 .. NumberSlots + 1 : s \notin taken /\ \A r \in 0 .. s - 1 : r \in taken

--------------------------------------------------------------------------------
(* The driver. The port is as the firmware has left it.                          *)

Init ==
  /\ port \in [st : BOOLEAN, fre : BOOLEAN, fr : BOOLEAN, cr : BOOLEAN,
               ci : SUBSET Slots, bsy : BOOLEAN, err : BOOLEAN]
  /\ ~port.st => port.ci = {}
  /\ fis_err \in BOOLEAN
  /\ exec \in {None} \union {[slot |-> s, secs |-> {0}] : s \in port.ci}
  /\ exec # None => port.cr /\ port.bsy
  /\ table = [s \in Slots |-> {}] /\ halted = FALSE
  /\ max_lba = -1
  /\ pc = "suspend" /\ op = Op("configure", 0, 0)
  /\ slot = 0 /\ ok = FALSE /\ moved = {} /\ before = FALSE
  /\ gpt = "header"

Goto(next) == pc' = next

\* GetDiskCapacity asks the device as long as max_lba_ is -1, and nothing is done with
\* the answer.
Begin(a, n) ==
  /\ op' = Op(IF max_lba = -1 THEN "capacity" ELSE "transfer", a, n)
  /\ Goto(IF max_lba = -1 THEN "setup" ELSE "limit")
  /\ ok' = FALSE /\ moved' = {} /\ before' = OpFailed
  /\ UNCHANGED <<hardware, table, max_lba, slot>>

\* The operations of a port that is at rest.
DiskReadWrite(a, n) == pc = "idle" /\ Begin(a, n) /\ UNCHANGED gpt

Destroy ==
  /\ pc = "idle"
  /\ op' = Op("destroy", 0, 0) /\ Goto("suspend")
  /\ UNCHANGED <<hardware, table, max_lba, slot, ok, moved, before, gpt>>

\* Compared as unsigned numbers: -1 is no limit.
CheckLimit ==
  /\ pc = "limit"
  /\ Goto(IF max_lba = -1 \/ op.a <= max_lba THEN "setup" ELSE "return")
  /\ UNCHANGED <<hardware, table, max_lba, op, slot, ok, moved, before, gpt>>

SetupReadWrite ==
  /\ pc = "setup" /\ FirstFreeSlot <= NumberSlots
  /\ slot' = FirstFreeSlot
  /\ table' = [table EXCEPT ![slot'] = Data(op)]
  /\ Goto("busy")
  /\ UNCHANGED <<hardware, max_lba, op, ok, moved, before, gpt>>

WhileBusy ==
  /\ pc = "busy" /\ ~port.bsy
  /\ Goto("activate")
  /\ UNCHANGED <<hardware, table, max_lba, op, slot, ok, moved, before, gpt>>

\* From one register access to the next.
Write(at, next, registers) ==
  /\ pc = at /\ Goto(next)
  /\ port' = registers
  /\ UNCHANGED <<fis_err, exec, halted, table, max_lba, op, slot, ok, moved, before, gpt>>

ActivateCommands ==
  \/ ~port.cr /\ Write("activate", "start", [port EXCEPT !.fre = TRUE])
  \/ Write("start", "issue", [port EXCEPT !.st = TRUE])

IssueCommand == Write("issue", "poll", [port EXCEPT !.ci = @ \union {slot}])

\* Mutants of Finished: an error does not end the wait, and the busy bit is taken for the
\* command.
FinishedWithoutError == ~OpInProgress
FinishedNotBusy == ~port.bsy \/ OpFailed

Finished == ~OpInProgress \/ OpFailed

Poll ==
  /\ pc = "poll" /\ Finished
  /\ Goto("check")
  /\ UNCHANGED <<hardware, table, max_lba, op, slot, ok, moved, before, gpt>>

Check ==
  /\ pc = "check"
  /\ ok' = ~OpFailed /\ Goto("suspend")
  /\ UNCHANGED <<hardware, table, max_lba, op, slot, moved, before, gpt>>

\* Clearing st withdraws the commands.
SuspendCommands ==
  \/ Write("suspend", "receive", [port EXCEPT !.st = FALSE, !.ci = IF port.st THEN {} ELSE @])
  \/ Write("receive", "stop", [port EXCEPT !.fre = FALSE])

\* Mutant of Stopped: the controller is given no time.
StoppedAtOnce == TRUE

Stopped == ~port.fr /\ ~port.cr

\* Where SuspendCommands returns to. Configure clears received_fis_ and the command
\* tables.
Configured ==
  /\ op.cmd = "configure" /\ op' = Op("identify", 0, 0)
  /\ Goto("setup")
  /\ fis_err' = FALSE /\ moved' = {}
  /\ table' = [s \in Slots |-> {}]
  /\ UNCHANGED max_lba

\* max_lba_ is taken from dev_info_, whether it was filled or not.
Identified ==
  /\ op.cmd = "identify" /\ Goto("gpt")
  /\ max_lba' \in IF moved = {Info} THEN {MaxLba} ELSE Limits
  /\ UNCHANGED <<op, fis_err, moved, table>>

CapacityAsked ==
  /\ op.cmd = "capacity" /\ op' = [op EXCEPT !.cmd = "transfer"]
  /\ Goto("limit")
  /\ UNCHANGED <<max_lba, fis_err, moved, table>>

Transferred ==
  /\ op.cmd = "transfer" /\ Goto("return")
  /\ UNCHANGED <<max_lba, op, fis_err, moved, table>>

Destroyed ==
  /\ op.cmd = "destroy" /\ Goto("gone")
  /\ UNCHANGED <<max_lba, op, fis_err, moved, table>>

Suspended ==
  /\ pc = "stop" /\ Stopped
  /\ Configured \/ Identified \/ CapacityAsked \/ Transferred \/ Destroyed
  /\ UNCHANGED <<port, exec, halted, slot, ok, before, gpt>>

Return ==
  /\ pc = "return" /\ gpt = "none" /\ Goto("idle")
  /\ UNCHANGED <<hardware, table, max_lba, op, slot, ok, moved, before, gpt>>

\* The end of the constructor. A header that could not be read is read through a null
\* pointer; one with the right signature says where the entries are, and whether these
\* were read is not looked at.
ReadHeader == pc = "gpt" /\ Begin(1, 1) /\ UNCHANGED gpt

ReadGPT ==
  /\ pc = "return"
  /\ \/ gpt = "header" /\ ~ok /\ Goto("fault") /\ UNCHANGED <<op, ok, moved, before, gpt>>
     \/ gpt = "header" /\ ok /\ gpt' = "none" /\ Goto("idle") /\ UNCHANGED <<op, ok, moved, before>>
     \/ /\ gpt = "header" /\ ok /\ gpt' = "entries"
        /\ \E a \in 2 .. MaxLba + 1 : Begin(a, MaxLen)
     \/ gpt = "entries" /\ gpt' = "none" /\ Goto("idle") /\ UNCHANGED <<op, ok, moved, before>>
  /\ UNCHANGED <<hardware, table, max_lba, slot>>

Driver ==
  \/ CheckLimit \/ SetupReadWrite \/ WhileBusy
  \/ ActivateCommands \/ IssueCommand
  \/ Poll \/ Check
  \/ SuspendCommands \/ Suspended \/ Return
  \/ ReadHeader \/ ReadGPT

--------------------------------------------------------------------------------
(* The controller and the device.                                                *)

Receiver ==
  /\ port.fr # port.fre
  /\ port' = [port EXCEPT !.fr = port.fre]
  /\ UNCHANGED <<driver, fis_err, exec, halted, table, moved>>

StartEngine ==
  /\ port.st /\ ~port.cr
  /\ port' = [port EXCEPT !.cr = TRUE]
  /\ UNCHANGED <<driver, fis_err, exec, halted, table, moved>>

\* The command that is executed is dropped, and the device stays busy for a while.
StopEngine ==
  /\ ~port.st /\ port.cr
  /\ port' = [port EXCEPT !.cr = FALSE]
  /\ exec' = None /\ halted' = FALSE
  /\ UNCHANGED <<driver, fis_err, table, moved>>

DropBusy ==
  /\ port.bsy /\ exec = None
  /\ port' = [port EXCEPT !.bsy = FALSE]
  /\ UNCHANGED <<driver, fis_err, exec, halted, table, moved>>

Fetch ==
  /\ port.cr /\ ~port.bsy /\ ~halted
  /\ \E s \in port.ci : exec' = [slot |-> s, secs |-> table[s]]
  /\ port' = [port EXCEPT !.bsy = TRUE]
  /\ UNCHANGED <<driver, fis_err, halted, table, moved>>

Transfer ==
  /\ exec # None
  /\ \E k \in exec.secs \intersect (OnDisk \union {Info}) :
       /\ moved' = moved \union {k}
       /\ exec' = [exec EXCEPT !.secs = @ \ {k}]
  /\ UNCHANGED <<driver, port, fis_err, halted, table>>

Complete ==
  /\ exec # None /\ exec.secs = {}
  /\ port' = [port EXCEPT !.bsy = FALSE, !.ci = @ \ {exec.slot}]
  /\ exec' = None /\ fis_err' = FALSE
  /\ UNCHANGED <<driver, halted, table, moved>>

\* The device may fail at any time, and does for a sector it does not have. The slot
\* stays in cmd_issue_.
Fail ==
  /\ exec # None
  /\ port' = [port EXCEPT !.bsy = FALSE, !.err = TRUE]
  /\ exec' = None /\ fis_err' = TRUE /\ halted' = TRUE
  /\ UNCHANGED <<driver, table, moved>>

\* An error of the link, which shows in sata_error_ only.
LinkError ==
  /\ port' = [port EXCEPT !.err = TRUE]
  /\ UNCHANGED <<driver, fis_err, exec, halted, table, moved>>

Execute == Transfer \/ Complete \/ Fail
Device == Receiver \/ StartEngine \/ StopEngine \/ DropBusy \/ Fetch \/ Execute \/ LinkError

Next ==
  \/ \E a \in 0 .. MaxLba + 1, n \in 1 .. MaxLen : DiskReadWrite(a, n)
  \/ Destroy
  \/ Driver
  \/ Device

Spec == Init /\ [][Next]_vars

\* The driver has no timeout: that its waits end is for the controller, which follows the
\* bits of cmd_status_, and the device, which completes a command or reports an error.
FairSpec ==
  /\ Spec /\ WF_vars(Driver)
  /\ WF_vars(Receiver) /\ WF_vars(StartEngine) /\ WF_vars(StopEngine)
  /\ WF_vars(DropBusy) /\ WF_vars(Fetch) /\ WF_vars(Execute)

--------------------------------------------------------------------------------
\* DiskReadWrite returns only what DiskCommand says, on which the cache is built: true only
\* when each sector asked for was transferred and no other, in this call; false only when
\* an error bit is set, which stays, or the address is beyond the disk. Whenever the error
\* came: before the call, while the device was at work, between the two looks at OpFailed,
\* or after the last of them; also when max_lba_ is garbage (IdentifyDevice), since then
\* an error bit is set.
ReturnsOutcome ==
  pc = "return" =>
    \E r \in DiskReadWriteOutcomes(before, op.a, op.n) :
      r.done = moved /\ r.ok = ok /\ (r.errored => OpFailed)

\* Between operations, and after the destructor, which frees the command tables, the
\* engine is at rest (SuspendCommands): the device does not touch the buffer of a call that
\* has returned, in particular of one that gave up on a command that was being executed.
QuietBetweenCalls ==
  pc \in {"setup", "gpt", "idle", "return", "gone"} => ~port.cr /\ ~port.fr /\ exec = None

\* Every operation returns (the loops of ActivateCommands, SuspendCommands and
\* DiskReadWrite end), whatever state the firmware left the port in and whatever fails;
\* only the constructor faults when it cannot read the partition table.
AtRest == pc \in {"idle", "gone"} \/ (pc = "fault" /\ gpt = "header")
OperationsReturn == ~AtRest ~> AtRest

================================================================================
