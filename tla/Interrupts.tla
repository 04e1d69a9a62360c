------------------------------ MODULE Interrupts ------------------------------
(***************************************************************************)
(* Simulated time (machine/interrupt.cc, timer.cc): the clock, the sorted  *)
(* list of pending interrupts, and the devices that schedule them, of      *)
(* which the disk (machine/disk.cc) computes when from the position of its *)
(* head and what is in its track buffer.  A step is one call of            *)
(* CheckIfDue, or one thing that a thread does between two of them.        *)
(***************************************************************************)
EXTENDS List

CONSTANTS
    UserTick, SystemTick, ConsoleTime, TimerTicks,
    RotationTime, SeekTime, SectorsPerTrack, NumTracks,
    MaxTicks        \* bound: threads do something only before this time, with
                    \* no timer, a random one and a regular one

ASSUME InterruptsAssumption ==
    /\ {UserTick, SystemTick, ConsoleTime, TimerTicks, RotationTime, SeekTime,
        SectorsPerTrack, NumTracks} \subseteq Nat \ {0}
    /\ MaxTicks \in [{"none", "TRUE", "FALSE"} -> Nat]
    /\ SeekTime % RotationTime = 0

\* new finds an address for one interrupt of each type
ASSUME ElementsAssumption == Cardinality(Elements) >= 3

VARIABLES
    totalTicks,     \* Statistics::totalTicks
    pending,        \* Interrupt::pending: types, by the time they are due
    yieldOnReturn,
    machineStatus,  \* Interrupt::status
    phase,          \* whose call of CheckIfDue is next, or "running"
    runnable,       \* some thread is running or ready
    randomize,      \* Timer::randomize, "none" without a timer
    driveActive,    \* Disk::active
    lastSector,     \* Disk::lastSector
    bufferInit,     \* Disk::bufferInit
    consoleBusy,        \* Console::putBusy
    fired,          \* history: the interrupt last taken, and since when it waits
    served          \* history: the request that the disk is working on

timeVars == <<totalTicks, pending, yieldOnReturn, machineStatus, phase, runnable,
              randomize, driveActive, lastSector, bufferInit, consoleBusy, fired, served>>

IntTypes == {"TimerInt", "DiskInt", "ConsoleWriteInt"}

DiskSectors == 0 .. SectorsPerTrack * NumTracks - 1

-----------------------------------------------------------------------------
(* Schedule, and the timer.                                                *)

\* ASSERT(fromNow > 0) holds of every caller
Scheduled(list, type, fromNow) == SortedInsert(list, type, totalTicks + fromNow)

\* Timer::TimeOfNextInterrupt
NextInterrupts == IF randomize = "TRUE" THEN 1 .. TimerTicks * 2 ELSE {TimerTicks}

TimeInit ==
    /\ totalTicks = 0
    /\ randomize \in {"none", "TRUE", "FALSE"}
    /\ \/ randomize = "none" /\ pending = EmptyList
       \/ randomize # "none"
          /\ \E n \in NextInterrupts : pending = SortedInsert(EmptyList, "TimerInt", n)
    /\ yieldOnReturn = FALSE
    /\ machineStatus = "SystemMode"
    /\ phase = "running"
    /\ runnable = TRUE
    /\ driveActive = FALSE /\ lastSector = 0 /\ bufferInit = 0
    /\ consoleBusy = FALSE
    /\ fired = Nothing
    /\ served = Nothing

-----------------------------------------------------------------------------
(* How long the disk takes.                                                *)

\* Disk::TimeToSeek
TimeToSeek(newSector) ==
    LET newTrack == newSector \div SectorsPerTrack
        oldTrack == lastSector \div SectorsPerTrack
        tracks == Max({newTrack - oldTrack, oldTrack - newTrack})
        seek == tracks * SeekTime
        over == (totalTicks + seek) % RotationTime
    IN  [seek |-> seek, rotation |-> IF over > 0 THEN RotationTime - over ELSE 0]

ModuloDiffSigned(to, from) ==           \* bug: a sector behind is 0 sectors away
    LET d == (to % SectorsPerTrack) - (from % SectorsPerTrack) IN
    IF d < 0 THEN 0 ELSE d

\* Disk::ModuloDiff
ModuloDiff(to, from) ==
    ((to % SectorsPerTrack) - (from % SectorsPerTrack) + SectorsPerTrack) % SectorsPerTrack

\* Disk::ComputeLatency
InTrackBuffer(newSector, writing) ==
    LET t == TimeToSeek(newSector)
        timeAfter == totalTicks + t.seek + t.rotation
    IN  /\ ~ writing /\ t.seek = 0
        /\ (timeAfter - bufferInit) \div RotationTime
              > ModuloDiff(newSector, bufferInit \div RotationTime)

ComputeLatency(newSector, writing) ==
    LET t == TimeToSeek(newSector)
        timeAfter == totalTicks + t.seek + t.rotation
    IN  IF InTrackBuffer(newSector, writing) THEN RotationTime
        ELSE t.seek + t.rotation
             + ModuloDiff(newSector, timeAfter \div RotationTime) * RotationTime
             + RotationTime

-----------------------------------------------------------------------------
(* What threads do.                                                        *)

Running == phase = "running" /\ runnable /\ totalTicks < MaxTicks[randomize]

\* Interrupt::OneTick, up to its loop: an instruction of a user program, or
\* interrupts are enabled
Tick(mode) ==
    /\ Running
    /\ machineStatus' = mode
    /\ totalTicks' = totalTicks + (IF mode = "SystemMode" THEN SystemTick ELSE UserTick)
    /\ phase' = "OneTick"
    /\ UNCHANGED <<pending, yieldOnReturn, runnable, randomize, driveActive, lastSector,
                   bufferInit, consoleBusy, fired, served>>

\* Disk::ReadRequest and WriteRequest, with UpdateLast
DriveRequest(newSector, writing) ==
    LET t == TimeToSeek(newSector)
        ticks == ComputeLatency(newSector, writing)
    IN
    /\ Running /\ ~ driveActive
    /\ driveActive' = TRUE
    /\ pending' = Scheduled(pending, "DiskInt", ticks)
    /\ lastSector' = newSector
    /\ bufferInit' = IF t.seek # 0 THEN totalTicks + t.seek + t.rotation ELSE bufferInit
    /\ served' = [sector |-> newSector, buffered |-> InTrackBuffer(newSector, writing),
                  since |-> bufferInit, requested |-> totalTicks, due |-> totalTicks + ticks]
    /\ UNCHANGED <<totalTicks, yieldOnReturn, machineStatus, phase, runnable, randomize,
                   consoleBusy, fired>>

\* Console::PutChar
PutCharRequest ==
    /\ Running /\ ~ consoleBusy
    /\ consoleBusy' = TRUE
    /\ pending' = Scheduled(pending, "ConsoleWriteInt", ConsoleTime)
    /\ UNCHANGED <<totalTicks, yieldOnReturn, machineStatus, phase, runnable, randomize,
                   driveActive, lastSector, bufferInit, fired, served>>

\* Thread::Sleep of the last thread that was ready
LastSleeps ==
    /\ Running
    /\ runnable' = FALSE
    /\ UNCHANGED <<totalTicks, pending, yieldOnReturn, machineStatus, phase, randomize,
                   driveActive, lastSector, bufferInit, consoleBusy, fired, served>>

\* Interrupt::Idle, called in the loop of Thread::Sleep
IdleStart ==
    /\ phase = "running" /\ ~ runnable
    /\ machineStatus' = "IdleMode"
    /\ phase' = "Idle"
    /\ UNCHANGED <<totalTicks, pending, yieldOnReturn, runnable, randomize, driveActive,
                   lastSector, bufferInit, consoleBusy, fired, served>>

-----------------------------------------------------------------------------
(* CheckIfDue.                                                             *)

Next1 == SortedFirst(pending)

advanceClock == phase = "Idle"

\* the time of the first interrupt has come, or is made to come
DueNow == ~ IsEmptyList(pending) /\ (advanceClock \/ Next1.key <= totalTicks)

TimeOfCheck == IF DueNow /\ Next1.key > totalTicks THEN Next1.key ELSE totalTicks

\* there is nothing more to do: only the timer is left
OnlyTimer ==
    /\ machineStatus = "IdleMode" /\ Next1.item = "TimerInt"
    /\ IsEmptyList(SortedRemove(pending))

PutBackLost == SortedRemove(pending)    \* bug: it is not put back

\* the list with the interrupt that was removed put back
PutBack == SortedInsert(SortedRemove(pending), Next1.item, Next1.key)

\* the handler of the first interrupt runs in SystemMode, with interrupts off
Fire ==
    /\ phase # "running"
    /\ DueNow /\ ~ OnlyTimer
    /\ totalTicks' = TimeOfCheck
    /\ fired' = [item |-> Next1.item, key |-> Next1.key]
    /\ \/ /\ Next1.item = "TimerInt"
          /\ \E n \in NextInterrupts :
                pending' = SortedInsert(SortedRemove(pending), "TimerInt", TimeOfCheck + n)
          /\ yieldOnReturn' = TRUE
          /\ UNCHANGED <<runnable, driveActive, consoleBusy, served>>
       \/ /\ Next1.item = "DiskInt"
          /\ pending' = SortedRemove(pending)
          /\ driveActive' = FALSE
          /\ runnable' = TRUE
          /\ served' = Nothing
          /\ UNCHANGED <<yieldOnReturn, consoleBusy>>
       \/ /\ Next1.item = "ConsoleWriteInt"
          /\ pending' = SortedRemove(pending)
          /\ consoleBusy' = FALSE
          /\ runnable' = TRUE
          /\ UNCHANGED <<yieldOnReturn, driveActive, served>>
    /\ phase' = IF phase = "Idle" THEN "IdleAgain" ELSE phase
    /\ UNCHANGED <<machineStatus, randomize, lastSector, bufferInit>>

\* CheckIfDue returns FALSE: OneTick ends, with the Yield that the timer asked
\* for; Idle ends when it took one before, and otherwise halts the machine
NoneDue ==
    /\ phase # "running"
    /\ ~ DueNow \/ OnlyTimer
    /\ totalTicks' = TimeOfCheck
    /\ pending' = IF IsEmptyList(pending) THEN pending ELSE PutBack
    /\ fired' = Nothing
    /\ yieldOnReturn' = FALSE
    /\ \/ phase = "OneTick" /\ phase' = "running" /\ UNCHANGED machineStatus
       \/ phase = "IdleAgain" /\ phase' = "running" /\ machineStatus' = "SystemMode"
       \/ phase = "Idle" /\ phase' = "halted" /\ UNCHANGED machineStatus
    /\ UNCHANGED <<runnable, randomize, driveActive, lastSector, bufferInit, consoleBusy, served>>

CheckIfDue == phase # "halted" /\ (Fire \/ NoneDue)

TimeNext ==
    \/ \E mode \in {"SystemMode", "UserMode"} : Tick(mode)
    \/ \E s \in DiskSectors, writing \in BOOLEAN : DriveRequest(s, writing)
    \/ PutCharRequest
    \/ LastSleeps
    \/ IdleStart
    \/ CheckIfDue

-----------------------------------------------------------------------------
(* Properties.                                                             *)

PendingOf(type) == {i \in DOMAIN Items(pending) : Items(pending)[i] = type}

\* The list is sorted and well linked although its first element is taken off
\* and put back each time the clock is looked at.  A device that is busy has
\* one interrupt coming, an idle one has none, and the timer always has one:
\* none is lost or doubled.  Threads run on only when nothing that is due is
\* left, but for a timer that Idle found alone and left for the next tick.
InterruptsInv ==
    /\ WellLinked(pending)
    /\ Cardinality(PendingOf("DiskInt")) = (IF driveActive THEN 1 ELSE 0)
    /\ Cardinality(PendingOf("ConsoleWriteInt")) = (IF consoleBusy THEN 1 ELSE 0)
    /\ Cardinality(PendingOf("TimerInt")) = (IF randomize = "none" THEN 0 ELSE 1)
    /\ phase = "running" =>
          \A i \in DOMAIN Contents(pending) :
              Contents(pending)[i].key > totalTicks \/ Items(pending)[i] = "TimerInt"
    /\ phase = "running" => ~ yieldOnReturn
    /\ phase = "halted" => ~ driveActive /\ ~ consoleBusy

\* interrupt.cc:250-252, 283-286: an interrupt is taken when the clock has
\* reached its time, never before, and never before another that was due
\* earlier; and the clock never goes back.
TakenInOrder ==
    [][/\ totalTicks' >= totalTicks
       /\ (phase # "running" /\ fired' # Nothing) =>
              /\ fired'.key <= totalTicks'
              /\ \A i \in DOMAIN Contents(pending) :
                     fired'.key <= Contents(pending)[i].key]_timeVars

\* disk.h:56-66, disk.cc:219-234: a request is done when the sector has just
\* passed under the head, which is at sector t \div RotationTime of the track
\* at time t; or, from the track buffer, when it had passed there since the
\* head came to this track.
Passed(sector, from, to) ==
    \E t \in from .. to - RotationTime :
        /\ t % RotationTime = 0
        /\ (t \div RotationTime) % SectorsPerTrack = sector % SectorsPerTrack

DiskTimes ==
    served # Nothing =>
        IF served.buffered
        THEN Passed(served.sector, served.since, served.requested + RotationTime - 1)
        ELSE /\ served.due % RotationTime = 0
             /\ Passed(served.sector, served.due - RotationTime, served.due)
=============================================================================
