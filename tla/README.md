# A verification of the CMPS455 Nachos kernel

This directory holds TLA+ models of the Nachos 3.4 kernel of this repository, the
TLC configurations that check them on small instances, and TLAPS proofs about
them. The repository has two trees. The code modelled is the final one, `src/Clean
Code Base/nachos-3.4/code/` (paths below are relative to it), and of the older one,
`src/nachos-3.4/code/`, what the final one no longer has: the contiguous allocation
of memory and the test programs of project 1. The rest of the older tree is the
same code in an earlier state, and `submission_documents/` in each tree has copies of
some of its files; neither is modelled again.

`PROJECT.json` lists the components, the runs, the line of code behind every
definition (`map`), the hazards, the findings and the theorems. Each module has,
in front of some definitions, a second form of it marked `bug:`. They are not
part of the model: each is a mistake that a change to the code could make, and
putting it in place of the definition makes the run refute one named property.
That is how we know that the properties are about the code and not only about the
shape of the model.

    tlc -workers 2 -config MCSynch.cfg MCSynch      # any run: its cfg and module
    tlapm SynchProofs.tla                           # any module of proofs

## 1. The system

Nachos is an operating system kernel that runs as a UNIX process, on a simulated
MIPS machine with a timer, a disk, a console and a network device. The kernel is
built in five combinations: threads, userprog, filesys, network, vm. It is a
uniprocessor. Kernel code can be preempted at one kind of place only: where
`Interrupt::SetLevel` switches interrupts from off to on, time advances
(`OneTick`), the handlers that are due run, and the timer's handler may ask for a
`Yield`. User instructions advance time as well. This makes the unit of
interleaving, and so the TLA+ action, the stretch of code between two such
places.

| Part | State | Operations | Uses |
|---|---|---|---|
| Threads, scheduler (`threads/thread.cc`, `scheduler.cc`) | status of each thread, `readyList`, `currentThread`, `threadToBeDestroyed` | Fork, Yield, Sleep, Finish, ReadyToRun, FindNextToRun, Run | interrupts, to be atomic and to be preempted |
| Semaphores, locks (`threads/synch.cc`) | value and queue of each | P, V, Acquire, Release; condition variables are empty or fail | scheduler; V is also called by interrupt handlers |
| Synchronous disk (`filesys/synchdisk.cc`, `machine/disk.cc`) | a lock, a semaphore, `active`, the sectors | ReadSector, WriteSector, RequestDone; ReadRequest, WriteRequest, HandleInterrupt | semaphores and locks, the disk interrupt |
| Processes (`userprog/exception.cc`, `thread.cc`) | `activeThreads`, and `ID`, `parent`, `isJoined` of each thread | Exec, Join, Exit, Yield, the fatal exceptions | scheduler |
| Virtual memory (`userprog/addrspace.cc`, `machine/translate.cc`) | page tables, `memMap`, `coreMap`, FIFO counters, main memory, swap files | creation, page fault with demand, FIFO or random replacement, destruction | a file per process |
| File headers (`filesys/filehdr.cc`, `userprog/bitmap.cc`) | pointers in three tiers, the map of free sectors | Allocate, Deallocate, ByteToSector | the disk, for pointer blocks |
| File system (`filesys/filesys.cc`, `directory.cc`) | directory and bitmap on the disk, copies in memory, open files | formatting, Create, Open, Remove, transfers of sectors | synchronous disk, file headers |
| Open files and commands (`filesys/openfile.cc`, `fstest.cc`) | seek position, the buffer of sectors of a call | ReadAt, WriteAt, Read, Write, Seek; nachos -cp, -p, -r, -t | file headers, the disk |
| Post office (`network/post.cc`, `machine/network.cc`) | `sendLock`, two semaphores, device buffer, mailboxes | Send, Receive, PostalDelivery, and two interrupt handlers | semaphores, a UNIX socket per machine |
| Console (`machine/console.cc`, `userprog/progtest.cc`) | `incoming`, `putBusy`, two semaphores | GetChar, PutChar, CheckCharAvail, WriteDone, ConsoleTest | semaphores, two UNIX files |
| Processor (`machine/mipssim.cc`, `machine.cc`, `translate.cc`, `userprog/exception.cc`) | registers, the delayed load, `pfOccurred`, memory | one instruction, page fault, Exit, Write, the switch of registers | threads, virtual memory |
| The other interpreter (`bin/execute.c`) | `Reg`, `HI`, `LO`, `pc`, `npc`, memory | one instruction | nothing: a program of its own |
| Simulated time (`machine/interrupt.cc`, `timer.cc`, `disk.cc`, `threads/list.cc`) | the clock, the sorted list of pending interrupts, head and track buffer of the disk | OneTick, Idle, CheckIfDue, Schedule, TimeToSeek, ModuloDiff, ComputeLatency; SortedInsert, SortedRemove | called by every device and every SetLevel |
| Object files (`bin/coff2noff.c`, `userprog/addrspace.cc`) | sections, the NOFF header, the file, its swap file | conversion, measuring, CreateSwapFile, loading of a page | virtual memory |
| Test programs (`threads/threadtest.cc` of both trees) | arrays and counters shared by the threads, semaphores | shouting threads, philosophers, post offices, zombies, spawning threads, rock band | threads, semaphores |
| Memory fit (older tree, `userprog/addrspace.cc`, `bitmap.cc`) | the bitmap of frames, offset and size of each program | FirstFit, BestFit, WorstFit, MaxSpace, loading, exit | the bitmap |

What is hard in each, and what makes it correct:

- *Scheduler.* `Run` changes stacks in the middle of Yield, Sleep and Finish, and
  whoever is switched in deletes the thread that finished; `Sleep` idles on the
  stack of a blocked thread, which a handler may make ready again. Every thread
  that has not finished must be in exactly one place, and a finished one deleted, while
  none is deleted that may run.
- *Semaphores.* A woken thread competes with others for the value it was woken
  for. No wakeup may be lost, and no queue may keep a thread that nobody wakes.
- *Locks.* `Release` hands a BUSY lock to a thread that does not run yet. One
  owner, first come first served, and nobody asleep at a free lock.
- *Synchronous disk.* A call has three steps, with a switch possible at each, and the
  interrupt may come before or after the thread waits for it. Calls must be served one
  at a time, in order, and each return after the interrupt of its own request.
- *Processes.* `parent` is a pointer kept for a long time, and Thread objects are
  allocated at old addresses; Finish removes a thread from a list whose length
  it changes as it goes. Join must return exactly when the program has ended.
- *Virtual memory.* Frames belong to processes through four tables that are
  changed at faults and at exits, in any order. Each valid page needs a frame of its
  own, with what its program wrote there.
- *File headers.* Three procedures repeat the arithmetic of the tiers. No sector
  may belong to two offsets, and Deallocate must give back what Allocate took.
- *File system.* Programs are switched at every disk access, and the machine may
  stop at any. No sector lost or given twice, no half-made file opened.
- *Open files.* A transfer that does not fit sectors reads and rewrites its first and
  last sector, with waits between. No byte outside the transfer may change.
- *Processor.* A page fault ends an instruction half-way, and it is executed again; a
  load shows its value one instruction late; the timer switches programs anywhere.
  A program must not notice any of it.
- *Simulated time.* The earliest interrupt is taken off a sorted list to be looked at
  and put back when it is not due. None may be lost, taken twice or out of order.
- *Object files.* The loader looks at no address of the header: code and data are at
  the right place only because linker, converter and loader agree by habit.
- *Test programs.* Waiting loops, counters that the last thread resets, semaphores used
  as message counters: the promises hold because of where threads yield.
- *Memory fit.* Four searches of one bitmap, each with its own end condition.
- *Post office, console.* Handlers race threads for one-place buffers; packets are
  lost. Each packet or character is passed on once and in order.

## 2. The modules

Names of definitions are those of the code where TLA+ allows it.

**Scheduler** (threads, ready list) has no Next of its own: `Synch` and `Processes`
extend it. `resume[t]` is the place in the code at which a thread that was
switched out continues ("Root" for a new one); a switched-in thread is `Resumed`
and has interrupts off until the end of the call, when it is `Executing`. `Switch`
is FindNextToRun with Run, and with the idle loop when nobody is ready: then the
CPU stays on the blocked thread's stack (`Idle`) until `LeaveIdle`.

**Synch** adds the semaphores and locks, and devices that signal a semaphore:
`Request` schedules an interrupt, and `Complete` is its handler. `P` and `Acquire`
run to their end or to `Sleep`; `ResumeP` goes round the loop of P again,
`ResumeAcquire` has the lock. **FifoLock** is the abstract lock.

**SynchDisk** extends Synch with the calls of the synchronous disk: `BeginCall`,
`GetLock`, `DiskRequest`, `AwaitInterrupt`, `EndCall`, and `HandleInterrupt`. The
device copies the data at the request and only its completion is delayed, as
`Disk::ReadRequest` and `WriteRequest` do: that a transfer is not torn is thus nothing the
lock does, and nothing is claimed about it. **SerialDisk** is what the lock and the
semaphore are for: callers stand in one line (`callLine`), the device (`deviceState`)
works for the first of it only, and a call returns when its own operation is done.

**Processes** extends Scheduler with the system calls. `Exec` is Fork with the
fields that the handler sets; `ExecWithoutProcess` the two ways in which the handler
returns without a process; `Start` and `StartPreempted` are ThreadRoot and
processCreator, with and without a time slice that ends between the two; `Exit`
is Finish with WakeUpFromJoin. `Without` is the loop of Finish over
`activeThreads`, turn by turn. `joining` and `forgotten` are history variables.

**Paging** has the address spaces. In the builds that can page, the swap file is a
UNIX file, and a fault is handled without enabling interrupts: `PageIn`,
`PageReplace` and `PageHalt` are whole faults. `FirstOfLastRun` is the frame that
the loop over the bitmap ends with: not the first clear one, but the first of
the last run. `FIFOVictim` includes frame 0, because the loop takes its first
minimum from the word past the end of `coreMap` (addrspace.cc:135): the value of that
word is whatever the build has there, and when it is small no entry beats it.

**FileHeader** has the three tiers with sizes counted in sectors. `Allocate` and
`Deallocate` are whole calls; `ByteToSector` is a function of header and offset. `Finds`
is the sequence of sectors that the calls of BitMap::Find would return, one after the
other, `BlockCalls` says which of these calls are for pointer blocks and `Blocks` what is
written there; `Cleared` is the set of pointers that Deallocate follows, each with its
place. An assertion that fails, for a pointer block or a transfer at sector -1, sets
`aborted` and stops the machine.

**FileSystem** has one action per disk access of Create, Open, Remove, and of the
transfer of a sector, named after the access (`CreateFind` reads the directory,
`CreateHeader` writes the header, and so on). The caller's copies of directory
and bitmap are explicit. `Crash` stops the machine. **AtomicFileSystem** is the
abstract file system, in which each call happens in one step.

**PostOffice** has several machines, each with its kernel, connected by sockets.
`NetworkSend`, `PacketSent`, `AwaitSent` and `SendReturn` are the parts of Send;
`CheckPktAvail`, `AwaitPacket`, `NetworkReceive` and `Put` those of delivery.
`Receive` on an empty mailbox aborts the machine: `SynchList::Remove` calls
`Condition::Wait`, whose body is `ASSERT(FALSE)` (synch.cc:140).

**Console** has the device and the echo loop of ConsoleTest, the keyboard's file,
and its end, at which the device's read fails an assertion.

**OpenFile** adds the bytes of files to FileHeader. A call (`Begin`) is a list of
sectors to read and to write, and each access of the disk is a step, between which
the other threads run. `expect` is a history variable, the bytes that were last
written, and `raced` the sectors at which two calls met. **FileCommands** are the
commands of fstest.cc: Copy, Print, Remove and PerformanceTest in the chunks in
which they transfer, and two threads that share the copied file.

**Words** has the C arithmetic on words of any width, **MipsSim** what one instruction
does to the registers in mipssim.cc, and **Machine** the loop around it: translation
and page fault, Exit, Halt, Yield and Write as the handler does them, the exceptions
that end a program, and the preemption by the timer at any tick. `OneInstruction`
is one that raises no exception; `PageFault`, `PageIn` and `PagedIn` are the way
through a page fault, at whose two ticks the program may be preempted, and `PassOver`
the turn of Run that `pfOccurred` suppresses, whoever's fault set it, before the
instruction is executed again. `ReadByte` and `FaultInWrite` are the loop in which
Write copies the string. **Execute** is the
interpreter of bin/execute.c, which is not part of the kernel: it serves as the
abstract machine, and Machine is shown to implement it for each thread (`E(t)`) but for
the instructions that `Differs` lists.

**List** has the sorted list with its pointers `first`, `last` and `next`, and
**Interrupts** simulated time on it: `Tick` and `IdleStart` are OneTick and Idle up to
their loops, `Fire` and `NoneDue` the two outcomes of CheckIfDue; then the devices that schedule,
and the timing of the disk with seek, rotation and track buffer. **Main** chooses between a user program, the test
of the console and threads that use the devices, as main.cc does by its flags.

**Programs** has what the test programs share: a thread can lose the CPU only in
its calls, or, with `-rs`, at the end of any, so its actions are the stretches between
calls (`interruptible`). `memory` is what the words said that `new` returned to the program,
for the arrays that the code never sets. The programs run on Synch, whose P, V and Yield they
call.
**Shouts**, **Dining** and **MailRoom** are the programs of the older tree, the first two
forms of each by busy waiting and the second by semaphores; **Demos** and **RockBand**
those of the final tree; **ThreadTest** is the main thread that chooses one, and
composes them.

**MemoryFit** is the memory of the older kernel: the three fits and MaxSpace as the
loops compute them, programs that begin and end. **ObjectFile** follows a program from
the sections that the linker wrote to the pages of its address space; a byte is
known by its section and its place there. **Memory** composes it, MemoryFit and
Paging as three parts of which one runs, and **Storage** composes Memory and FileCommands.

The proofs are in `SchedulerProofs`, `SynchProofs`, `SynchUsersProofs` (SynchDisk and
the test programs, all of which run on Synch and are proved from its lemmas),
`ProcessesProofs`, `StorageProofs` (Memory, with Paging, MemoryFit and ObjectFile; and
FileCommands, with FileHeader and OpenFile), `FileSystemProofs`, `DeviceProofs`
(PostOffice and Console) and `TimeProofs` (List and Interrupts). Where a module has
proofs of two components, no theorem speaks of both: they share lemmas, on sequences,
division or the kernel's variables. The
`MC*` modules name the model values of the runs; `processes` and `file_system` need
none and run on the modules themselves.

### What the models assume of their surroundings

- *Threads, processes:* programs and interrupts do anything at any time. A
  program releases only locks it has, as the assertion in Release demands.
- *File system:* one program at a time creates and removes, since filesys.cc:182
  and :33 say that concurrent changes are not synchronised; others open, read and
  write meanwhile. A file that is open, or being opened, is not removed: nothing in
  the repository says what that would mean. The machine does not stop between the
  write of the directory and that of the bitmap, of which filesys.cc:38-40 warns;
  it stops at every other point, and the properties show that this one window is
  the only one that corrupts the disk.
- *Post office:* UNIX sockets keep datagrams in order; a packet is dropped by the
  device, or arrives. The lock of a mailbox's list is held for one change only,
  so the change is one step.
- *Console:* the character whose code is 0xFF is not typed in the run (below).
- *Open files:* the length of a file never changes after its creation, as in the code.
  The bytes of a new buffer are the value `Unset`.
- *Machine:* text is not read or written as data, each page has a frame of its own (Paging
  has the frames), the smallest number is not divided by -1 (undefined in C), and no
  TLB is used, as in this build. Pages come from a UNIX file, for which nobody waits.
- *Test programs:* what Random returns is open. `Boots` are the combinations that are tried
  of menu entry, `-rs`, the number that the user typed and the memory in which the arrays
  lie that nothing initialises (`state`, `chopsticks` and `postOffice`): any word in any
  place (`Memories`), and the theorems are for all of them. A word of `state` that is none
  of the enumeration is called THINKING, for which no program tests; of a `bool` the
  programs ask only whether it is 0.
- *Object files:* a UNIX write does not fail; a file has at most one section of each name
  that coff2noff.c knows, as the linker makes them, and its sections are placed by the
  script of the tests where `ProgramInPlace` is claimed.

## 3. The runs

Deadlock is not checked where programs may simply all end or wait for each
other, which is every run but `file_system`;
liveness properties say instead who must not wait for ever.

| Run | Instance | What it shows |
|---|---|---|
| `synch` | 4 threads, 1 lock, 1 semaphore that a device signals, values to 2; 252k states | every thread that has not finished in its place, no lost wakeup, mutual exclusion, a FIFO lock, each ready thread runs |
| `synchdisk` | 3 threads, 1 sector, 2 values; 24k states | no second request to the active device, completions matched to waiters, calls served in order and one at a time, calls return |
| `processes` | 3 threads, ids to 3; 35k states | list of processes exact, only sleeping joiners woken, finished threads deleted, Join returns at the exit and not before |
| `storage` | final kernel: 2 processes of 2 pages, 3 frames, each of 3 policies; older kernel: 3 programs of up to 4 pages, 6 frames, 3 fits; 100 object files; a disk of 16 sectors of 3 bytes, 3 direct pointers, 4 per block, files of 12 lengths in transfers of 4 bytes, one of 7 shared by 2 threads; 1.01 million states | marked frames have live owners; without replacement no page is lost; first fit is exact; code and data arrive where they were linked; offsets distinct in all three tiers, allocation and deallocation inverse; writes touch their own bytes only; Print after Copy prints the file |
| `file_system` | 2 programs, of which 1 creates and both remove, 2 names, 3 sectors, 2 entries, files to 2 sectors, stops; 441k states | sectors disjoint, map exact, no half-made file, atomic calls |
| `post_office` | 3 threads on 2 machines, 1 mailbox each, 1 message per thread, loss; 149k states | no second packet to a busy device, packets matched, order kept, sends return, mail arrives |
| `user_machine` | `-x`: 350 programs of one tested instruction on words of 8 bits, pairs of programs; `-c`: 4 characters of 3; neither: 3 kinds of timer, to 6, 9 or 20 ticks; 297k states | the simulator runs what execute.c runs, arithmetic exact, strings written whole, programs end; echo exact and in order; interrupts in order, none lost, the disk's times |
| `thread_tests` | the programs of both threadtest.cc, 3 threads, 2 rounds, with and without random time slices, and what `new` may return; 335k states | input classified, neighbours have no chopsticks at once and (but for finding 4) do not eat together, no mail lost but at most one message for each full box of task 5, instruments and chopsticks held once, songs start together, programs end |
| `doc_core_map` | 2 processes of 2 pages, 2 frames, random | finding 1 |
| `doc_allocation` | as `storage`, operations on headers only | finding 2 |
| `doc_memory_fit` | as `storage`, memory only | finding 3 |
| `doc_neighbours` | as `thread_tests`, task 4 with `-rs` and 5 meals, memory all 0 | finding 4 |

Several properties are conjunctions, so that a state is checked once for all that must
be true of it: `ThreadsInv` (places of the threads that have not finished, ready list, queues;
only finished ones are deleted), `DiskInv` (requests and completions), `ProcessesInv` (list of processes and deletion),
`PagingInv` (types and, without replacement, contents), `HeadersInv` (offsets and free
map), `FilesInv` (files, map, entries), `BuffersInv` (device buffers of the network),
`ConsoleInv`, `InterruptsInv`, `DiningInv` (neighbours' chopsticks in task 3; in task 4 no
meal beyond those ordered and, unless `-rs` meets a word HUNGRY in the new array, neighbours
and a V for each time a philosopher is found able to eat), `HeldOnce`, `ProgramInPlace` (segments in the NOFF file; bytes in
memory), `TestsFinish` (meals are served; everyone leaves).

**Why these bounds are enough.** Four threads are one running, one that was handed
the lock and two that wait in order; also a finished thread, the new one
that must delete it, and two others. A value of 2 is needed to have a
value that a barging thread takes and one that is left. Three threads at the disk
are one in the device, one just given the lock, one waiting. Three processes are
two joiners of one, and a cycle of joins. Three frames for four pages have both
free frames, with gaps, and replacement; six frames under the older kernel have rows
of several lengths, at both ends and in the middle. Sixteen sectors with 3 direct
and 4 indirect pointers let a file reach the third tier with two groups, the last one
partly filled, or with one beside another file; a file of 33 bytes is one that is
allocated although the last calls of Find return -1, and one of 50 is refused; transfers of 4 bytes over sectors of
3 begin and end at every place in a sector, and the lengths lie on both sides of every
tier's end. With two names and three sectors a disk is
full, and sectors are used again under another name. Two senders on one machine
and one on the other compete for `sendLock`, and let packets from two machines
meet in one mailbox. A word of 8 bits has bytes, halves, carries from half to half,
signs and overflow as one of 32 has; each instruction is tried with operands of both
signs, at the ends of the range, with zero, and at each alignment; an address space of
four pages has a string that crosses two. The clock runs until interrupts of the timer
meet those of the disk and of the display, at one time and in both orders. Three
philosophers have two neighbours who are different, and one who waits for both. Without
`-rs` task 3 is run with every combination of words in both arrays and task 4 with every array
of states; with `-rs` task 4 with three of them: none, one HUNGRY, all EATING. Task 5 has
every filling of one box and of all boxes alike, with seven messages, enough to find a box
full and to use the word behind it; its boxes hold one message each, so that the first slot is
the last. The
hundred object files have each combination of empty and filled sections in the
linker's order, with lengths on both sides of a page, `.bss` next to `.sbss` and apart;
and the reverse order, gaps, an unknown section and missing bytes. With
sector counts, page counts or threads beyond these only more of the same happens: the
code treats all threads, frames and sectors alike.

Every bound is a constant: `MaxValue` (V only below it), `MaxId`, `MaxSize`,
`MaxSends`, `MaxTyped`, `MaxTicks`, `Workloads`, `Areas` (of Storage, which are run), `Pauses` (lengths of Random's
waits), `Rounds`, `UnixLengths`, `SharedLengths`.

**Symmetry** is used where only safety is checked: processes and pages of the final
kernel, and the files of `doc_allocation`. Frames are not symmetric, as `FirstOfLastRun`
orders them.

### Fairness

- *Scheduling* (`Synch`): a thread in a kernel call with interrupts off continues;
  the idle loop dispatches; and time slices end, which is the timer of `nachos
  -rs` (timer.cc, interrupt.cc:150-179). Without `-rs` no thread is ever preempted,
  and a thread that loops keeps the others out: the property does not hold and is
  not claimed.
- `SynchDisk`: strong fairness for the steps of a call, because they are enabled only
  while the thread has the CPU, which it gets again and again but not for ever; and for
  the handler, because interrupts are taken only where they are enabled.
- `Processes`: strong fairness of `Exit` says that programs end. It is an
  assumption about the programs, needed because Join waits for them.
- `PostOffice`, `Console`: pending interrupts are taken and threads in the kernel
  continue, by the FIFO ready list. Nobody is obliged to send, receive or
  type, and the network is not obliged to deliver: `MailArrives` is about the
  packets it does not drop.
- `Main`: the processor goes on (weak fairness of a program's steps, `StartProcess`).
  Preemption is not fair and need not be: `ProgramsEnd` holds with it or without.
- `ThreadTest`: the CPU does not stop while there is something to do. `TestsFinish` is
  claimed for cooperative scheduling only; with `-rs` several of the programs can hang
  (section 4), and a random number generator gives no fairness that would help.

## 4. Findings

1. `CoreMapComplete`. A process keeps in `myPageList` the frames that replacement
   took from it, and its destructor clears them all in the bitmap
   (addrspace.cc:265): the frame of another process's valid page becomes free, and
   is given away under it. Steps: A loads a page, B's fault steals the frame, A exits.
2. `AllocationComplete`. Allocate compares the free sectors with the data sectors
   alone (filehdr.cc:113); the pointer blocks are taken too, and when the disk
   is nearly full Find returns -1, which is stored as a pointer or used as one.
3. `FramesApart` (older tree). BestFit and WorstFit do not count the last frame of the
   memory, MaxSpace does: when the only row that is long enough ends there, a program
   is put at frame 0, over another (code/userprog/addrspace.cc:129, 345, 367).
4. `NeighboursDoNotEat` (older tree). The array of states is never initialised
   (threadtest.cc:470), and 0, which fresh memory holds, is HUNGRY. With `-rs` one philosopher
   may eat and put its chopsticks down before a neighbour has been to take_chopsticks: it is
   found HUNGRY and gets a V, says HUNGRY itself when it comes, and gets another. It eats with
   the first, and its next P passes on the second, though test found a neighbour eating.

Noticed while modelling, and not the subject of a run. In the kernel:

- When the file of Exec cannot be opened, or reading its name meets a page fault, the
  handler returns without setting r2 (exception.cc:187). The program gets 2, the number
  of the system call, as the identifier, and nothing runs; syscall.h:57-58 promises
  the identifier of the program.
- Replacement (addrspace.cc:147) never writes the victim to the swap file: what the
  program stored there is lost. With finding 1 this would explain the "odd things
  with FIFO" of the team's report on project 4. `PagingInv` claims contents only where
  nothing is replaced.
- FIFO replacement may choose frame 0 whatever its age (see Paging above).
- V's comment (synch.cc:94) says that the woken thread consumes the V immediately; it does
  not, another thread may take the value first. The model has this, and
  `NoLostWakeup` shows that it does no harm.
- A thread that runs for the first time starts in ThreadRoot and not after SWITCH in Run
  (scheduler.cc:124), and deletes nobody. In the builds without user programs, where no
  processCreator does it instead, a thread that finishes just before is never deleted if the
  new one finishes too, since Finish overwrites `threadToBeDestroyed`, contrary to
  thread.cc:135-138: `FinishedWillBeDestroyed` is false in Synch, as TLC finds when it is put
  into MCSynch.cfg, and claimed of Processes only, as a part of `ProcessesInv`.
- A second Join of a program replaces the first joiner, who sleeps for ever
  (exception.cc:246), although syscall.h:62 says that Join returns when the program
  has finished. `JoinReturns` excepts exactly these joiners and cycles of joins.
- Every exception makes a new mutex (exception.cc:115), so that its P never waits: it
  excludes nobody. The branch at exception.cc:130-133 cannot be reached.
- When Read's WriteMem meets a page fault it is not tried again; Write's ReadMem is.
- In the older tree a program that is refused for want of memory Finishes the thread
  that called Exec, without the work of Exit: its frames are never cleared, and a
  parent that joined it sleeps on.
- `MaxFileSize2` is 31744 and not the 32000 of its comment (filehdr.h:22): files between
  get a double indirect block that they do not need. No property suffers.
- WriteAt writes whole sectors, so that the bytes of the last sector beyond the end of
  the file are whatever the buffer held. Two writes of parts of one sector at the same
  time lose one of them; `BytesKept` excepts exactly these sectors.
- PerformanceTest creates its file with 0 bytes, and a file never grows: its first
  Write writes nothing, and it always reports a failure.
- Receive on an empty mailbox aborts the machine, although post.h:117-118 says that it
  waits. MailTest (network/nettest.cc) therefore works only if the message came first.
- The byte 0xFF equals EOF in the console's buffer (console.cc:96), and the next
  character overwrites it.
- With the Nachos file system, a swap file's name is cut to nine characters and its size
  is fixed at 0 (addrspace.cc:357): paging needs the UNIX files of the stub.
- An interrupt that is put back goes behind those of the same time: the order of
  equals rotates with every look at the clock. A timer interrupt that Idle finds alone
  is left for the next tick. Only the random timer is ever started (system.cc);
  the regular one is modelled because Timer offers it.
- The older tree's RemoveThread (submission_documents/list.cc) dereferences NULL when
  it removes the first of several elements. List counts an element that was never
  there when Remove is called on an empty list, which nothing uses.

In the tools and simulators:

- coff2noff.c:200-208 refuses `.bss` and `.sbss` exactly when they are contiguous; its
  comment says to make sure that they are. Line 116 tests `fdIn` where it opened
  `fdOut`.
- The loader pages in a copy of the NOFF file, header first, and looks neither at
  `virtualAddr` nor at `inFileAddr`. Uninitialised data gets what the buffer of
  CreateSwapFile held behind the file (addrspace.cc:372), which noff.h:22-24 says should
  be zero. `ProgramInPlace` is about code and data, of programs linked as
  test/Makefile does it.
- mipssim.cc against execute.c: OR computes `rs | rs` (mipssim.cc:381); SRL and SRLV
  shift the sign in; execute.c extends the sign of ANDI, ORI and XORI and loses
  carries of MULT and MULTU; the two differ in LWL, LWR, SWL, SWR, in a division by
  zero, in JALR with one register for both uses, in a branch in a delay slot and in the
  instruction after a load; BREAK is a call in one and ends the program in the other.
  `Differs` and `Stopped` list all of this, and `ImplementsExecute` shows that there is
  nothing else.

In the test programs:

- Main's call of ThreadTest is commented out in the final tree. PhiloSema is never
  forked; PhiloBusy can go on without anybody eating.
- Older philosophers: a hungry philosopher sleeps for ever when the meals run out
  meanwhile; with busy waiting the loop has no Yield, and more meals are counted than were
  ordered. With busy waiting a chopstick that is up in the new array (threadtest.cc:493) has
  nobody to put it down, and beside a word EATING a philosopher tests again and again without
  a Yield: the meals are then not served, and `TestsFinish` excepts this (`TableLaid`).
- In task 5 the loop for a free slot tests the slot before the bound (threadtest.cc:821), so
  that in a full mailbox the word behind the array is written and the message counted as sent;
  readingMail stops at S (797) and never reads it. `MailConserved` counts these messages by
  themselves (`Overrun`); without that term TLC finds it violated.
- Older post offices: task 5 may send more than was ordered and then does not end; its
  slots are not cleared (threadtest.cc:749), and a person reads what nobody wrote; task 6 with `-rs` may hang on the full box of a
  person who left. The run has task 6 without `-rs`; `MailConserved` holds with it too.
- The header comment of EvaluateInput (threadtest.cc:94-99) lets a point make a decimal only as
  the second character, or as the third behind a sign, and says nothing of the last place; the
  code and the comments inside it (320-345) take one at any place but the first, the last and
  the one behind a sign. "12.5" is a decimal by the code and a string by that comment, "5." the
  other way round. `InputClassified` states what the code and the inner comments say.
- EvaluateInput reads the character before a blank line, and ValidateInput tests a
  buffer that nothing has set; zombieCheck reads ten entries whatever number was typed.
- The rock band with `-rs` can hang: the counter that the last player resets may be
  reset under a player who already counted for the next song.

## 5. Proofs

TLAPS checks these for all values of the constants, under the assumptions that the
modules name: there are finitely many threads, main is one and NULL is not
(`ThreadAssumption`); semaphores and locks are different objects and initial values
natural numbers (`SynchAssumption`); the values that stand for NULL or for "none" are
not among the things they are told apart from (`PagingAssumption`, `NoSpaceAssumption`,
`NoMailAssumption`, `FileSystemAssumption`, `DiskAssumption`, `ListAssumption`); times are
positive (`InterruptsAssumption`); `new` finds an address for one interrupt of each type
(`ElementsAssumption`); each thread of a test program has a number of its own, each
philosopher and each person a semaphore of its own, and one program runs at a time
(`ProgramAssumption`, `DiningAssumption`, `MailAssumption`, `ThreadTestAssumption`); the
sections of an object file that are converted have different names
(`ObjectFileAssumption`); a header and a pointer block have room for three pointers, sector
0 is reserved, which is that of the free map's header (filesys.cc), and the disk is no
larger than the three tiers of one file reach (`FileHeaderAssumption`). TLC evaluates each
in the runs. One theorem has a hypothesis of its own, `ConsoleKeepsAll`. Bounds such as `MaxValue` or `MaxTicks` are constants like
the others: a theorem holds for each value of them.

Each proof finds an inductive invariant, shows that the initial states have it and that
each action keeps it, one lemma for each action, and that it implies the property.

**Threads, semaphores, locks** (`SynchProofs`, on `SchedulerProofs`)

- `ThreadsPlaced`: `Spec => []ThreadsInv`. It is about the threads that have not finished;
  that each finished one is deleted is false here (section 4). The conjunction `Placed` is inductive: none
  of its parts is alone. That the ready list is exact needs that a thread woken from a
  queue is not ready yet, which is `QueuesExact`; that a queue is exact needs that the
  thread that goes to sleep is the running one, which is in no list. The two facts that
  every step uses are `SwitchPreserves` (dispatch or idling, whatever the caller did with
  the old thread) and `ReadyToRunPreserves`.
- `LocksExclude`: `Spec => [](MutualExclusion /\ BusyIffOwned)`.
  The owner of a lock counts from the moment of the handover: `Owns` includes the thread
  that has been taken off the queue and sleeps no more, and it is this ghost owner that
  makes the invariant inductive.
- `NoWakeupLost`: `Spec => []NoLostWakeup`. Where a queue is not empty, the value is at most
  the number of threads on their way out of P. The proof goes by whether a step wakes,
  takes, or neither.
- `LocksAreFifo`: `Spec => ImplementsFifoLock`, step by step: the abstract queue of a lock
  is its owner with the threads that wait. Acquire and Release map to the abstract steps,
  all others to stutters.

**Synchronous disk** (`SynchUsersProofs`)

- `DiskOneRequest`: `DiskSpec => []DiskInv`, from the invariant of Synch and `DiskStateOK`: the
  three steps of a call after its Acquire are taken only by the owner of the lock
  (`CallsPlaced`), and the device is active, or its semaphore 1, exactly when one of them
  waits (`CompletionOK`).
- `DiskIsSerial`: `DiskSpec => ImplementsSerialDisk`. The abstract line is the owner of the lock
  followed by its queue, so that Acquire must put a caller at the end and Release hand the
  lock to the next; the device is busy between a request and its interrupt, and done until
  EndCall. Each step of a caller after Acquire needs `OneInside` to be at the head of the
  line.

**Test programs** (`SynchUsersProofs`)

- `ProgramsRunOnKernel`: `TestSpec => Spec`. Every step of a test program is a step of Synch
  or changes nothing of it, so `ThreadsInv`, `MutualExclusion` and `NoLostWakeup` hold under
  the programs. Its invariant `TestInv` has what the others start from: a thread that
  sleeps in P is at a place of its program that calls P, on the semaphore that this place
  names (`Blocked`). `Waits` is who waits for what, and each step of a program leaves the
  semaphores alone (`Quiet`), raises one (`Up`) or lowers one (`Down`): the proofs about the
  programs use no more of the kernel than this.
- `NeighboursApart`: `TestSpec => []DiningInv`, whatever the two arrays say at boot. The
  invariant `DinersInv` says that mutex is 1 or held by one thread (`MutexHeld`); that a seat
  which is not THINKING is that of a thread at its meal, or still says what it said at boot
  (`Unbegun`); that EATING at a meal (`Given`) is worth one V (`Granted`), in the semaphore or
  taken; that no two neighbours are `Given` (`Apart`); and that a meal about to be counted is
  there (`MealsInv`). That needs the mutex, since the V comes before the count. A word EATING
  from boot is worth no V, and keeps neighbours away until its philosopher comes, who
  overwrites it. A word HUNGRY does harm only where threads are preempted (finding 4), and
  there `DiningInv` claims nothing of neighbours. Without the random timer `TurnsInv` shows
  that nobody is served before it comes: main forks
  all of them in one turn (`ForkedFirst`); from its last Yield to the next a thread keeps
  the CPU, and finds mutex free (`Cooperative`); nobody dines before all have sat down
  (`Seated`); and one who eats yields at least twice, each time behind all who are ready,
  so that every other has its first turn, and takes mutex or finds no meals, before the
  first chopsticks are put down (`InTurn`).
- `HeldByOneOnly`: `TestSpec => []HeldOnce`. A chopstick, or an instrument, that is not free has
  exactly one holder, by the places of the threads and their `temp`.
- `SongsAreTogether`: `TestSpec => SongsStartTogether`. `BandInv` relates the counter of
  players who are ready to the set of those who are, and says where the flags of the last
  song can still be set (`FlagsLate`, `NobodyBehind`); a counter that reaches N means that
  all are there, by the cardinality of a subset.
- `MailIsConserved`: `TestSpec => []MailConserved`, whatever the slots hold at boot. What was
  found and sent is the words that are TRUE, S slots and one word behind them for each box, or
  the semaphores' values, plus the threads between taking and counting (`Took`), plus what was
  read; with semaphores less those between filling and counting (`Posted`). The word
  behind a box is never cleared (`NeverCleared`), so each box loses one message at most, and
  `WordsCounted` takes these words off both sides: what is left is the S slots that are read,
  and `Overrun`.
- `InputIsClassified`: `TestSpec => []InputClassified`, for lines of any length.

**Processes** (`ProcessesProofs`)

- `ProcessListExact`, `WokenParentsAsleep`, `JoinWaits`: ProcessesInv, ParentsAsleep and
  JoinWaitsForExit. The three parts of `IInv` depend on each other: the list is exact only
  while ids differ, a parent stays asleep only while no Thread object is used again under it, and
  that needs that a finished thread is deleted before the next finishes (`OneCarcass`).
  The loop of Finish, a function by recursion on the number of turns, has the invariant
  `LoopInv`; its induction is over a set of natural numbers, with least elements.

**Memory** (`StorageProofs`)

- `FramesOwned`: `Spec => []MarkedFramesOwned`, for each policy. It needs that each marked
  frame has an entry in the core map (`MarkedFramesMapped`). It is the positive side of
  finding 1: marked frames are safe; it is valid pages in unmarked frames that are not.
- `PagesSafe`: `Spec => []PagingInv`. Under demand paging the list of frames of an address
  space is what the core map says (`DemandInv`), so that an exit clears its own frames and
  no other, and `FirstOfLastRun` is a clear frame whatever is marked.
- `FirstFitIsExact`: `MemorySpec => []FirstFitExact`. The search finds rows that are clear,
  also behind the last marked frame (`FirstFitClear`). Where MaxSpace promised more frames
  than there are in a row, the row would leave the memory, and Mark's assertion stops the
  machine instead.
- `ProgramsArrive`: `MemorySpec => []ProgramInPlace`. The invariant `ObjectInv` says what has
  been copied after each section: a segment is at the header's size plus the address it was
  linked at (`PlacesInv`), because each of them ends where the next begins, and the file
  behind a copy stays as it was (`HasBehind`). Then a byte of a page is at the place
  that division by the page size gives, in the file and in memory (`BytesInPlace`).

**File headers, open files and commands** (`StorageProofs`)

- `HeadersAreOneMap`: `HeaderSpec => []HeadersInv`, and `HeadersStayOneMap`: the same under the
  commands. The state does not say which call of Find returned which sector, so the
  invariant `HeadersFound` says that there *is* a sequence of calls for each file: its
  header and its pointer blocks are what Allocate makes of that sequence (`FileAt`), no two
  files have a sector of their calls in common, and the free map is the reserved sectors
  and these (`HeadersBy`). The arithmetic of the tiers is in four families of
  lemmas: which call gives the sector at an offset (`DataCall`) and which a pointer
  block, that they are all the calls and no call is both; that Blocks and
  DataSectors put them where ByteToSector looks; and that Cleared finds the same ones.
  Quotients and remainders by the constant `PtrsPerSector` go through `DivMod` and
  `DivModUnique`, one product at a time.
- `BytesAreKept`: `CommandsSpec => []BytesKept`. `FilesHold` says of each byte of each file:
  on the disk is what the last call left there, and what a call in progress has already
  written (`DiskHolds`); and in the buffer of a call, once it has read its sector,
  is what is on the disk outside the bytes that it writes (`BufHolds`), unless two calls
  raced for that sector (`RacesKnown`). A call reads the sectors that it does not write
  whole, before it writes, and each once (`CallsFit`, `AccessesOf`), whatever its alignment:
  this is where `firstAligned` and `lastAligned` come in. `JobHolds` has what the commands
  add: no calls in between, and no bytes in any file but the copy.
- `PrintsTheCopy`: `CommandsSpec => []PrintIsCopy`, on the two above. `PrintHolds`: the copy has
  the file up to what was transferred, the screen what was read of it.

**File system** (`FileSystemProofs`)

- `FilesWhole`: `Spec => []FilesInv`. The invariant says, for each place where a caller can
  be, what its copies of directory, bitmap and header are relative to the disk
  (`CallerOK`); they stay true because one caller changes at a time (`OneChange`) and no
  open file is removed. `BitmapExact` excepts the window between the writes of the
  directory and the bitmap.
- `FilesAreAtomic`: `Spec => ImplementsAtomicFileSystem`. Create happens when the directory
  is written and so does Remove, Open when the directory is read; the contents of a file are what
  its header leads to.

**Network and console** (`DeviceProofs`)

- `BuffersUsedByOne`: `Spec => []BuffersInv`. The queue of `sendLock` is the threads inside Send
  (`QueuesExact`), the interrupt or its V is there only while its head awaits it
  (`OneAwaited`), and a V or a worker that took one is there exactly when a packet is
  buffered (`OnePacket`).
- `MailInOrder`: `Spec => []DeliveredInOrder`, with mail on its way to a box defined as what is in the
  socket, in the buffer and in the worker's hands. The lemmas on `Only`, which selects from a
  sequence, are by induction on the length of the sequence.
- `ConsoleKeepsAll`: `ConsoleSpec => []ConsoleInv` if the byte that marks an empty buffer
  is not typed; with it the property is false (section 4).

**Simulated time** (`TimeProofs`)

- `InterruptsExact`: `MainSpec => []InterruptsInv`, and `InterruptsInOrder`: `MainSpec =>
  TakenInOrder`. First the list: following `next` from `first` finds the elements that a
  sequence links (`ChainIsLinked`), SortedInsert and SortedRemove, as they change the
  pointers, put an element in its place and take off the first (`SortedInsertPlaces`,
  `PlacedLinked`, `PlacedAscends`, `RemovedLinked`), so that a list is the set of its
  interrupts with the least in front (`KeptEntries`, `InsertKept`, `RemoveKept`). On this set
  the invariant `TimeInv` is short: which of the three interrupts are there follows the
  flags of the devices, and nothing in it is due while threads run.
- `DiskTimesExact`: `MainSpec => []DiskTimes`. Beside DiskTimes itself the invariant needs only
  that the head came to its track at a multiple of RotationTime (`bufferInit`). Quotients and
  remainders by that constant go through `DivMod` and `DivModUnique`; `HeadArrives` and
  `SeekEndsAtSector` are about ModuloDiff and TimeToSeek, for any geometry.

Facts about functions that are defined by recursion over the natural numbers, or about a
`CHOOSE`, rest on `LeastNat` or `NatSetInduction`: the library's induction takes an operator,
which the provers cannot instantiate, but a well-founded order has a least element in
each set.

**Only model-checked**, and why:

- All liveness: `ReadyRuns`, `CallsReturn`, `JoinReturns`, `SendReturns`, `MailArrives`,
  `TypedIsEchoed`, `ProgramsEnd` and `TestsFinish`. Fairness and ENABLED are out of TLAPS's
  reach.
- `ImplementsExecute`, `ArithmeticExact`, `WritesWhole`: words of any width are integers
  modulo a power of two, and of `2^n` the provers know that it is an integer and not that
  it is positive, nor what `2^(n + 1)` is; so not even that an address stays in its
  range when it is wrapped. The first two are besides sums over the bits of a word.
- `AllocationComplete`, `CoreMapComplete`, `FramesApart`, and `NeighboursDoNotEat` without
  the exception that `DiningInv` makes, are false (section 4).

## 6. Not modelled

- Condition variables: not implemented in the code.
- Read as a system call: it copies bytes from the terminal or a file to the program.
  Halt and Write are in Machine and not in Processes: they change nothing there.
- The TLB and the debugger of the simulator, statistics, printing of directories and
  headers.
- Page faults that wait for the Nachos disk (the FILESYS build): its swap files cannot
  work (section 4).
- Start-up, the command line, the UNIX calls of sysdep.cc, switch.s, the stub file
  system, which is one UNIX call for each of its own, and nettest.cc, whose calls are
  among those that PostOffice has any program make.
- The programs in test/, test2/ and test_orig/: Processes and Paging take any sequence of
  system calls and accesses, Machine short programs of its own. The tools
  coff2flat.c, out.c, disasm.c and d.c, which convert or print files and keep no state.
- The older tree's Join and its list PCB of processes, which is defined nowhere in the
  repository; and all of the older tree that the final one has in a later form.
- The copies in submission_documents/. Together with the older tree they are more than
  half of the repository's lines of kernel code.

## 7. Plan

Done: all components of section 1 but those listed in section 6; and the theorems of
section 5, which state every safety property that a passing run checks, but those of
the processor's words.

Next:

1. A theory of words: powers of two as a recursive function, with the bounds that
   `WritesWhole`, `ArithmeticExact` and `ImplementsExecute` rest on.
2. Create and Remove with several callers at a time, once the code says how they are to be
   synchronised (filesys.cc:33, 182).
