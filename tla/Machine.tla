-------------------------------- MODULE Machine --------------------------------
(***************************************************************************)
(* User programs on the simulated processor: the loop of Machine::Run, one *)
(* instruction of the current thread's program at a time (MipsSim), the    *)
(* exceptions it raises and what the kernel does about them, the return    *)
(* to the instruction after a page fault, and the switch of the registers  *)
(* when the timer preempts a program between instructions or in the kernel *)
(* on its way through a page fault.  Paging is on demand, with a frame for *)
(* every page; Paging.tla has the frames and Processes.tla the calls Exec  *)
(* and Join.  Pages of text are not read or written as data.               *)
(***************************************************************************)
EXTENDS MipsSim

CONSTANTS
    Threads,        \* the threads that run user programs
    PageSize,       \* in bytes
    NumPages,       \* of an address space
    Workloads       \* bound: what the threads run, a set of functions from some
                    \* of them to records [text, data]

ASSUME MachineAssumption ==
    /\ PageSize \in Nat \ {0} /\ PageSize % 4 = 0
    /\ NumPages * PageSize <= 2^(WordBits - 1)

VARIABLES
    program,        \* what each thread runs
    registers,      \* the processor's
    userRegisters,  \* those saved for each thread
    currentThread,
    readyList,
    mainMemory,     \* the bytes of each address space
    valid,          \* the pages of each that the page table says are in memory
    pfOccurred,     \* tells Run not to execute an instruction
    faulting,       \* how far each thread is with a page fault, and its page
    call,           \* the Write call each thread is in: its arguments, and ch
    output,         \* the strings each thread has written
    ticked,         \* simulated time has just advanced: the timer may be due
    finished, halted

kernelVars == <<faulting, call, output, finished, halted>>
cpuVars == <<registers, userRegisters, currentThread, readyList>>
vars == <<program, cpuVars, mainMemory, valid, pfOccurred, kernelVars, ticked>>

NONE == "none"
NoFault == [at |-> NONE, page |-> 0]
NoCall == [active |-> FALSE, arg1 |-> 0, arg3 |-> 0, ch |-> <<>>]
StackReg == 29

\* AddrSpace::InitRegisters
InitRegisters ==
    [gpr |-> [n \in 0 .. 31 |-> IF n = StackReg THEN NumPages * PageSize - 16 ELSE 0],
     hi |-> 0, lo |-> 0, pc |-> 0, nextPC |-> 4, loadReg |-> 0, loadValue |-> 0]

Addresses == 0 .. NumPages * PageSize - 1

TypeOK ==
    /\ currentThread \in DOMAIN program \cup {NONE}
    /\ valid \in [DOMAIN program -> SUBSET (0 .. NumPages - 1)]
    /\ \A t \in DOMAIN program :
        /\ faulting[t].at \in {NONE, "P", "V"}
        /\ DOMAIN mainMemory[t] = Addresses
        /\ \A a \in Addresses : mainMemory[t][a] \in 0 .. 2^ByteBits - 1
    /\ pfOccurred \in BOOLEAN /\ ticked \in BOOLEAN /\ halted \in BOOLEAN

\* StartProcess of the first thread; the others have been made by Exec, and
\* processCreator gives them the same registers when they first run.
Start(workload, order) ==
    /\ program = workload
    /\ registers = InitRegisters
    /\ userRegisters = [t \in DOMAIN workload |-> InitRegisters]
    /\ currentThread = Head(order)
    /\ readyList = Tail(order)
    /\ mainMemory = [t \in DOMAIN workload |->
                        [a \in Addresses |-> IF a \in DOMAIN workload[t].data
                                             THEN workload[t].data[a] ELSE 0]]
    /\ valid = [t \in DOMAIN workload |-> {}]
    /\ pfOccurred = FALSE
    /\ faulting = [t \in DOMAIN workload |-> NoFault]
    /\ call = [t \in DOMAIN workload |-> NoCall]
    /\ output = [t \in DOMAIN workload |-> <<>>]
    /\ ticked = FALSE
    /\ finished = {} /\ halted = FALSE

Init == \E w \in Workloads : \E order \in SetToSeqs(DOMAIN w) : Start(w, order)

-----------------------------------------------------------------------------
(* The processor.                                                          *)

\* the thread whose kernel or user code is running
Runs(t) == ~ halted /\ t = currentThread

\* in Run, about to execute an instruction
InUserMode(t) == Runs(t) /\ faulting[t].at = NONE /\ ~ call[t].active

\* the page table has no read-only page and no frame out of range
Translate(t, addr, size) ==
    LET vpn == Unsigned(addr) \div PageSize IN
    CASE addr % size # 0                                   -> "AddressError"
      [] addr % size = 0 /\ vpn >= NumPages                -> "AddressError"
      [] addr % size = 0 /\ vpn < NumPages /\ vpn \notin valid[t] -> "PageFault"
      [] OTHER                                             -> "NoException"

Fetch(t) == Translate(t, registers.pc, 4)
Instr(t) == program[t].text[registers.pc \div 4 + 1]

\* The exception an instruction that has been fetched raises, if any.
Exception(t) ==
    LET i == Instr(t)
        op == Decode(i)
        r == registers
    IN
    CASE op = "SYSCALL"         -> "Syscall"
      [] op \in {"RES", "UNIMP"} -> "IllegalInstr"
      [] op \in {"LWL", "LWR", "SWL", "SWR"} /\ Address(i, r) % 4 # 0 -> "Assertion"
      [] op \in Loads \cup Stores -> Translate(t, Address(i, r), AccessSize(op))
      [] Overflows(op, r.gpr[i.rs], r.gpr[i.rt], Extra(i)) -> "Overflow"
      [] OTHER                  -> "NoException"

\* RaiseException applies the load that is pending before it traps.
Trapped(r) == DelayedLoad(r, 0, 0)

\* Run's OneTick when OneInstruction returns: time passes in user mode.
OneTick == ticked' = TRUE

OneInstruction(t) ==
    /\ InUserMode(t) /\ ~ pfOccurred
    /\ Fetch(t) = "NoException" /\ Exception(t) = "NoException"
    /\ registers' = Executed(Instr(t), registers, mainMemory[t])
    /\ mainMemory' = IF Decode(Instr(t)) \in Stores
                     THEN [mainMemory EXCEPT ![t] = Stored(Instr(t), registers, @)]
                     ELSE mainMemory
    /\ OneTick
    /\ UNCHANGED <<program, userRegisters, currentThread, readyList, valid, pfOccurred,
                   kernelVars>>

PassOverAgain(t) ==                     \* bug: pfOccurred is not cleared
    /\ InUserMode(t) /\ pfOccurred
    /\ OneTick
    /\ UNCHANGED <<program, cpuVars, mainMemory, valid, pfOccurred, kernelVars>>

\* Run passes over one instruction after a page fault, whoever's it was.
PassOver(t) ==
    /\ InUserMode(t) /\ pfOccurred
    /\ pfOccurred' = FALSE
    /\ OneTick
    /\ UNCHANGED <<program, cpuVars, mainMemory, valid, kernelVars>>

-----------------------------------------------------------------------------
(* Page faults.                                                            *)

\* The handler's P on the mutex it has just made never waits; interrupts are
\* enabled again at its end, which takes a tick.
TakeMutex(t, addr) ==
    /\ registers' = Trapped(registers)
    /\ faulting' = [faulting EXCEPT ![t] =
                        [at |-> "P", page |-> Unsigned(addr) \div PageSize]]
    /\ ticked' = TRUE
    /\ UNCHANGED <<program, userRegisters, currentThread, readyList, mainMemory, valid,
                   pfOccurred, call, output, finished, halted>>

PageFault(t) ==
    /\ InUserMode(t) /\ ~ pfOccurred
    /\ \/ Fetch(t) = "PageFault" /\ TakeMutex(t, registers.pc)
       \/ /\ Fetch(t) = "NoException" /\ Exception(t) = "PageFault"
          /\ TakeMutex(t, Address(Instr(t), registers))

\* pfOccurred = true, Paging and the V of the mutex, with its tick
PageIn(t) ==
    /\ Runs(t) /\ faulting[t].at = "P"
    /\ pfOccurred' = TRUE
    /\ valid' = [valid EXCEPT ![t] = @ \cup {faulting[t].page}]
    /\ faulting' = [faulting EXCEPT ![t].at = "V"]
    /\ ticked' = TRUE
    /\ UNCHANGED <<program, cpuVars, mainMemory, call, output, finished, halted>>

PagedInSkips(t) ==                      \* bug: j is not put back after a fault
    /\ Runs(t) /\ faulting[t].at = "V"
    /\ faulting' = [faulting EXCEPT ![t] = NoFault]
    /\ call' = [call EXCEPT ![t].ch = IF call[t].active THEN Append(@, 0) ELSE @]
    /\ ticked' = ~ call[t].active
    /\ UNCHANGED <<program, cpuVars, mainMemory, valid, pfOccurred, output, finished, halted>>

\* The exception returns, to Run or to the loop of a Write.
PagedIn(t) ==
    /\ Runs(t) /\ faulting[t].at = "V"
    /\ faulting' = [faulting EXCEPT ![t] = NoFault]
    /\ ticked' = ~ call[t].active
    /\ UNCHANGED <<program, cpuVars, mainMemory, valid, pfOccurred, call, output, finished,
                   halted>>

-----------------------------------------------------------------------------
(* System calls and the end of a program.                                  *)

\* ExceptionHandler advances the program counters before it looks at the call.
AfterCall(r) ==
    [Trapped(r) EXCEPT !.pc = r.nextPC, !.nextPC = Wrap(r.nextPC + 4)]

SC_Halt == 0
SC_Exit == 1
SC_Write == 7
SC_Yield == 10
OtherCalls == {2, 3, 6}         \* Exec and Join, in Processes.tla, and Read

Calling(t) ==
    /\ InUserMode(t) /\ ~ pfOccurred
    /\ Fetch(t) = "NoException" /\ Exception(t) = "Syscall"

Calls(t, number) == Calling(t) /\ Trapped(registers).gpr[2] = number

SwitchToNoLoad(saved, ready) ==         \* bug: LoadReg is not among the saved registers
    /\ userRegisters' = [userRegisters EXCEPT ![currentThread] = [saved EXCEPT !.loadReg = 0]]
    /\ currentThread' = IF ready = <<>> THEN NONE ELSE Head(ready)
    /\ readyList' = IF ready = <<>> THEN <<>> ELSE Tail(ready)
    /\ registers' = IF ready = <<>> THEN saved ELSE userRegisters'[Head(ready)]
    /\ ticked' = FALSE

\* the processor goes to the first thread that is ready, its registers being
\* saved and the other's restored; the time that passed has been noticed
SwitchTo(saved, ready) ==
    /\ userRegisters' = [userRegisters EXCEPT ![currentThread] = saved]
    /\ currentThread' = IF ready = <<>> THEN NONE ELSE Head(ready)
    /\ readyList' = IF ready = <<>> THEN <<>> ELSE Tail(ready)
    /\ registers' = IF ready = <<>> THEN saved ELSE userRegisters'[Head(ready)]
    /\ ticked' = FALSE

\* Finish: the thread is not seen again
Finish(t, r) ==
    /\ finished' = finished \cup {t}
    /\ SwitchTo(r, readyList)
    /\ UNCHANGED <<program, mainMemory, valid, pfOccurred, faulting, output, halted>>

Exit(t) ==
    /\ Calls(t, SC_Exit)
    /\ Finish(t, AfterCall(registers))
    /\ UNCHANGED call

\* the handler of the exceptions that are the program's fault
Kill(t) ==
    /\ InUserMode(t) /\ ~ pfOccurred
    /\ \/ Fetch(t) = "AddressError"
       \/ /\ Fetch(t) = "NoException"
          /\ Exception(t) \in {"AddressError", "Overflow", "IllegalInstr"}
    /\ Finish(t, Trapped(registers))
    /\ UNCHANGED call

Halt(t) ==
    /\ Calls(t, SC_Halt)
    /\ registers' = AfterCall(registers)
    /\ halted' = TRUE
    /\ UNCHANGED <<program, userRegisters, currentThread, readyList, mainMemory, valid,
                   pfOccurred, faulting, call, output, ticked, finished>>

\* A call that exception.cc has no case for, as Create, Open, Close and Fork,
\* does nothing.
Unknown(t) ==
    /\ Calling(t)
    /\ Trapped(registers).gpr[2] \notin
            {SC_Halt, SC_Exit, SC_Write, SC_Yield} \cup OtherCalls
    /\ registers' = AfterCall(registers)
    /\ OneTick
    /\ UNCHANGED <<program, userRegisters, currentThread, readyList, mainMemory, valid,
                   pfOccurred, kernelVars>>

Yield(t) ==
    /\ Calls(t, SC_Yield)
    /\ \/ /\ readyList = <<>>
          /\ registers' = AfterCall(registers)
          /\ OneTick
          /\ UNCHANGED <<userRegisters, currentThread, readyList>>
       \/ /\ readyList # <<>>
          /\ SwitchTo(AfterCall(registers), Append(readyList, t))
    /\ UNCHANGED <<program, mainMemory, valid, pfOccurred, kernelVars>>

Write(t) ==
    /\ Calls(t, SC_Write)
    /\ registers' = AfterCall(registers)
    /\ call' = [call EXCEPT ![t] = [active |-> TRUE, arg1 |-> registers'.gpr[4],
                                    arg3 |-> registers'.gpr[6], ch |-> <<>>]]
    /\ UNCHANGED <<program, userRegisters, currentThread, readyList, mainMemory, valid,
                   pfOccurred, faulting, output, ticked, finished, halted>>

InWrite(t) == Runs(t) /\ call[t].active /\ faulting[t].at = NONE

\* the address of ch[j]; j counts only the bytes that have been read
NextByte(t) == Wrap(call[t].arg1 + Len(call[t].ch))

\* ReadMem of one more byte of the string; no time passes
ReadByte(t) ==
    /\ InWrite(t)
    /\ Translate(t, NextByte(t), 1) = "NoException"
    /\ mainMemory[t][NextByte(t)] # 0
    /\ call' = [call EXCEPT ![t].ch = Append(@, mainMemory[t][NextByte(t)])]
    /\ UNCHANGED <<program, cpuVars, mainMemory, valid, pfOccurred, faulting, output,
                   ticked, finished, halted>>

\* ReadMem returns FALSE and the same byte is read again.
FaultInWrite(t) ==
    /\ InWrite(t)
    /\ Translate(t, NextByte(t), 1) = "PageFault"
    /\ TakeMutex(t, NextByte(t))

KilledInWrite(t) ==
    /\ InWrite(t)
    /\ Translate(t, NextByte(t), 1) = "AddressError"
    /\ Finish(t, Trapped(registers))
    /\ call' = [call EXCEPT ![t] = NoCall]

\* The string is complete: SWrite, unless it is empty, to the terminal or a file.
SWrite(t) ==
    /\ InWrite(t)
    /\ Translate(t, NextByte(t), 1) = "NoException"
    /\ mainMemory[t][NextByte(t)] = 0
    /\ output' = IF call[t].ch # <<>> /\ call[t].arg3 >= 1
                 THEN [output EXCEPT ![t] = Append(@, call[t].ch)] ELSE output
    /\ call' = [call EXCEPT ![t] = NoCall]
    /\ OneTick
    /\ UNCHANGED <<program, cpuVars, mainMemory, valid, pfOccurred, faulting, finished,
                   halted>>

\* The timer of -rs is due after a tick: the current thread yields.
Preempt ==
    /\ ~ halted /\ ticked
    /\ currentThread # NONE /\ readyList # <<>>
    /\ SwitchTo(registers, Append(readyList, currentThread))
    /\ UNCHANGED <<program, mainMemory, valid, pfOccurred, kernelVars>>

\* A failed ASSERT ends Nachos: LWL, LWR, SWL and SWR take aligned addresses.
Abort(t) ==
    /\ InUserMode(t) /\ ~ pfOccurred
    /\ Fetch(t) = "NoException" /\ Exception(t) = "Assertion"
    /\ halted' = TRUE
    /\ UNCHANGED <<program, cpuVars, mainMemory, valid, pfOccurred, faulting, call, output,
                   ticked, finished>>

Step(t) ==
    \/ OneInstruction(t) \/ PassOver(t)
    \/ PageFault(t) \/ PageIn(t) \/ PagedIn(t)
    \/ Exit(t) \/ Kill(t) \/ Halt(t) \/ Unknown(t) \/ Yield(t)
    \/ Write(t) \/ ReadByte(t) \/ FaultInWrite(t) \/ KilledInWrite(t) \/ SWrite(t)
    \/ Abort(t)

Next == (\E t \in DOMAIN program : Step(t)) \/ Preempt

Spec == Init /\ [][Next]_vars

-----------------------------------------------------------------------------
(* Properties.                                                             *)

\* The registers of a thread as its program sees them: its own, wherever they
\* are kept, with the load that is pending.
View(t) == DelayedLoad(IF t = currentThread THEN registers ELSE userRegisters[t], 0, 0)

E(t) == INSTANCE Execute WITH
            text <- program[t].text,
            Reg <- [n \in 1 .. 31 |-> View(t).gpr[n]],
            HI <- View(t).hi, LO <- View(t).lo, pc <- View(t).pc, npc <- View(t).nextPC,
            mem <- mainMemory[t], exited <- t \in finished

\* The instructions on which the two simulators do differ.
Differs(t) ==
    LET i == Instr(t)
        op == Decode(i)
        r == registers
        a == r.gpr[i.rs]
        b == r.gpr[i.rt]
        delaySlot == r.nextPC # r.pc + 4
    IN
    \/ op = "OR"                                        \* rs | rs
    \/ op \in {"SRL", "SRLV"} /\ b < 0                  \* the sign is shifted in
    \/ op \in {"ANDI", "ORI", "XORI"} /\ Extra(i) < 0   \* execute.c extends the sign
    \/ op \in {"DIV", "DIVU"} /\ b = 0
    \/ op = "MULT" /\ \E x \in {a, b} : Magnitude(x) >= 2^HalfBits     \* execute.c
    \/ op = "MULTU" /\ \E x \in {a, b} : Unsigned(x) >= 2^HalfBits     \* loses carries
    \/ op \in {"LWL", "LWR", "SWL", "SWR"}
    \/ op = "JALR" /\ i.rd = i.rs
    \/ op \in Branches /\ delaySlot
    \/ r.loadReg # 0 /\ r.loadReg \in {i.rs, i.rt, Target(i)}   \* no delay in execute.c

\* A program that is stopped for what it did, where execute.c would go on.
Stopped(t) ==
    /\ t \notin finished /\ t \in finished'
    /\ \/ call[t].active
       \/ Fetch(t) # "NoException"
       \/ Exception(t) \in {"AddressError", "Overflow"}
       \/ Decode(Instr(t)) = "UNIMP"                    \* BREAK is a call there

\* translate.cc, mipssim.cc and thread.cc against bin/execute.c: whatever faults
\* its pages take and wherever it is preempted, a program's step is one step of
\* the abstract machine or none at all.
ImplementsExecute ==
    [][\A t \in DOMAIN program :
        \/ E(t)!Step
        \/ UNCHANGED E(t)!vars
        \/ Stopped(t)
        \/ OneInstruction(t) /\ Differs(t)]_vars

\* Kane's instructions: a product has its full double length; a quotient and its
\* remainder make up the dividend again; and a sum that an instruction may trap
\* is delivered when it fits in a word, and the program stopped when it does not.
ArithmeticExact ==
    [][\A t \in DOMAIN program :
        LET i == Instr(t)
            op == Decode(i)
            a == registers.gpr[i.rs]
            b == registers.gpr[i.rt]
            new == registers'
            words == -(2^(WordBits - 1)) .. 2^(WordBits - 1) - 1
            result == CASE op = "ADD" -> a + b
                        [] op = "SUB" -> a - b
                        [] op = "ADDI" -> a + Extra(i)
                        [] OTHER -> 0
        IN
        /\ OneInstruction(t) =>
            /\ op = "MULT" => new.hi * 2^WordBits + Unsigned(new.lo) = a * b
            /\ op = "MULTU" => Unsigned(new.hi) * 2^WordBits + Unsigned(new.lo)
                                  = Unsigned(a) * Unsigned(b)
            /\ op = "DIV" /\ b # 0 =>
                /\ new.lo * b + new.hi = a
                /\ Magnitude(new.hi) < Magnitude(b) /\ new.hi * a >= 0
            /\ op = "DIVU" /\ b # 0 =>
                /\ Unsigned(new.lo) * Unsigned(b) + Unsigned(new.hi) = Unsigned(a)
                /\ Unsigned(new.hi) < Unsigned(b)
            /\ op \in {"ADD", "SUB", "ADDI"} /\ Target(i) # 0 /\ registers.loadReg # Target(i) =>
                new.gpr[Target(i)] = result
        /\ Kill(t) /\ Fetch(t) = "NoException" /\ op \in {"ADD", "SUB", "ADDI"} =>
            result \notin words]_vars

\* The bytes of a memory from an address up to the next 0.
StringAt(memory, addr) ==
    LET end == CHOOSE e \in addr .. NumPages * PageSize - 1 :
                   /\ memory[e] = 0
                   /\ \A x \in addr .. e - 1 : memory[x] # 0
    IN [k \in 1 .. end - addr |-> memory[addr + k - 1]]

\* exception.cc:158-173: however many page faults interrupt the copying of a
\* string, what is written is the whole of it, once.
WritesWhole ==
    [][\A t \in DOMAIN program : output'[t] # output[t] =>
        output'[t] = Append(output[t], StringAt(mainMemory[t], call[t].arg1))]_vars
=============================================================================
