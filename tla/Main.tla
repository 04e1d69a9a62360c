---------------------------------- MODULE Main ----------------------------------
(***************************************************************************)
(* What main (threads/main.cc) starts on the simulated machine, as its     *)
(* command line says: a program that runs on the processor (-x), the test  *)
(* of the console (-c), or, with neither, threads in the kernel that use   *)
(* the devices.  Of the last only the time is here: when each device       *)
(* interrupts them.                                                        *)
(***************************************************************************)
EXTENDS Machine, Console, Interrupts

VARIABLE flag       \* "-x", "-c" or "none"

mainVars == <<flag, vars, consoleVars, timeVars>>

\* The console exists with -c only, and no program has started then.
MainInit ==
    /\ ConsoleInit
    /\ \/ flag = "-x" /\ Init
       \/ flag \in {"-c", "none"} /\ Start(<<>>, <<NONE>>)
    /\ TimeInit
    /\ flag # "none" => randomize = "none"

StartProcess == flag = "-x" /\ Next /\ UNCHANGED <<flag, consoleVars, timeVars>>
ConsoleTest == flag = "-c" /\ ConsoleNext /\ UNCHANGED <<flag, vars, timeVars>>

KernelThreads == flag = "none" /\ TimeNext /\ UNCHANGED <<flag, vars, consoleVars>>

MainNext == StartProcess \/ ConsoleTest \/ KernelThreads

\* A processor that has an instruction to execute executes it; the console's
\* devices and its test go on by themselves.
MainSpec ==
    /\ MainInit /\ [][MainNext]_mainVars
    /\ WF_mainVars(StartProcess) /\ ConsoleFairness

-----------------------------------------------------------------------------
(* Properties.                                                             *)

\* Programs come to their end, preempted and faulting as they may be: no page
\* fault, and no pfOccurred that another program's fault has set, stops one for
\* ever.
ProgramsEnd == flag = "-x" => <> (halted \/ finished = DOMAIN program)
=============================================================================
