------------------------------ MODULE ThreadTest ------------------------------
(***************************************************************************)
(* The function ThreadTest of both trees: the main thread runs the program *)
(* that the -A option chooses.  All programs run on the same kernel; what  *)
(* Random gives, and what the user answers, is open.                       *)
(***************************************************************************)
EXTENDS Shouts, Dining, MailRoom, Demos, RockBand

CONSTANTS
    Boots       \* the option -A of either tree, -rs, the number of meals or
                \* messages typed, and what is in the memory that new returns

allVars == <<vars, programVars, shoutVars, diningVars, mailVars, demoVars, bandVars>>

\* No array of the older tree is set before it is used.  A word of state that is
\* none of the enumeration counts as THINKING, for which no program tests.
Memories ==
    [state : [Philosophers -> {"HUNGRY", "EATING", "THINKING"}],
     chopsticks : [Philosophers -> BOOLEAN],
     postOffice : [People -> [0..S -> BOOLEAN]]]

ASSUME ThreadTestAssumption ==
    /\ Boots \subseteq [task : 0..6, choice : 0..6, rs : BOOLEAN, typed : Nat,
                       memory : Memories]
    /\ \A boot \in Boots : boot.task = 0 \/ boot.choice = 0

\* task34Input and task56Input, up to the loops that fork
Input(typed) ==
    /\ numMeals = typed
    /\ M = typed
    /\ messageSend = IF task = 5 THEN M - 1 ELSE M

TestInit ==
    /\ ProgramInit
    /\ \E boot \in Boots :
          /\ task = boot.task /\ threadChoice = boot.choice /\ randomYield = boot.rs
          /\ memory = boot.memory
          /\ Input(boot.typed)
    /\ ShoutInit /\ DiningInit /\ MailInit /\ DemoInit /\ BandInit

-----------------------------------------------------------------------------
\* what a step of each program leaves alone
OnlyShouts == UNCHANGED <<diningVars, mailVars, demoVars, bandVars>>
OnlyDining == UNCHANGED <<shoutVars, mailVars, demoVars, bandVars>>
OnlyMail == UNCHANGED <<shoutVars, diningVars, demoVars, bandVars>>
OnlyDemos == UNCHANGED <<shoutVars, diningVars, mailVars, bandVars>>
OnlyBand == UNCHANGED <<shoutVars, diningVars, mailVars, demoVars>>
NoProgram == OnlyShouts /\ UNCHANGED shoutVars

Start ==
    \/ /\ threadChoice # 2
       /\ ForkWorkers(IF task = 1 \/ threadChoice = 3 THEN 1 ELSE N)
       /\ NoProgram
    \/ ForkZombies /\ OnlyDemos

Work(t) ==
    \/ ShoutStep(t) /\ OnlyShouts
    \/ DiningStep(t) /\ OnlyDining
    \/ MailStep(t) /\ OnlyMail
    \/ DemoStep(t) /\ OnlyDemos
    \/ BandStep(t) /\ OnlyBand

TestNext ==
    \/ Start
    \/ \E t \in Workers : Work(t)
    \/ Kernel /\ NoProgram

TestSpec == TestInit /\ [][TestNext]_allVars

\* The CPU never stops while there is something to do.
FairTestSpec == TestSpec /\ WF_allVars(TestNext)

-----------------------------------------------------------------------------
(* Properties.                                                             *)

\* What several threads want is held by one: the chopsticks of PhiloBusy and the
\* instruments of the band are found free and taken in one turn of a thread.
HeldOnce == ChopsticksHeldOnce /\ InstrumentsHeldOnce

\* Busy waiting needs a table that is laid: a chopstick that is up when the array
\* is made has nobody who puts it down, and a neighbour that is EATING by the
\* array of states makes a philosopher test again and again without a Yield.
TableLaid ==
    \A i \in Philosophers : ~ memory.chopsticks[i] /\ memory.state[i] # "EATING"

MealsServed == task = 4 \/ (task = 3 /\ TableLaid) => <>(numMeals <= 0)

AllLeft == \A t \in Threads : pc[t] = "left" \/ status[t] = "NONE"

EveryoneLeaves == task \in {2, 6} \/ threadChoice \in {1, 3, 6} => <>AllLeft

\* With threads that give up the CPU only of their own accord, the meals that
\* were ordered are eaten, no philosopher keeping the others waiting for ever;
\* and the programs that cannot hang then come to their end: every thread that
\* was made leaves.
TestsFinish == ~ randomYield => MealsServed /\ EveryoneLeaves
=============================================================================
