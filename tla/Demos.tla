--------------------------------- MODULE Demos ---------------------------------
(***************************************************************************)
(* The programs of the clean tree's threads/threadtest.cc: nachos -A 2,    *)
(* the zombies, 3, the spawning threads, and 4 or 5, the philosophers, who *)
(* are forked as PhiloBusy for both.                                       *)
(***************************************************************************)
EXTENDS Programs

VARIABLES
    humans,             \* HIDE, RUN or ZOMBIE
    maxThread,          \* the threads that have been born
    philoSat, philoAte,
    chops               \* the chopsticks that are on the table

demoVars == <<humans, maxThread, philoSat, philoAte, chops>>

\* one thread is the zombie, the others the humans
Humans == 0..(N - 2)
Zombie == Worker(N - 1)

DemoInit ==
    /\ humans = [h \in Humans |-> "HIDE"]
    /\ maxThread = 0
    /\ philoSat = 0
    /\ philoAte = 0
    /\ chops = [i \in 0..(N - 1) |-> TRUE]

-----------------------------------------------------------------------------
(* Zombies.                                                                *)

ForkZombies ==
    /\ threadChoice = 2
    /\ At(Main, "start")
    /\ \/ forked = 0 /\ ForkNext(Zombie)
       \/ forked \in 1..(N - 1) /\ ForkNext(Worker(forked - 1))
       \/ forked = N /\ CallFinish(Main, "left") /\ UNCHANGED toWait
    /\ UNCHANGED demoVars

\* a turn of the loop of zombieStuff, which begins with zombieCheck
zombieStuff(t) ==
    /\ threadChoice = 2
    /\ \/ At(t, "start") /\ t = Zombie
       \/ At(t, "zombie")
    /\ \/ /\ \E h \in Humans : humans[h] # "ZOMBIE"
          /\ \E h \in Humans : humans' = IF humans[h] = "RUN"
                                         THEN [humans EXCEPT ![h] = "ZOMBIE"]
                                         ELSE humans
          /\ CallYield(t, "zombie")
       \/ /\ \A h \in Humans : humans[h] = "ZOMBIE"
          /\ CallFinish(t, "left")
          /\ UNCHANGED humans
    /\ UNCHANGED <<maxThread, philoSat, philoAte, chops, toWait>>

humanStuff(t) ==
    LET which == Number[t] IN
    /\ threadChoice = 2 /\ t # Zombie
    /\ \/ /\ At(t, "start") /\ humans[which] # "ZOMBIE"
          /\ humans' = [humans EXCEPT ![which] = "HIDE"]
          /\ Pause(t)
          /\ Local(t, "hiding")
       \/ /\ At(t, "start") /\ humans[which] # "ZOMBIE"
          /\ humans' = [humans EXCEPT ![which] = "RUN"]
          /\ CallYield(t, "start")
          /\ UNCHANGED toWait
       \/ /\ At(t, "start") /\ humans[which] = "ZOMBIE"
          /\ Local(t, "zombie")
          /\ UNCHANGED <<humans, toWait>>
       \/ /\ At(t, "hiding")
          /\ \/ Waiting(t, "hiding")
             \/ toWait[t] = 0 /\ Local(t, "start") /\ UNCHANGED toWait
          /\ UNCHANGED humans
    /\ UNCHANGED <<maxThread, philoSat, philoAte, chops>>

-----------------------------------------------------------------------------
(* Spawning threads: bounded here by the Thread objects there are.         *)

spawn(t) ==
    /\ threadChoice = 3
    /\ \/ /\ At(t, "start") /\ maxThread + 1 < N
          /\ maxThread' = maxThread + 1
          /\ Fork(t, Worker(maxThread + 1))
          /\ GoTo(t, "born")
          /\ interruptible' = TRUE
          /\ UNCHANGED synchVars
       \/ At(t, "born") /\ CallYield(t, "start") /\ UNCHANGED maxThread
       \/ At(t, "start") /\ CallFinish(t, "left") /\ UNCHANGED maxThread
    /\ UNCHANGED <<humans, philoSat, philoAte, chops, toWait>>

-----------------------------------------------------------------------------
(* Philosophers who wait for a chopstick in a loop, the left one first.    *)

LeftStick(t) == Number[t]
RightStick(t) == (Number[t] + 1) % N

Seat(t) ==
    /\ threadChoice \in {4, 5}
    /\ \/ /\ At(t, "start")
          /\ philoSat' = philoSat + 1
          /\ Local(t, "sitting")
          /\ UNCHANGED toWait
       \/ /\ At(t, "sitting") /\ philoSat < N
          /\ CallYield(t, "sitting")
          /\ UNCHANGED <<philoSat, toWait>>
       \/ /\ At(t, "sitting") /\ philoSat >= N
          /\ philoSat' = IF philoSat = N THEN philoSat + 1 ELSE philoSat
          /\ Pause(t)
          /\ Local(t, "hungry")
    /\ UNCHANGED <<humans, maxThread, philoAte, chops>>

PickUntested(t) ==                      \* bug: the right one is not waited for
    /\ \/ /\ At(t, "hungry") /\ philoAte < Rounds
          /\ Local(t, "neither")
          /\ UNCHANGED chops
       \/ /\ At(t, "neither") /\ chops[LeftStick(t)]
          /\ chops' = [chops EXCEPT ![LeftStick(t)] = FALSE]
          /\ Local(t, "one")
       \/ /\ At(t, "one")
          /\ chops' = [chops EXCEPT ![RightStick(t)] = FALSE]
          /\ Local(t, "both")
    /\ UNCHANGED <<humans, maxThread, philoSat, philoAte, toWait>>

Pick(t) ==
    /\ \/ /\ At(t, "hungry") /\ philoAte < Rounds
          /\ Local(t, "neither")
          /\ UNCHANGED chops
       \/ /\ At(t, "neither") /\ chops[LeftStick(t)]
          /\ chops' = [chops EXCEPT ![LeftStick(t)] = FALSE]
          /\ Local(t, "one")
       \/ /\ At(t, "one") /\ chops[RightStick(t)]
          /\ chops' = [chops EXCEPT ![RightStick(t)] = FALSE]
          /\ Local(t, "both")
       \/ /\ \/ At(t, "neither") /\ ~ chops[LeftStick(t)]
             \/ At(t, "one") /\ ~ chops[RightStick(t)]
          /\ CallYield(t, pc[t])
          /\ UNCHANGED chops
    /\ UNCHANGED <<humans, maxThread, philoSat, philoAte, toWait>>

\* the meal, if any is left, and the thinking: timesToLoop is toWait
Nom(t) ==
    /\ \/ /\ At(t, "both")
          /\ philoAte' = IF philoAte < Rounds THEN philoAte + 1 ELSE philoAte
          /\ Local(t, IF philoAte < Rounds THEN "nomming" ELSE "putting")
          /\ UNCHANGED <<chops, toWait>>
       \/ /\ At(t, "nomming")
          /\ \/ Waiting(t, "nomming")
             \/ toWait[t] = 0 /\ Pause(t) /\ Local(t, "putting")
          /\ UNCHANGED <<philoAte, chops>>
       \/ /\ At(t, "putting")
          /\ chops' = [chops EXCEPT ![LeftStick(t)] = TRUE, ![RightStick(t)] = TRUE]
          /\ Local(t, "odd")
          /\ UNCHANGED <<philoAte, toWait>>
       \/ /\ At(t, "odd")
          /\ \/ Waiting(t, "odd")
             \/ toWait[t] = 0 /\ Pause(t) /\ Local(t, "hungry")
          /\ UNCHANGED <<philoAte, chops>>
       \/ /\ At(t, "hungry") /\ philoAte >= Rounds
          /\ CallFinish(t, "left")
          /\ UNCHANGED <<philoAte, chops, toWait>>
    /\ UNCHANGED <<humans, maxThread, philoSat>>

DemoStep(t) ==
    /\ t \in Workers
    /\ zombieStuff(t) \/ humanStuff(t) \/ spawn(t) \/ Seat(t) \/ Pick(t) \/ Nom(t)

-----------------------------------------------------------------------------
(* Properties.                                                             *)

\* A chopstick is off the table exactly when one philosopher has it: there is
\* no turn of another thread between finding it and taking it.
Has(t, i) ==
    \/ i = LeftStick(t) /\ pc[t] \in {"one", "both", "nomming", "putting"}
    \/ i = RightStick(t) /\ pc[t] \in {"both", "nomming", "putting"}

ChopsticksHeldOnce ==
    threadChoice \in {4, 5} =>
        \A i \in 0..(N - 1) :
            Cardinality({t \in Workers : Has(t, i)}) = IF chops[i] THEN 0 ELSE 1
=============================================================================
