-------------------------------- MODULE Dining --------------------------------
(***************************************************************************)
(* The dining philosophers of threads/threadtest.cc (older tree): nachos   *)
(* -A 3 with busy waiting, -A 4 with semaphores.  Both use Dine.           *)
(***************************************************************************)
EXTENDS Programs

CONSTANTS
    Mutex,          \* the semaphore mutex
    SemChops        \* semChops: a semaphore for each philosopher

ASSUME DiningAssumption ==
    /\ Mutex \in Semaphores /\ InitialValue[Mutex] = 1
    /\ SemChops \in [0..(N - 1) -> Semaphores \ {Mutex}]
    /\ \A i \in 0..(N - 1) : InitialValue[SemChops[i]] = 0
    /\ \A i, j \in 0..(N - 1) : SemChops[i] = SemChops[j] => i = j

VARIABLES
    numPhilsEntered, numPhilsSat, numMeals,
    state,              \* the array of philState
    chopsticks,         \* chopsticks[i][i + 1]: i has its two chopsticks
    testing             \* the philosopher whom test is called for: the
                        \* thread's own, its left or its right neighbour

diningVars == <<numPhilsEntered, numPhilsSat, numMeals, state, chopsticks, testing>>

Philosophers == 0..(N - 1)

Left(i) == (i + N - 1) % N
Right(i) == (i + 1) % N

\* nothing is written to the two arrays between their allocation and the forks
DiningInit ==
    /\ numPhilsEntered = 0
    /\ numPhilsSat = 0
    /\ state = memory.state
    /\ chopsticks = memory.chopsticks
    /\ testing = [t \in Workers |-> "self"]

Target(t) == CASE testing[t] = "self"  -> Number[t]
               [] testing[t] = "left"  -> Left(Number[t])
               [] testing[t] = "right" -> Right(Number[t])

Set(i, s) == state' = [state EXCEPT ![i] = s]

TestFor(t, whom) == testing' = [testing EXCEPT ![t] = whom]

ClearOnTheLeft(i) ==                    \* bug: one neighbour is looked at
    state[i] = "HUNGRY" /\ state[Left(i)] # "EATING"

\* i is hungry and neither neighbour eats
Clear(i) ==
    /\ state[i] = "HUNGRY"
    /\ state[Left(i)] # "EATING"
    /\ state[Right(i)] # "EATING"

-----------------------------------------------------------------------------
(* Dine: enter, sit down together, dine until no meals are left, and leave *)
(* together.                                                               *)

Enter(t) ==
    /\ task \in {3, 4}
    /\ At(t, "start")
    /\ numPhilsEntered' = numPhilsEntered + 1
    /\ Local(t, "entered")
    /\ UNCHANGED <<numPhilsSat, numMeals, state, chopsticks, testing, toWait>>

SitDown(t) ==
    /\ At(t, "entered")
    /\ \/ /\ numPhilsEntered < N
          /\ CallYield(t, "entered")
          /\ UNCHANGED numPhilsSat
       \/ /\ numPhilsEntered >= N
          /\ numPhilsSat' = numPhilsSat + 1
          /\ Local(t, "sat")
    /\ UNCHANGED <<numPhilsEntered, numMeals, state, chopsticks, testing, toWait>>

AwaitOthers(t) ==
    /\ At(t, "sat")
    /\ \/ numPhilsSat < N /\ CallYield(t, "sat")
       \/ numPhilsSat >= N /\ Local(t, "dine")
    /\ UNCHANGED <<diningVars, toWait>>

Dine(t) ==
    /\ At(t, "dine")
    /\ \/ /\ numMeals > 0 /\ task = 3
          /\ Set(Number[t], "HUNGRY")
          /\ TestFor(t, "self")
          /\ Local(t, "test_BW")
          /\ UNCHANGED numPhilsSat
       \/ /\ numMeals > 0 /\ task = 4
          /\ CallP(t, Mutex, "take")
          /\ UNCHANGED <<state, testing, numPhilsSat>>
       \/ /\ numMeals <= 0
          /\ numPhilsSat' = numPhilsSat - 1
          /\ Local(t, "ready")
          /\ UNCHANGED <<state, testing>>
    /\ UNCHANGED <<numPhilsEntered, numMeals, chopsticks, toWait>>

Leave(t) ==
    /\ At(t, "ready")
    /\ \/ numPhilsSat > 0 /\ CallYield(t, "ready")
       \/ numPhilsSat <= 0 /\ CallFinish(t, "left")
    /\ UNCHANGED <<diningVars, toWait>>

-----------------------------------------------------------------------------
(* take_chopsticks, test, eat, put_chopsticks and think: semaphores.       *)

take_chopsticks(t) ==
    /\ At(t, "take")
    /\ Set(Number[t], "HUNGRY")
    /\ TestFor(t, "self")
    /\ Local(t, "test")
    /\ UNCHANGED <<numPhilsEntered, numPhilsSat, numMeals, chopsticks, toWait>>

\* V comes before the meal is counted
test(t) ==
    /\ At(t, "test")
    /\ \/ /\ Clear(Target(t)) /\ numMeals > 0
          /\ Set(Target(t), "EATING")
          /\ CallV(t, SemChops[Target(t)], "granted")
       \/ /\ ~ (Clear(Target(t)) /\ numMeals > 0)
          /\ Local(t, "tested")
          /\ UNCHANGED state
    /\ UNCHANGED <<numPhilsEntered, numPhilsSat, numMeals, chopsticks, testing, toWait>>

CountMeal(t) ==
    /\ At(t, "granted")
    /\ numMeals' = numMeals - 1
    /\ Local(t, "tested")
    /\ UNCHANGED <<numPhilsEntered, numPhilsSat, state, chopsticks, testing, toWait>>

AfterTestKeepsMutex(t) ==               \* bug: mutex is not released
    /\ At(t, "tested")
    /\ testing' = [testing EXCEPT ![t] = IF @ = "left" THEN "right" ELSE @]
    /\ Local(t, CASE testing[t] = "self"  -> "await"
                  [] testing[t] = "left"  -> "test"
                  [] testing[t] = "right" -> "think")
    /\ UNCHANGED <<numPhilsEntered, numPhilsSat, numMeals, state, chopsticks, toWait>>

AfterTest(t) ==
    /\ At(t, "tested")
    /\ \/ /\ testing[t] = "self"
          /\ CallV(t, Mutex, "await")
          /\ UNCHANGED testing
       \/ /\ testing[t] = "left"
          /\ TestFor(t, "right")
          /\ Local(t, "test")
       \/ /\ testing[t] = "right"
          /\ CallV(t, Mutex, "think")
          /\ UNCHANGED testing
    /\ UNCHANGED <<numPhilsEntered, numPhilsSat, numMeals, state, chopsticks, toWait>>

AwaitChopsticks(t) ==
    /\ At(t, "await")
    /\ CallP(t, SemChops[Number[t]], "eat")
    /\ UNCHANGED <<diningVars, toWait>>

eat(t) ==
    /\ \/ At(t, "eat") /\ Pause(t) /\ Local(t, "eating")
       \/ At(t, "eating") /\ Waiting(t, "eating")
       \/ At(t, "eating") /\ toWait[t] = 0 /\ CallP(t, Mutex, "put") /\ UNCHANGED toWait
    /\ UNCHANGED diningVars

put_chopsticks(t) ==
    /\ At(t, "put")
    /\ Set(Number[t], "THINKING")
    /\ TestFor(t, "left")
    /\ Local(t, "test")
    /\ UNCHANGED <<numPhilsEntered, numPhilsSat, numMeals, chopsticks, toWait>>

think(t) ==
    /\ \/ /\ At(t, "think")
          /\ Set(Number[t], "THINKING")
          /\ Pause(t)
          /\ Local(t, "thinking")
       \/ /\ At(t, "thinking")
          /\ \/ Waiting(t, "thinking")
             \/ toWait[t] = 0 /\ Local(t, "dine") /\ UNCHANGED toWait
          /\ UNCHANGED state
    /\ UNCHANGED <<numPhilsEntered, numPhilsSat, numMeals, chopsticks, testing>>

-----------------------------------------------------------------------------
(* The same with busy waiting.  A thread that tests for a neighbour picks  *)
(* up the neighbour's chopsticks and eats in its place.                    *)

\* nobody near i has chopsticks, i included
OnTable(i) == \A j \in {Left(i), i, Right(i)} : ~ chopsticks[j]

test_BW(t) ==
    LET i == Target(t) IN
    /\ At(t, "test_BW")
    /\ \/ /\ Clear(i) /\ OnTable(i)
          /\ chopsticks' = [chopsticks EXCEPT ![i] = TRUE]
          /\ numMeals' = numMeals - 1
          /\ Pause(t)
          /\ Local(t, "eating_BW")
       \/ /\ Clear(i) /\ ~ OnTable(i)
          /\ Local(t, "waiting_BW")
          /\ UNCHANGED <<chopsticks, numMeals, toWait>>
       \/ /\ ~ Clear(i)
          /\ Local(t, "tested_BW")
          /\ UNCHANGED <<chopsticks, numMeals, toWait>>
    /\ UNCHANGED <<numPhilsEntered, numPhilsSat, state, testing>>

AwaitPut_BW(t) ==
    /\ At(t, "waiting_BW")
    /\ \/ chopsticks[Target(t)] /\ CallYield(t, "waiting_BW")
       \/ ~ chopsticks[Target(t)] /\ Local(t, "tested_BW")
    /\ UNCHANGED <<diningVars, toWait>>

eat_BW(t) ==
    /\ At(t, "eating_BW")
    /\ \/ Waiting(t, "eating_BW")
       \/ toWait[t] = 0 /\ Local(t, "tested_BW") /\ UNCHANGED toWait
    /\ UNCHANGED diningVars

\* the rest of take_chopsticks_BW, and put_chopsticks_BW
AfterTest_BW(t) ==
    LET i == Number[t] IN
    /\ At(t, "tested_BW")
    /\ \/ /\ testing[t] = "self" /\ chopsticks[i]
          /\ chopsticks' = [chopsticks EXCEPT ![i] = FALSE]
          /\ Set(i, "THINKING")
          /\ Pause(t)
          /\ Local(t, "thinking_BW")
          /\ UNCHANGED testing
       \/ /\ testing[t] = "self" /\ ~ chopsticks[i]
          /\ TestFor(t, "left")
          /\ Local(t, "test_BW")
          /\ UNCHANGED <<chopsticks, state, toWait>>
       \/ /\ testing[t] = "left"
          /\ TestFor(t, "right")
          /\ Local(t, "test_BW")
          /\ UNCHANGED <<chopsticks, state, toWait>>
       \/ /\ testing[t] = "right"
          /\ Local(t, "dine")
          /\ UNCHANGED <<testing, chopsticks, state, toWait>>
    /\ UNCHANGED <<numPhilsEntered, numPhilsSat, numMeals>>

think_BW(t) ==
    /\ At(t, "thinking_BW")
    /\ \/ Waiting(t, "thinking_BW") /\ UNCHANGED testing
       \/ toWait[t] = 0 /\ TestFor(t, "left") /\ Local(t, "test_BW") /\ UNCHANGED toWait
    /\ UNCHANGED <<numPhilsEntered, numPhilsSat, numMeals, state, chopsticks>>

-----------------------------------------------------------------------------

DineStep(t) == Enter(t) \/ SitDown(t) \/ AwaitOthers(t) \/ Dine(t) \/ Leave(t)

SemaphoreStep(t) ==
    \/ take_chopsticks(t) \/ test(t) \/ CountMeal(t) \/ AfterTest(t)
    \/ AwaitChopsticks(t) \/ eat(t) \/ put_chopsticks(t) \/ think(t)

BusyStep(t) ==
    test_BW(t) \/ AwaitPut_BW(t) \/ eat_BW(t) \/ AfterTest_BW(t) \/ think_BW(t)

DiningStep(t) == t \in Workers /\ (DineStep(t) \/ SemaphoreStep(t) \/ BusyStep(t))

-----------------------------------------------------------------------------
(* Properties.                                                             *)

\* t has been given its chopsticks and has not put them down
Eats(t) ==
    \/ pc[t] = "eat" /\ resume[t] # "P"
    \/ pc[t] \in {"eating", "put"}

NeighboursDoNotEat ==
    \A t, u \in Workers :
        Eats(t) /\ Eats(u) /\ Number[u] = Right(Number[t]) => t = u

\* t has been to take_chopsticks and has not been to put_chopsticks since: only
\* then does the word EATING in the array say that it was given its chopsticks
AtMeal(t) ==
    \/ pc[t] \in {"test", "granted", "tested"} /\ testing[t] = "self"
    \/ pc[t] \in {"await", "eat", "eating", "put"}

GrantsMatched ==
    \A t \in Workers :
        LET i == Number[t] IN
        semValue[SemChops[i]] + (IF Eats(t) THEN 1 ELSE 0)
            = IF task = 4 /\ state[i] = "EATING" /\ AtMeal(t) THEN 1 ELSE 0

NoChopstickTwice ==
    \A i \in Philosophers :
        chopsticks[i] /\ chopsticks[Right(i)] =>
            N = 1 \/ (memory.chopsticks[i] /\ memory.chopsticks[Right(i)])

NoMealTooMany == task = 4 => numMeals >= 0

\* The array of states, which nothing sets, says HUNGRY of a philosopher, and
\* with the random timer others eat before it has come to the table: it can be
\* served when they put their chopsticks down.
MayBeServedEarly == randomYield /\ \E i \in Philosophers : memory.state[i] = "HUNGRY"

\* Whatever the arrays say at the start: in task 3 no two neighbours have their
\* chopsticks up, whichever thread eats with them, but two that were up when the
\* array was made; and in task 4 no more meals are served than were ordered, as
\* mutex is held between the look at numMeals and its decrement.  Unless some
\* philosopher may be served before it comes to the table, neighbours do not eat
\* at the same time in task 4, and each time one is found to be able to eat it
\* gets one V and eats once: EATING then means that its semaphore holds the V,
\* or that it has taken it and eats, and never both.
DiningInv ==
    /\ ~ MayBeServedEarly => NeighboursDoNotEat /\ GrantsMatched
    /\ NoChopstickTwice
    /\ NoMealTooMany
=============================================================================
