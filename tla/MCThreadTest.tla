----------------------------- MODULE MCThreadTest -----------------------------
(* Three threads for the programs of threadtest.cc.                        *)
EXTENDS ThreadTest, TLC

CONSTANTS main, p0, p1, p2, mutex, c0, c1, c2, b0, b1, b2, inst

MCNumber == p0 :> 0 @@ p1 :> 1 @@ p2 :> 2
MCSemChops == 0 :> c0 @@ 1 :> c1 @@ 2 :> c2
MCBox == 0 :> b0 @@ 1 :> b1 @@ 2 :> b2

MCInitialValue ==
    [s \in Semaphores |-> CASE s \in {mutex, inst}   -> 1
                            [] s \in {b0, b1, b2}    -> S
                            [] OTHER                 -> 0]

MCLines ==
    UNION {[1..n -> {"Digit", "Minus", "Point"}] : n \in 0..3}
        \cup {<<"Space", "Digit">>, <<"Digit", "Space">>, <<"Digit", "Space", "Digit">>,
              <<"Digit", "Other">>, <<"Other">>, <<"Slash">>, <<"Space", "Slash">>,
              <<"Minus", "Digit", "Point", "Digit">>, <<"Digit", "Point", "Point", "Digit">>,
              <<"Digit", "Digit", "Point", "Digit">>,
              <<"Minus", "Digit", "Digit", "Point", "Digit">>,
              <<"Minus", "Digit", "Point", "Space">>}

Words == {"HUNGRY", "EATING", "THINKING"}

Blank == [state      |-> [i \in Philosophers |-> "THINKING"],
          chopsticks |-> [i \in Philosophers |-> FALSE],
          postOffice |-> [i \in People |-> [k \in 0..S |-> FALSE]]]

States == {[Blank EXCEPT !.state = s] : s \in [Philosophers -> Words]}
Tables(memories) ==
    {[m EXCEPT !.chopsticks = c] : m \in memories, c \in [Philosophers -> BOOLEAN]}

\* one box, or every box, with something in its slots or behind them
Boxes == [0..S -> BOOLEAN]
Offices ==
    {[Blank EXCEPT !.postOffice[0] = b] : b \in Boxes}
        \cup {[Blank EXCEPT !.postOffice = [i \in People |-> b]] : b \in Boxes}

\* fewer of them where the random timer makes many behaviours of each
SomeStates ==
    {Blank, [Blank EXCEPT !.state[0] = "HUNGRY"],
     [Blank EXCEPT !.state = [i \in Philosophers |-> "EATING"]]}
SomeOffices == {Blank, [Blank EXCEPT !.postOffice[0][0] = TRUE]}

Old(option, rs, typed, memories) ==
    [task : {option}, choice : {0}, rs : {rs}, typed : {typed}, memory : memories]
Clean(choices, rs) ==
    [task : {0}, choice : choices, rs : {rs}, typed : {0}, memory : {Blank}]

MCBoots ==
    UNION {Old(1, FALSE, 0, {Blank}), Old(2, FALSE, 0, {Blank}), Old(2, TRUE, 0, {Blank}),
           Old(3, FALSE, 2, Tables(States)), Old(3, TRUE, 2, Tables({Blank})),
           Old(4, FALSE, 3, States), Old(4, TRUE, 2, SomeStates),
           Old(5, FALSE, 7, Offices), Old(5, TRUE, 2, SomeOffices),
           Old(6, FALSE, 3, {Blank}),
           Clean({1, 2, 3, 4, 6}, FALSE), Clean({1, 2, 3, 4, 6}, TRUE)}

\* for doc_neighbours: the memory is fresh, and 0 is HUNGRY
HungryBoots == Old(4, TRUE, 5, {[Blank EXCEPT !.state = [i \in Philosophers |-> "HUNGRY"]]})
=============================================================================
