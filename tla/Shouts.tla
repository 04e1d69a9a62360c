-------------------------------- MODULE Shouts --------------------------------
(***************************************************************************)
(* The first programs of threads/threadtest.cc (older tree): nachos -A 1   *)
(* says of what type each line typed is, -A 2 is the shouting threads.     *)
(* A line is a sequence of classes of characters: Digit, Minus, Point,     *)
(* Space, Other, and Slash, which stops task 1.                            *)
(***************************************************************************)
EXTENDS Programs

CONSTANTS Lines     \* the lines that can be typed

Characters == {"Digit", "Minus", "Point", "Space", "Other", "Slash"}

ASSUME LinesAssumption == \A line \in Lines : line \in Seq(Characters)

VARIABLES
    buffer,         \* the last line, as ValidateInput passes it on
    iType,          \* what EvaluateInput said of it
    shout           \* the loop variable of Shout, and of shoutingThreads

shoutVars == <<buffer, iType, shout>>

ShoutInit ==
    /\ buffer = <<>>
    /\ iType = "none"
    /\ shout = [t \in Workers |-> 0]

-----------------------------------------------------------------------------
(* Task 1.                                                                 *)

IsChar(c) == c \notin {"Digit", "Minus", "Point"}

\* the line without the spaces at its end
Trimmed(line) ==
    LET last == {k \in DOMAIN line : line[k] # "Space"}
    IN  SubSeq(line, 1, IF last = {} THEN 0 ELSE Max(last))

SpoilsNotTwice(input, i) ==             \* bug: a second point is not noticed
    \/ IsChar(input[i])
    \/ input[i] = "Minus" /\ (i # 1 \/ Len(input) = 1)
    \/ input[i] = "Point" /\ (i \in {1, Len(input)} \/ (i = 2 /\ input[1] = "Minus"))

\* the loop of EvaluateInput returns CHAR at i
Spoils(input, i) ==
    \/ IsChar(input[i])
    \/ input[i] = "Minus" /\ (i # 1 \/ Len(input) = 1)
    \/ /\ input[i] = "Point"
       /\ \/ \E j \in 1..(i - 1) : input[j] = "Point"
          \/ i \in {1, Len(input)}
          \/ i = 2 /\ input[1] = "Minus"

EvaluateInput(line) ==
    LET input == Trimmed(line)
        maybeNegative == input[1] = "Minus"
        maybeDecimal == \E i \in DOMAIN input : input[i] = "Point"
    IN  IF input = <<>> THEN "UNEXPECTED"
        ELSE IF \E i \in DOMAIN input : Spoils(input, i) THEN "CHAR"
        ELSE CASE maybeNegative /\ maybeDecimal     -> "NEGDEC"
               [] maybeNegative /\ ~ maybeDecimal   -> "NEGINT"
               [] ~ maybeNegative /\ maybeDecimal   -> "DEC"
               [] ~ maybeNegative /\ ~ maybeDecimal -> "INT"

\* the line without the spaces at its beginning
Stripped(line) ==
    LET kept == {k \in DOMAIN line : line[k] # "Space"}
    IN  IF kept = {} THEN <<>> ELSE SubSeq(line, Min(kept), Len(line))

Stops(line) == line # <<>> /\ line[1] = "Slash"

\* A turn of the loop.  Its first test reads a buffer nothing was read into,
\* so the loop may end before it begins.
ValidateInput(t) ==
    /\ task = 1
    /\ At(t, "start")
    /\ \/ /\ ~ Stops(buffer)
          /\ \E line \in Lines :
                /\ buffer' = Stripped(line)
                /\ iType' = EvaluateInput(Stripped(line))
          /\ Local(t, "start")
       \/ /\ iType = "none" \/ Stops(buffer)
          /\ CallFinish(t, "left")
          /\ UNCHANGED <<buffer, iType>>
    /\ UNCHANGED <<shout, toWait>>

-----------------------------------------------------------------------------
(* Task 2, and the shouting threads of the clean tree.                     *)

Shout(t) ==
    /\ task = 2
    /\ \/ /\ At(t, "start") /\ shout[t] < Rounds
          /\ Pause(t)
          /\ Local(t, "shouting")
          /\ UNCHANGED shout
       \/ /\ At(t, "shouting")
          /\ \/ Waiting(t, "shouting") /\ UNCHANGED shout
             \/ /\ toWait[t] = 0
                /\ shout' = [shout EXCEPT ![t] = @ + 1]
                /\ Local(t, "start")
                /\ UNCHANGED toWait
       \/ /\ At(t, "start") /\ shout[t] = Rounds
          /\ CallFinish(t, "left")
          /\ UNCHANGED <<shout, toWait>>
    /\ UNCHANGED <<buffer, iType>>

shoutingThreads(t) ==
    /\ threadChoice = 1
    /\ \/ /\ At(t, "start") /\ shout[t] < Rounds
          /\ shout' = [shout EXCEPT ![t] = @ + 1]
          /\ Pause(t)
          /\ Local(t, "shouting")
       \/ /\ At(t, "shouting")
          /\ \/ Waiting(t, "shouting")
             \/ toWait[t] = 0 /\ Local(t, "start") /\ UNCHANGED toWait
          /\ UNCHANGED shout
       \/ /\ At(t, "start") /\ shout[t] = Rounds
          /\ CallFinish(t, "left")
          /\ UNCHANGED <<shout, toWait>>
    /\ UNCHANGED <<buffer, iType>>

ShoutStep(t) == t \in Workers /\ (ValidateInput(t) \/ Shout(t) \/ shoutingThreads(t))

-----------------------------------------------------------------------------
(* Properties.                                                             *)

Digits(s) == s # <<>> /\ \A k \in DOMAIN s : s[k] = "Digit"
Decimal(s) ==
    \E k \in DOMAIN s : /\ s[k] = "Point"
                        /\ Digits(SubSeq(s, 1, k - 1))
                        /\ Digits(SubSeq(s, k + 1, Len(s)))
Negative(s) == s # <<>> /\ s[1] = "Minus"

\* A line is called a number when it is written as one, with its sign and its
\* point, and anything else that is not blank is called a string: this is the
\* code, and its comments at threadtest.cc:320-337.  The comment on the
\* declaration (94-99) would have the point second, or third after a sign, and
\* so "12.5" a string and "5." a decimal.
InputClassified ==
    iType # "none" =>
        LET s == Trimmed(buffer) IN
        iType = CASE Digits(s)                              -> "INT"
                  [] Decimal(s)                             -> "DEC"
                  [] Negative(s) /\ Digits(Tail(s))         -> "NEGINT"
                  [] Negative(s) /\ Decimal(Tail(s))        -> "NEGDEC"
                  [] s = <<>>                               -> "UNEXPECTED"
                  [] OTHER                                  -> "CHAR"
=============================================================================
