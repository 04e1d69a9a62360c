------------------------------- MODULE RockBand -------------------------------
(***************************************************************************)
(* The rock band of the clean tree's threads/threadtest.cc, nachos -A 6:   *)
(* for every song the players choose to play or to watch, those who play   *)
(* try to take an instrument, and all go on to the next song together.     *)
(***************************************************************************)
EXTENDS Programs

CONSTANTS
    Instruments,
    getInstrument       \* the semaphore that guards the instruments

ASSUME BandAssumption ==
    /\ Instruments # {}
    /\ getInstrument \in Semaphores /\ InitialValue[getInstrument] = 1

VARIABLES
    players,            \* NOTREADY, WANTING, READYTOPLAY or SPECTATOR
    taken,              \* the instruments that are TAKEN
    temp,               \* the instrument a player looked at
    songsPlayed, numReady, numSpecs, leaving,
    arrivalFlag, specFlag, songFlag, incrementFlag, leavingFlag

flags == <<arrivalFlag, specFlag, songFlag, incrementFlag, leavingFlag>>
counts == <<songsPlayed, numReady, numSpecs, leaving>>
bandVars == <<players, taken, temp, counts, flags>>

BandInit ==
    /\ players = [k \in 0..(N - 1) |-> "NOTREADY"]
    /\ taken = {}
    /\ temp \in [Workers -> {CHOOSE i \in Instruments : TRUE}]
    /\ songsPlayed = 0 /\ numReady = 0 /\ numSpecs = 0 /\ leaving = 0
    /\ arrivalFlag = FALSE /\ specFlag = FALSE /\ songFlag = FALSE
    /\ incrementFlag = FALSE /\ leavingFlag = FALSE

Become(t, what) == players' = [players EXCEPT ![Number[t]] = what]

Plays(t, what) == players[Number[t]] = what

Arrive(t) ==
    /\ threadChoice = 6
    /\ \/ /\ At(t, "start") /\ Number[t] = N - 1
          /\ arrivalFlag' = TRUE
          /\ CallYield(t, "arrived")
       \/ /\ At(t, "start") /\ Number[t] # N - 1
          /\ Local(t, "arrived")
          /\ UNCHANGED arrivalFlag
       \/ /\ At(t, "arrived") /\ ~ arrivalFlag
          /\ CallYield(t, "arrived")
          /\ UNCHANGED arrivalFlag
       \/ /\ At(t, "arrived") /\ arrivalFlag
          /\ Local(t, "song")
          /\ UNCHANGED arrivalFlag
    /\ UNCHANGED <<players, taken, temp, counts, specFlag, songFlag,
                   incrementFlag, leavingFlag, toWait>>

Choose(t) ==
    /\ At(t, "song") /\ songsPlayed < Rounds
    /\ \/ Become(t, "WANTING") /\ CallP(t, getInstrument, "taking")
       \/ Become(t, "SPECTATOR") /\ Local(t, "decided")
    /\ UNCHANGED <<taken, temp, counts, flags, toWait>>

TakeInstrument(t) ==
    /\ At(t, "taking")
    /\ \E i \in Instruments :
          /\ temp' = [temp EXCEPT ![t] = i]
          /\ taken' = taken \cup {i}
          /\ Become(t, IF i \in taken THEN "SPECTATOR" ELSE "READYTOPLAY")
    /\ CallV(t, getInstrument, "decided")
    /\ UNCHANGED <<counts, flags, toWait>>

RockCheckSome ==                        \* bug: one who decides is not waited for
    \A k \in 0..(N - 1) : players[k] # "NOTREADY"

RockCheck == \A k \in 0..(N - 1) : players[k] \notin {"NOTREADY", "WANTING"}

\* the first to see that all have decided counts the spectators
CountSpectators(t) ==
    LET seen == IF specFlag THEN numSpecs
                ELSE Cardinality({k \in 0..(N - 1) : players[k] = "SPECTATOR"})
    IN
    /\ At(t, "decided")
    /\ \/ /\ ~ RockCheck
          /\ CallYield(t, "decided")
          /\ UNCHANGED <<numSpecs, specFlag, songFlag>>
       \/ /\ RockCheck
          /\ numSpecs' = seen
          /\ specFlag' = TRUE
          /\ songFlag' = (songFlag \/ seen = 0)
          /\ Local(t, "singing")
    /\ UNCHANGED <<players, taken, temp, songsPlayed, numReady, leaving,
                   arrivalFlag, incrementFlag, leavingFlag, toWait>>

\* every spectator says its number, and the last one starts the song
Spectate(t) ==
    /\ At(t, "singing") /\ ~ songFlag
    /\ numSpecs' = IF Plays(t, "SPECTATOR") /\ numSpecs > 1
                   THEN numSpecs - 1 ELSE numSpecs
    /\ songFlag' = (Plays(t, "SPECTATOR") /\ numSpecs = 1)
    /\ CallYield(t, "singing")
    /\ UNCHANGED <<players, taken, temp, songsPlayed, numReady, leaving,
                   arrivalFlag, specFlag, incrementFlag, leavingFlag, toWait>>

PlaySong(t) ==
    /\ At(t, "singing") /\ songFlag
    /\ songsPlayed' = IF incrementFlag THEN songsPlayed ELSE songsPlayed + 1
    /\ incrementFlag' = TRUE
    /\ \/ Plays(t, "READYTOPLAY") /\ CallP(t, getInstrument, "dropping") /\ UNCHANGED players
       \/ Plays(t, "SPECTATOR") /\ Become(t, "NOTREADY") /\ Local(t, "played")
    /\ UNCHANGED <<taken, temp, numReady, numSpecs, leaving,
                   arrivalFlag, specFlag, songFlag, leavingFlag, toWait>>

DropInstrument(t) ==
    /\ \/ /\ At(t, "dropping")
          /\ taken' = taken \ {temp[t]}
          /\ CallV(t, getInstrument, "dropped")
          /\ UNCHANGED players
       \/ /\ At(t, "dropped")
          /\ CallYield(t, "unready")
          /\ UNCHANGED <<taken, players>>
       \/ /\ At(t, "unready")
          /\ Become(t, "NOTREADY")
          /\ Local(t, "played")
          /\ UNCHANGED taken
    /\ UNCHANGED <<temp, counts, flags, toWait>>

\* ReadyCheck waits for the others and lets them see that all are ready
ReadyCheck(t) ==
    /\ \/ /\ At(t, "played")
          /\ numReady' = numReady + 1
          /\ Local(t, "readying")
       \/ /\ At(t, "readying") /\ numReady < N
          /\ CallYield(t, "readying")
          /\ UNCHANGED numReady
       \/ /\ At(t, "readying") /\ numReady >= N
          /\ IF numReady = N THEN CallYield(t, "again") ELSE Local(t, "again")
          /\ UNCHANGED numReady
    /\ UNCHANGED <<players, taken, temp, songsPlayed, numSpecs, leaving, flags, toWait>>

Reset(t) ==
    /\ At(t, "again")
    /\ numReady' = 0
    /\ incrementFlag' = FALSE /\ songFlag' = FALSE /\ specFlag' = FALSE
    /\ Local(t, "song")
    /\ UNCHANGED <<players, taken, temp, songsPlayed, numSpecs, leaving,
                   arrivalFlag, leavingFlag, toWait>>

LeaveUnflagged(t) ==                    \* bug: leavingFlag is never set
    /\ \/ /\ At(t, "song") /\ songsPlayed >= Rounds
          /\ leaving' = leaving + 1
          /\ Local(t, "leaving")
       \/ /\ At(t, "leaving") /\ leaving < N
          /\ CallYield(t, "leaving")
          /\ UNCHANGED leaving
       \/ /\ At(t, "leaving") /\ leaving >= N
          /\ leaving' = leaving - 1
          /\ CallFinish(t, "left")
    /\ UNCHANGED <<players, taken, temp, songsPlayed, numReady, numSpecs, flags, toWait>>

LeaveBand(t) ==
    /\ \/ /\ At(t, "song") /\ songsPlayed >= Rounds
          /\ leaving' = leaving + 1
          /\ leavingFlag' = (leavingFlag \/ leaving' = N)
          /\ Local(t, "leaving")
       \/ /\ At(t, "leaving") /\ leaving < N /\ ~ leavingFlag
          /\ CallYield(t, "leaving")
          /\ UNCHANGED <<leaving, leavingFlag>>
       \/ /\ At(t, "leaving") /\ (leaving >= N \/ leavingFlag)
          /\ leaving' = leaving - 1
          /\ CallFinish(t, "left")
          /\ UNCHANGED leavingFlag
    /\ UNCHANGED <<players, taken, temp, songsPlayed, numReady, numSpecs,
                   arrivalFlag, specFlag, songFlag, incrementFlag, toWait>>

BandStep(t) ==
    /\ t \in Workers
    /\ \/ Arrive(t) \/ Choose(t) \/ TakeInstrument(t) \/ CountSpectators(t)
       \/ Spectate(t) \/ PlaySong(t) \/ DropInstrument(t) \/ ReadyCheck(t)
       \/ Reset(t) \/ LeaveBand(t)

-----------------------------------------------------------------------------
(* Properties.                                                             *)

\* t has an instrument: it found it free and has not dropped it yet
HasInstrument(t) ==
    \/ Plays(t, "READYTOPLAY") /\ pc[t] \in {"decided", "singing"}
    \/ pc[t] = "dropping"

\* An instrument is TAKEN exactly when one player has it: no other thread gets
\* the CPU between the look at it and its taking.
InstrumentsHeldOnce ==
    \A i \in Instruments :
        Cardinality({t \in Workers : HasInstrument(t) /\ temp[t] = i})
            = IF i \in taken THEN 1 ELSE 0

\* A song is counted only when every player has chosen to play or to watch it,
\* and none is still at the song before.
SongsStartTogether ==
    [][songsPlayed' # songsPlayed =>
          /\ \A k \in 0..(N - 1) : players[k] \in {"READYTOPLAY", "SPECTATOR"}
          /\ \A t \in Workers : pc[t] \in {"decided", "singing"}]_songsPlayed
=============================================================================
