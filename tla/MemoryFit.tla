------------------------------- MODULE MemoryFit -------------------------------
(***************************************************************************)
(* The memory of the older kernel (src/nachos-3.4/code/userprog), without  *)
(* paging: a process gets as many frames in a row as it has pages, where   *)
(* the first, the best or the worst fit of the command line (-M) finds     *)
(* them.  Its list of processes, PCB, which the repository uses and does   *)
(* not define, and the wake-up of joined parents are left out.             *)
(***************************************************************************)
EXTENDS Integers, FiniteSetsExt, SequencesExt

CONSTANTS
    Programs,       \* threads that run a program
    NumBits,        \* BitMap::numBits, the frames of the machine
    ProgramSizes,   \* how many pages programs have
    NoSpace

ASSUME MemoryFitAssumption ==
    NumBits \in Nat \ {0} /\ ProgramSizes \subseteq 1 .. NumBits

ASSUME NoSpaceAssumption == NoSpace \notin [offset : 0 .. NumBits - 1, numPages : ProgramSizes]

VARIABLES
    memAllocation,  \* 1 first, 2 best, 3 worst fit; 0 any other input
    bitmap,         \* the marked frames
    space,          \* AddrSpace::offset and numPages of each program
    running,        \* the programs that run
    asserted        \* an assertion failed

fitVars == <<memAllocation, bitmap, space, running, asserted>>

Bits == 0 .. NumBits - 1

Clear == Bits \ bitmap

FitInit ==
    /\ memAllocation \in 0 .. 3
    /\ bitmap = {}
    /\ space = [p \in Programs |-> NoSpace]
    /\ running = {}
    /\ asserted = FALSE

-----------------------------------------------------------------------------
(* Where a program of n pages fits.                                        *)

\* where the frames after the last marked one begin
Behind(S) == IF S = {} THEN 0 ELSE Max(S) + 1

FirstFitUnreset(n) ==                   \* bug: a marked frame does not reset the count
    LET nth == {f \in Clear : Cardinality({g \in Clear : g <= f}) = n} IN
    Behind({f \in bitmap : \A g \in nth : f < g})

FirstFit(n) ==
    LET fits == {f \in Bits : f .. f + n - 1 \subseteq Clear} IN
    IF fits # {} THEN Min(fits) ELSE Behind(bitmap)

\* BestFit and WorstFit measure a row of clear frames when they come to the end
\* of it or to the last frame of all, which they do not count
RowBefore(i) == i - Behind({f \in bitmap : f < i})

Rows(n) == {i \in bitmap \cup {NumBits - 1} : RowBefore(i) >= n}

\* the first of the rows of the length that is wanted, or the frame 0
StartOf(rows, count) ==
    IF rows = {} THEN 0 ELSE Min({i \in rows : RowBefore(i) = count}) - count

BestFit(n) == StartOf(Rows(n), Min({RowBefore(i) : i \in Rows(n)} \cup {NumBits}))

WorstFit(n) == StartOf(Rows(n), Max({RowBefore(i) : i \in Rows(n)} \cup {0}))

offset(n) == CASE memAllocation = 1 -> FirstFit(n)
               [] memAllocation = 2 -> BestFit(n)
               [] memAllocation = 3 -> WorstFit(n)

\* BitMap::MaxSpace starts to count again only after a row longer than all before
MaxSpace ==
    LET scan[i \in 0 .. NumBits] ==
            IF i = 0 THEN [count |-> 0, max |-> 0]
            ELSE LET s == scan[i - 1]
                     count == s.count + (IF i - 1 \in Clear THEN 1 ELSE 0)
                 IN  IF (i - 1 \in bitmap \/ i = NumBits) /\ count > s.max
                     THEN [count |-> 0, max |-> count]
                     ELSE [count |-> count, max |-> s.max]
    IN  scan[NumBits].max

-----------------------------------------------------------------------------
(* Programs begin, in StartProcess or in an Exec of another, and end.      *)

\* the thread whose call it is: the program itself when it is the first
Caller(c, p) == IF running = {} /\ bitmap = {} THEN c = p ELSE c \in running

\* the constructor of AddrSpace
LoadProgram(c, p, n) ==
    LET frames == offset(n) .. offset(n) + n - 1 IN
    /\ ~ asserted
    /\ Caller(c, p) /\ p \notin running /\ space[p] = NoSpace
    /\ memAllocation # 0 /\ n <= MaxSpace
    /\ \/ /\ frames \subseteq Bits
          /\ bitmap' = bitmap \cup frames
          /\ space' = [space EXCEPT ![p] = [offset |-> offset(n), numPages |-> n]]
          /\ running' = running \cup {p}
          /\ UNCHANGED asserted
       \/ /\ ~ frames \subseteq Bits        \* Mark: ASSERT(which < numBits)
          /\ asserted' = TRUE
          /\ UNCHANGED <<bitmap, space, running>>
    /\ UNCHANGED memAllocation

\* not enough space, or improper input: the caller finishes, without SExit
Refuse(c, p, n) ==
    /\ ~ asserted
    /\ c \in running /\ p \notin running /\ space[p] = NoSpace
    /\ memAllocation = 0 \/ n > MaxSpace
    /\ running' = running \ {c}
    /\ UNCHANGED <<memAllocation, bitmap, space, asserted>>

FramesOf(p) ==
    IF space[p] = NoSpace THEN {}
    ELSE space[p].offset .. space[p].offset + space[p].numPages - 1

\* SExit, which deletes the space
SExit(p) ==
    /\ ~ asserted
    /\ p \in running
    /\ bitmap' = bitmap \ FramesOf(p)
    /\ space' = [space EXCEPT ![p] = NoSpace]
    /\ running' = running \ {p}
    /\ UNCHANGED <<memAllocation, asserted>>

FitNext ==
    \/ \E c, p \in Programs, n \in ProgramSizes : LoadProgram(c, p, n) \/ Refuse(c, p, n)
    \/ \E p \in Programs : SExit(p)

-----------------------------------------------------------------------------
(* Properties.                                                             *)

\* addrspace.cc:129: "Make sure there are enough clear pages to fit".  So no two
\* programs have a frame in common.
FramesApart == \A p, q \in Programs : p # q => FramesOf(p) \cap FramesOf(q) = {}

\* The first fit never gives a frame twice or forgets one, although MaxSpace may
\* promise more than there is: then the machine stops at an assertion.
FirstFitExact ==
    (memAllocation = 1) => FramesApart /\ bitmap = UNION {FramesOf(p) : p \in Programs}
=============================================================================
