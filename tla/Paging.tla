-------------------------------- MODULE Paging --------------------------------
(***************************************************************************)
(* Demand paging (userprog/addrspace.cc): frames are given to pages at     *)
(* page faults, taken back when the process exits and, with FIFO or random *)
(* replacement, taken from other pages when none is free.  Main memory and *)
(* page tables are those of machine/translate.cc.                          *)
(*                                                                         *)
(* Paging and ~AddrSpace never enable interrupts in the user-program       *)
(* build, so each is one action.                                           *)
(***************************************************************************)
EXTENDS Naturals, SequencesExt

CONSTANTS
    Spaces,         \* the addresses an AddrSpace object can have
    Pages,          \* virtual page numbers
    NumPhysPages,
    Policies,       \* the replacement policies the command line may choose
    NoFrame, NoEntry

ASSUME PagingAssumption ==
    /\ NumPhysPages \in Nat \ {0}
    /\ Policies \subseteq {"Demand", "FIFO", "Random"}
    /\ NoFrame \notin Nat
    /\ NoEntry \notin [space : Spaces, virtPageNum : Pages]

Frames == 0 .. NumPhysPages - 1

VARIABLES
    pageRepChoice,  \* the policy, fixed at boot
    live,           \* the address spaces that exist
    pageTable,      \* the frame of each valid entry, NoFrame where invalid
    myPageList,     \* the frames in AddrSpace::myPageList
    memMap,         \* the frames marked in the bitmap
    coreMap,        \* the space and virtPageNum of each CoreMapEntry
    age,            \* the frames in the order of CoreMapEntry::counter
    mainMemory,     \* whose page each frame holds, and if written since loaded
    written,        \* the pages the programs have written since they started
    halted

vars == <<pageRepChoice, live, pageTable, myPageList, memMap, coreMap, age,
          mainMemory, written, halted>>

\* a page as the executable and its swap file have it, or with the program's data
Contents == [space : Spaces, page : Pages, data : {"image", "written"}]

TypeOK ==
    /\ pageRepChoice \in Policies
    /\ live \subseteq Spaces
    /\ pageTable \in [Spaces -> [Pages -> Frames \cup {NoFrame}]]
    /\ myPageList \in [Spaces -> SUBSET Frames]
    /\ memMap \subseteq Frames
    /\ coreMap \in [Frames -> [space : Spaces, virtPageNum : Pages] \cup {NoEntry}]
    /\ age \in Seq(Frames) /\ IsInjective(age)
    /\ mainMemory \in [Frames -> Contents \cup {NoEntry}]
    /\ written \subseteq Spaces \X Pages
    /\ halted \in BOOLEAN

Init ==
    /\ pageRepChoice \in Policies
    /\ live = {}
    /\ pageTable = [s \in Spaces |-> [p \in Pages |-> NoFrame]]
    /\ myPageList = [s \in Spaces |-> {}]
    /\ memMap = {}
    /\ coreMap = [f \in Frames |-> NoEntry]
    /\ age = <<>>
    /\ mainMemory = [f \in Frames |-> NoEntry]
    /\ written = {}
    /\ halted = FALSE

-----------------------------------------------------------------------------

\* the constructor and CreateSwapFile: no page is in memory
Create(s) ==
    /\ ~ halted
    /\ s \notin live
    /\ live' = live \cup {s}
    /\ written' = written \ ({s} \X Pages)
    /\ UNCHANGED <<pageRepChoice, pageTable, myPageList, memMap, coreMap, age,
                   mainMemory, halted>>

-----------------------------------------------------------------------------
(* Paging.                                                                 *)

FirstFrame(f) == f = 0                  \* bug: the bitmap is not tested

\* the loop over the bitmap ends with the first frame of the last free run
FirstOfLastRun(f) ==
    /\ f \notin memMap
    /\ f = 0 \/ f - 1 \in memMap
    /\ \A g \in Frames : (g > f /\ g \notin memMap) => g - 1 \notin memMap

\* The victim with FIFO: the entry with the least counter, unless the word read
\* past the end of coreMap as the first minimum is less than all the counters;
\* then it is frame 0.
FIFOVictim(f) == f = Head(age) \/ f = 0

Victim(f) ==
    \/ pageRepChoice = "FIFO" /\ FIFOVictim(f)
    \/ pageRepChoice = "Random"

LoadUnlisted(s, p, f, tables) ==        \* bug: a stolen frame is not in myPageList
    /\ pageTable' = [tables EXCEPT ![s][p] = f]
    /\ coreMap' = [coreMap EXCEPT ![f] = [space |-> s, virtPageNum |-> p]]
    /\ age' = Append(RemoveFirst(age, f), f)
    /\ myPageList' = IF f \in memMap THEN myPageList
                     ELSE [myPageList EXCEPT ![s] = @ \cup {f}]
    /\ mainMemory' = [mainMemory EXCEPT ![f] = [space |-> s, page |-> p, data |-> "image"]]
    /\ UNCHANGED <<pageRepChoice, live, written, halted>>

\* the frame f is loaded with page p of s from its swap file
Load(s, p, f, tables) ==
    /\ pageTable' = [tables EXCEPT ![s][p] = f]
    /\ coreMap' = [coreMap EXCEPT ![f] = [space |-> s, virtPageNum |-> p]]
    /\ age' = Append(RemoveFirst(age, f), f)
    /\ myPageList' = [myPageList EXCEPT ![s] = @ \cup {f}]
    /\ mainMemory' = [mainMemory EXCEPT ![f] = [space |-> s, page |-> p, data |-> "image"]]
    /\ UNCHANGED <<pageRepChoice, live, written, halted>>

\* there is a free frame
PageIn(s, p) ==
    /\ ~ halted
    /\ s \in live /\ pageTable[s][p] = NoFrame
    /\ \E f \in Frames :
          /\ FirstOfLastRun(f)
          /\ memMap' = memMap \cup {f}
          /\ Load(s, p, f, pageTable)

\* the page that the core map records in the victim frame becomes invalid
PageReplace(s, p) ==
    /\ ~ halted
    /\ s \in live /\ pageTable[s][p] = NoFrame
    /\ memMap = Frames
    /\ \E f \in Frames :
          /\ Victim(f)
          /\ Load(s, p, f, [pageTable EXCEPT
                               ![coreMap[f].space][coreMap[f].virtPageNum] = NoFrame])
    /\ UNCHANGED memMap

\* without replacement the machine halts
PageHalt(s, p) ==
    /\ ~ halted
    /\ s \in live /\ pageTable[s][p] = NoFrame
    /\ memMap = Frames
    /\ pageRepChoice = "Demand"
    /\ halted' = TRUE
    /\ UNCHANGED <<pageRepChoice, live, pageTable, myPageList, memMap, coreMap,
                   age, mainMemory, written>>

-----------------------------------------------------------------------------

\* a store to a resident page (Machine::WriteMem)
WriteMem(s, p) ==
    LET f == pageTable[s][p] IN
    /\ ~ halted
    /\ s \in live /\ f # NoFrame
    /\ mainMemory' = [mainMemory EXCEPT ![f] = [space |-> s, page |-> p, data |-> "written"]]
    /\ written' = written \cup {<<s, p>>}
    /\ UNCHANGED <<pageRepChoice, live, pageTable, myPageList, memMap, coreMap,
                   age, halted>>

\* the destructor, in Exit: every frame in the list is cleared in the bitmap
Exit(s) ==
    /\ ~ halted
    /\ s \in live
    /\ live' = live \ {s}
    /\ memMap' = memMap \ myPageList[s]
    /\ myPageList' = [myPageList EXCEPT ![s] = {}]
    /\ pageTable' = [pageTable EXCEPT ![s] = [p \in Pages |-> NoFrame]]
    /\ UNCHANGED <<pageRepChoice, coreMap, age, mainMemory, written, halted>>

Next ==
    \E s \in Spaces :
        \/ Create(s)
        \/ \E p \in Pages : PageIn(s, p) \/ PageReplace(s, p) \/ PageHalt(s, p)
                            \/ WriteMem(s, p)
        \/ Exit(s)

Spec == Init /\ [][Next]_vars

-----------------------------------------------------------------------------
(* Properties.                                                             *)

\* A marked frame belongs to a live address space, which has it in its list
\* and its page in it, as the core map says.  So replacement never follows the
\* pointer to a deleted address space, and no frame stays marked for ever.
MarkedFramesOwned ==
    \A f \in memMap :
        LET o == coreMap[f].space IN
        /\ o \in live
        /\ f \in myPageList[o]
        /\ pageTable[o][coreMap[f].virtPageNum] = f

\* system.h:53-55: a page that is valid is in a frame whose core map entry says
\* so, and the bitmap has the frame marked.  So no two pages share a frame.
CoreMapComplete ==
    \A s \in live, p \in Pages :
        LET f == pageTable[s][p] IN
        f # NoFrame => /\ f \in memMap
                       /\ coreMap[f] = [space |-> s, virtPageNum |-> p]

\* A program finds in a page what it last wrote there, or what its executable
\* had there if it wrote nothing.
PagesKeepData ==
    \A s \in live, p \in Pages :
        LET f == pageTable[s][p] IN
        f # NoFrame =>
            mainMemory[f] = [space |-> s, page |-> p,
                             data |-> IF <<s, p>> \in written THEN "written" ELSE "image"]

\* With demand paging, which replaces nothing, both hold, however frames are freed
\* and taken again.
DemandKeepsPages == pageRepChoice = "Demand" => CoreMapComplete /\ PagesKeepData

\* The tables keep their shape under every policy, and the pages of programs are
\* safe under the one that steals none.
PagingInv == TypeOK /\ DemandKeepsPages
=============================================================================
