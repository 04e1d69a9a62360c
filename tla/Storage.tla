-------------------------------- MODULE Storage --------------------------------
(***************************************************************************)
(* What the kernel's bitmaps give out: frames of memory and sectors of the *)
(* disk.  The parts of Memory and the commands on files run one at a time. *)
(***************************************************************************)
EXTENDS Memory, FileCommands

CONSTANT Areas      \* bound: which of the two are run

VARIABLE area       \* "memory" or "files"

storageVars == <<memoryVars, allVars, area>>

StorageInit ==
    /\ MemoryInit /\ CommandsInit
    /\ area \in Areas \cap {"memory", "files"}
    /\ area = "files" =>
          part = "Paging" /\ pageRepChoice = CHOOSE policy \in Policies : TRUE

InMemory ==
    /\ area = "memory"
    /\ OnDemand \/ InRows \/ FromFile
    /\ UNCHANGED <<allVars, area>>

WithFiles == area = "files" /\ CommandsNext /\ UNCHANGED <<memoryVars, area>>

StorageSpec == StorageInit /\ [][InMemory \/ WithFiles]_storageVars

\* the operations of FileHeader by themselves, in any order
HeadersOnly ==
    /\ StorageInit
    /\ [][area = "files" /\ HeaderNext
          /\ UNCHANGED <<memoryVars, ioVars, commandVars, area>>]_storageVars
=============================================================================
