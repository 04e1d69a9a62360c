--------------------------------- MODULE Memory ---------------------------------
(***************************************************************************)
(* The memory of user programs, in three parts that run one at a time: in  *)
(* the final kernel, how pages get frames, and how the bytes of a program  *)
(* get from the linker's file into its pages; in the older kernel, how     *)
(* programs get rows of frames.                                            *)
(***************************************************************************)
EXTENDS Paging, MemoryFit, ObjectFile

VARIABLE part       \* "Paging", "MemoryFit" or "ObjectFile"

memoryVars == <<vars, fitVars, objectVars, part>>

\* the parts that do not run have made no choice
MemoryInit ==
    /\ Init /\ FitInit /\ ObjectInit
    /\ part \in {"Paging", "MemoryFit", "ObjectFile"}
    /\ part # "Paging" => pageRepChoice = CHOOSE policy \in Policies : TRUE
    /\ part # "MemoryFit" => memAllocation = 0
    /\ part # "ObjectFile" => sections = CHOOSE file \in CoffFiles : TRUE

OnDemand == part = "Paging" /\ Next /\ UNCHANGED <<fitVars, objectVars, part>>
InRows == part = "MemoryFit" /\ FitNext /\ UNCHANGED <<vars, objectVars, part>>
FromFile == part = "ObjectFile" /\ ObjectNext /\ UNCHANGED <<vars, fitVars, part>>

MemorySpec == MemoryInit /\ [][OnDemand \/ InRows \/ FromFile]_memoryVars
=============================================================================
