------------------------------- MODULE ObjectFile -------------------------------
(***************************************************************************)
(* How a user program gets into memory: bin/coff2noff.c makes a NOFF file  *)
(* of what the linker wrote, the constructor of AddrSpace measures it,     *)
(* CreateSwapFile copies it, with its header, and a page fault reads a     *)
(* page of the copy (userprog/addrspace.cc of the final tree).  A byte is  *)
(* known by the section it comes from and its place there.                 *)
(***************************************************************************)
EXTENDS Integers, SequencesExt

CONSTANTS
    CoffFiles,      \* the files of the linker: sequences of sections
    HeaderSize,     \* sizeof(NoffHeader)
    UserStackSize,
    PageBytes       \* PageSize

Initialised == {".text", ".rdata", ".data"}
SectionNames == Initialised \cup {".sbss", ".bss", "other"}

\* s_data: the file has all the bytes of the section.  The linker makes one section of
\* each name (test/script).
ASSUME ObjectFileAssumption ==
    /\ \A c \in CoffFiles :
          /\ c \in Seq([s_name : SectionNames, s_paddr : Nat, s_size : Nat, s_data : BOOLEAN])
          /\ \A j, k \in DOMAIN c : c[j].s_name = c[k].s_name /\ j # k => c[j].s_name = "other"
    /\ {HeaderSize, UserStackSize, PageBytes} \subseteq Nat \ {0}

VARIABLES
    sections,       \* of the file that is converted
    nextSection,    \* the next of them
    noffH,          \* the header
    inNoffFile,
    noffFile,       \* the bytes written behind the place of the header
    progress,       \* "converting", "failed", "converted", "created"
    swapFile,
    virtualMemory   \* the pages that are in memory

objectVars == <<sections, nextSection, noffH, inNoffFile, noffFile, progress, swapFile, virtualMemory>>

Segment(addr, place, n) == [virtualAddr |-> addr, inFileAddr |-> place, size |-> n]

\* the fields of a segment other than its size are not set before it is found
Undefined == Segment(-1, -1, 0)

ObjectInit ==
    /\ sections \in CoffFiles
    /\ nextSection = 1
    /\ noffH = [code |-> Undefined, initData |-> Undefined, uninitData |-> Undefined]
    /\ inNoffFile = HeaderSize
    /\ noffFile = <<>>
    /\ progress = "converting"
    /\ swapFile = <<>>
    /\ virtualMemory = <<>>

BytesOfSection(s) == [k \in 1 .. s.s_size |-> <<s.s_name, k>>]

-----------------------------------------------------------------------------
(* coff2noff: a turn of its loop for each section.                         *)

Converting == progress = "converting" /\ nextSection <= Len(sections)

SkipEmpty ==
    /\ Converting /\ sections[nextSection].s_size = 0
    /\ nextSection' = nextSection + 1
    /\ UNCHANGED <<sections, noffH, inNoffFile, noffFile, progress, swapFile, virtualMemory>>

\* the segment of the header that the section of this name goes to
SegmentOf(name) == IF name = ".text" THEN "code" ELSE "initData"

CopySegmentInPlace ==                   \* bug: inNoffFile is not moved on
    LET s == sections[nextSection]
        which == SegmentOf(s.s_name)
    IN
    /\ Converting /\ s.s_size # 0 /\ s.s_name \in Initialised
    /\ which = "initData" => noffH.initData.size = 0
    /\ s.s_data
    /\ noffH' = [noffH EXCEPT ![which] = Segment(s.s_paddr, inNoffFile, s.s_size)]
    /\ noffFile' = noffFile \o BytesOfSection(s)
    /\ nextSection' = nextSection + 1
    /\ UNCHANGED <<sections, inNoffFile, progress, swapFile, virtualMemory>>

CopySegment ==
    LET s == sections[nextSection]
        which == SegmentOf(s.s_name)
    IN
    /\ Converting /\ s.s_size # 0 /\ s.s_name \in Initialised
    /\ which = "initData" => noffH.initData.size = 0
    /\ s.s_data
    /\ noffH' = [noffH EXCEPT ![which] = Segment(s.s_paddr, inNoffFile, s.s_size)]
    /\ noffFile' = noffFile \o BytesOfSection(s)
    /\ inNoffFile' = inNoffFile + s.s_size
    /\ nextSection' = nextSection + 1
    /\ UNCHANGED <<sections, progress, swapFile, virtualMemory>>

\* a second section is taken unless it begins where the first one ends
CountUninit ==
    LET s == sections[nextSection]
        u == noffH.uninitData
    IN
    /\ Converting /\ s.s_size # 0 /\ s.s_name \in {".sbss", ".bss"}
    /\ u.size # 0 => s.s_paddr # u.virtualAddr + u.size
    /\ noffH' = [noffH EXCEPT !.uninitData =
                   IF u.size = 0 THEN Segment(s.s_paddr, -1, s.s_size)
                   ELSE [u EXCEPT !.size = @ + s.s_size]]
    /\ nextSection' = nextSection + 1
    /\ UNCHANGED <<sections, inNoffFile, noffFile, progress, swapFile, virtualMemory>>

\* data and rdata, bss and sbss, an unknown section, or a file that is too short:
\* the output is removed
Unlink ==
    LET s == sections[nextSection]
        u == noffH.uninitData
    IN
    /\ Converting /\ s.s_size # 0
    /\ \/ s.s_name \in {".rdata", ".data"} /\ noffH.initData.size # 0
       \/ s.s_name \in Initialised /\ ~ s.s_data
       \/ s.s_name \in {".sbss", ".bss"} /\ u.size # 0 /\ s.s_paddr = u.virtualAddr + u.size
       \/ s.s_name = "other"
    /\ progress' = "failed"
    /\ noffFile' = <<>>
    /\ UNCHANGED <<sections, nextSection, noffH, inNoffFile, swapFile, virtualMemory>>

WriteHeader ==
    /\ progress = "converting" /\ nextSection > Len(sections)
    /\ progress' = "converted"
    /\ UNCHANGED <<sections, nextSection, noffH, inNoffFile, noffFile, swapFile, virtualMemory>>

-----------------------------------------------------------------------------
(* The kernel.                                                             *)

\* AddrSpace::numPages
numPages ==
    LET size == noffH.code.size + noffH.initData.size + noffH.uninitData.size + UserStackSize
    IN  (size + PageBytes - 1) \div PageBytes

\* The constructor and CreateSwapFile.  The buffer is longer than the file, and
\* behind it holds whatever was in the memory that new returned.
CreateSwapFile ==
    /\ progress = "converted"
    /\ \E word \in {<<"zero", 0>>, <<"old", 0>>} :
          LET header == [k \in 1 .. HeaderSize |-> <<"header", k>>] IN
          swapFile' = header \o noffFile
                        \o [k \in 1 .. numPages * PageBytes - Len(noffFile) |-> word]
    /\ progress' = "created"
    /\ UNCHANGED <<sections, nextSection, noffH, inNoffFile, noffFile, virtualMemory>>

\* the end of AddrSpace::Paging
LoadPage(vpn) ==
    /\ progress = "created"
    /\ vpn \in 0 .. numPages - 1 /\ vpn \notin DOMAIN virtualMemory
    /\ LET position == HeaderSize + vpn * PageBytes
           page == SubSeq(swapFile, position + 1, position + PageBytes)
       IN  virtualMemory' = [p \in DOMAIN virtualMemory \cup {vpn} |->
                                IF p = vpn THEN page ELSE virtualMemory[p]]
    /\ UNCHANGED <<sections, nextSection, noffH, inNoffFile, noffFile, progress, swapFile>>

ObjectNext ==
    \/ SkipEmpty \/ CopySegment \/ CountUninit \/ Unlink \/ WriteHeader
    \/ CreateSwapFile
    \/ \E vpn \in 0 .. numPages - 1 : LoadPage(vpn)

-----------------------------------------------------------------------------
(* Properties.                                                             *)

\* noff.h: every segment of a converted file is in it at inFileAddr.
SegmentsInFile ==
    progress \in {"converted", "created"} =>
        \A k \in DOMAIN sections :
            LET s == sections[k]
                g == noffH[SegmentOf(s.s_name)]
                at == g.inFileAddr - HeaderSize
            IN  s.s_size # 0 /\ s.s_name \in Initialised =>
                    /\ g.virtualAddr = s.s_paddr
                    /\ SubSeq(noffFile, at + 1, at + g.size) = BytesOfSection(s)

\* test/script: the sections follow each other in memory, from address 0, in the
\* order in which they are in the file, what is not initialised last.
LinkedByScript ==
    \A k \in DOMAIN sections :
        /\ sections[k].s_paddr = IF k = 1 THEN 0
                                 ELSE sections[k - 1].s_paddr + sections[k - 1].s_size
        /\ sections[k].s_name \in Initialised =>
               \A j \in 1 .. k : sections[j].s_name \notin {".sbss", ".bss"}

\* The loader looks neither at inFileAddr nor at virtualAddr: it pages in the file
\* as it is.  Where the program was linked as the Makefile does it, each byte of
\* code and data that is in memory is nevertheless at the address where it was
\* linked, and all of the program and of its stack is in the address space.
BytesInPlace ==
    progress = "created" /\ LinkedByScript =>
        \A k \in DOMAIN sections : \A x \in 1 .. sections[k].s_size :
            LET s == sections[k]
                addr == s.s_paddr + x - 1
                vpn == addr \div PageBytes
            IN  /\ addr + UserStackSize < numPages * PageBytes
                /\ s.s_name \in Initialised /\ vpn \in DOMAIN virtualMemory =>
                       virtualMemory[vpn][1 + (addr % PageBytes)] = <<s.s_name, x>>

\* A program that was built as test/Makefile does it arrives in memory as it was
\* linked, through a file of segments, a copy of that file, and pages of the copy.
ProgramInPlace == SegmentsInFile /\ BytesInPlace
=============================================================================
