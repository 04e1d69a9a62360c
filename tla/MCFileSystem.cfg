CONSTANTS
    Callers = {c1, c2}
    Creators = {c1}
    Removers = {c1, c2}
    Names = {n1, n2}
    NumSectors = 3
    NumDirEntries = 2
    MaxSize = 2
    Data = {garbage, d1}
    Garbage = garbage
    NoFile = NoFile  NoCall = NoCall  NoCopy = NoCopy  Free = Free
SPECIFICATION Spec
INVARIANTS FilesInv
PROPERTIES ImplementsAtomicFileSystem
