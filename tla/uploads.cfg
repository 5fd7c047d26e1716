\* Reassembly of uploads on two connections of one device or two, and what
\* closed connections leave behind in the table.
SPECIFICATION LiveSpec
CONSTANTS
    Conn = {c1, c2}
    Pigeon = {p1, p2}
    Leaf = {shadow}
    Byte = {x}
    Payload <- Payloads
    BlockNum = {0, 1, 2}
    MaxBody = 2
    MaxEntries = 1
    NoPigeon = NoPigeon
    NoRequest = NoRequest
INVARIANTS
    TypeOK
    BodiesWhole
    EntriesFaithful
    MemoryBounded
PROPERTIES
    UploadsKept
    LeftoversDrain
