\* Block-wise downloads of two documents that dovecote replaces meanwhile.
SPECIFICATION LiveSpec
CONSTANTS
    NumSpace = 8
    BaseSize = 1
    Version = {"v0", "v1", "v2"}
    Length <- Lengths
    UdpMaxBlock = 2
    MaxChanges = 2
    None = None
INVARIANTS
    AnswersTheOffset
    DatagramsFit
    ImagesNeverMixed
    DownloadsWhole
    NeverStranded
PROPERTY
    DownloadsEnd
