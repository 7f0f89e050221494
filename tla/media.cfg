SPECIFICATION FairMediaSpec
CONSTANTS
    Notifies = {n1, n2}
    NoNotify = NoNotify
    Sounds = {"sound"}
    Loops = {FALSE}
    MaxObjects = 2
    MaxVoices = 3
    MaxGenerations = 2
    MaxRefs = 1
INVARIANTS
    MediaTypeOK
    NoGhostVoice
    AddressesApart
PROPERTIES
    ImplementsPlayNotices
    NoticeKept
    NoticeArrives
