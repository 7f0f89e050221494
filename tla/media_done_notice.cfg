SPECIFICATION FairMediaSpec
CONSTANTS
    Notifies = {n1}
    NoNotify = NoNotify
    Sounds = {"sound"}
    Loops = {FALSE}
    MaxObjects = 1
    MaxVoices = 1
    MaxGenerations = 1
    MaxRefs = 1
PROPERTY
    EveryFinishAnnounced
