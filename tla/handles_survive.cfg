SPECIFICATION SavesSpec
CONSTANTS
    Notifies = {n1}
    NoNotify = NoNotify
    Sounds = {"sound"}
    Loops = {FALSE}
    MaxObjects = 1
    MaxVoices = 1
    MaxGenerations = 2
    MaxRefs = 2
INVARIANT
    HandlesSurvive
