SPECIFICATION MirrorSpec
CHECK_DEADLOCK FALSE
CONSTANTS
    MaxFrames = 1
    MaxClients = 1
PROPERTY
    EncoderExits
