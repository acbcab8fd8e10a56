\* Three frames over a socket that buffers two bytes, a peer that reads, and
\* no help from the time limit.
CONSTANTS
    short = short
    long = long
    other = other
    Frames = {short, long, other}
    Plain = {short, long, other}
    Size <- ThreeSizes
    Buffer = 2
SPECIFICATION FairSpec
INVARIANTS FramesWhole
PROPERTIES HeldBackGoes
