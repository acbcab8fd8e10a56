\* A frame is refused and then withdrawn: the connection should be idle.
CONSTANTS
    short = short
    long = long
    other = other
    Frames = {short, long}
    Plain = {}
    Size <- TwoSizes
    Buffer = 2
SPECIFICATION FairSpec
PROPERTIES IdleSleeps
