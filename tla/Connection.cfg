SPECIFICATION FairSpec
CONSTANTS
    OutboundSize = 2
    MaxFrames = 1
    MaxEvents = 2
    MaxTicks = 1
    MaxSignals = 1
PROPERTIES KeepsWireProtocol ClosingStops AuthBounded Released
CHECK_DEADLOCK FALSE
