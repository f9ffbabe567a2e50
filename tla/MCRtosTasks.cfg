CONSTANTS
    MaxDlc = 1
    Frames <- MCFrames
    RsQueueLen = 1
    Main = Main
    Can = Can
    Rs = Rs
    None = None
    CanQueueLen = 1
    Patience = 2
    Scenes <- MCScenes
SPECIFICATION BoardSpec
INVARIANT InStep
PROPERTIES RefreshVouches StandstillEnds SignalIsServed
