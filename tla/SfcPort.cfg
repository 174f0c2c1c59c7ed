SPECIFICATION Spec
INVARIANT StoppedHoldsNothing
INVARIANT DmaTargetsLiveMemory
PROPERTY RxModeFollowsDevice
