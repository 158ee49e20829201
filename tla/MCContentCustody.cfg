CONSTANTS
 Key = {1, 2}
 Frame = {f1, f2}
 Reader = {r1}
 Gc = gc
 Nobody = nobody
 MaxItems = 2
 MaxHeld = 3
 Wants <- MCWants
 MaxSuffix = 32
 MaxRuns = 2
 MaxSteps = 2
 MaxDeltas = 2
 MaxExtras = 1
 MaxPipe = 0
 MaxLag = 1
 Stops = {"stop", "toolUse", "length", "aborted"}
SPECIFICATION MCSpec
INVARIANTS StoreExact TranscriptExact
CHECK_DEADLOCK FALSE
PROPERTIES OwnerReleaseEnds
