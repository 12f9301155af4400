SPECIFICATION PathSpec
CONSTANTS
  MaxFrames = 5
  Room = 2
  Watched = {2, 5}
INVARIANTS PathTypeOK FramesInOrder 
PROPERTIES BusyEnds EachIsTaken
