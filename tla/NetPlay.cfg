CONSTANTS
  Players = {1, 2}
  Sizes = {0, 1}
  MaxGames = 2
  MaxFrames = 1
  MaxEvents = 1
SPECIFICATION Spec
CHECK_DEADLOCK FALSE
CONSTRAINT NotOvertaken
INVARIANTS TypeOK  WakeUpComes
 
