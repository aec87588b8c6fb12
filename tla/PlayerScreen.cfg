SPECIFICATION Spec
CONSTANTS
  SongCount = 3
  Lines = 2
  QueueLength = 1
  MaxVolume = 1
  InitialVolume = 0
  Tone = {"bass"}
  Level = {0}
  MaxEarly = 1
INVARIANTS
  TypeOK
  WindowHolds
  DrawnIsCurrent
  HighlightedIsChosen
  ChosenExists
  IconIsCurrent
