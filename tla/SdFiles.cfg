SPECIFICATION Spec
CONSTANTS
  Names = {"video", "play"}
  Playlist = "play"
  Contents <- SameSize
  Blocks = {1, 2}
  Torn = 0
  Choices <- Chosen
  MaxFaults = 2
INVARIANTS TypeOK AnswerTrue VideoSurvives CrcExact
PROPERTY TornKeepsBackup
