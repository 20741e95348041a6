\* Five requests, eleven models, every text of up to three sentences.
CONSTANTS
  Shapes <- MCShapes
  MaxText = 3
  Limits = {2, 4, 5}
  Groups = {0, 2}
  Requests <- MCRequests
  Records <- MCRecords
  Models <- MCModels
  SafeIds = {mine, theirs}
  NoId = NoId
  FreshIds = {fresh1, fresh2}
  VoiceFile = VoiceFile
  None = None
  Blank = Blank
  mine = mine
  theirs = theirs
  unsafe = unsafe
SPECIFICATION Spec
CHECK_DEADLOCK FALSE
INVARIANTS
  NothingLost
  ChunksFit
  AnswerFollowsText
  VoiceHonoured
  ErrorsIdentified
