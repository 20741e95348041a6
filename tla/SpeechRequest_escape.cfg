\* The same requests, with one text.
CONSTANTS
  Shapes <- MCShapes
  MaxText = 1
  Limits = {4}
  Groups = {2}
  Requests <- MCRequests
  Records <- MCRecords
  Models <- MCModels
  SafeIds = {mine, theirs}
  NoId = NoId
  FreshIds = {fresh1, fresh2}
  VoiceFile = VoiceFile
  None = None
  Blank = Blank
  mine = mine
  theirs = theirs
  unsafe = unsafe
SPECIFICATION Spec
CHECK_DEADLOCK FALSE
INVARIANTS
  EveryErrorIdentified
