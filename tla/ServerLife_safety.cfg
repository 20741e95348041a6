\* Startup on several hosts, edits at any moment, two requests, shutdown.
CONSTANTS
  r1 = r1  r2 = r2  a = a  b = b  m = m  n = n
  Names = {a, b}
  DefaultPreset = a
  Models = {m, n}
  DefaultModel <- MCDefault
  ConfiguredModels <- MCConfigured
  None = None
  Blank = Blank
  Unknown = Unknown
  Malformed = Malformed
  Junk = Junk
  Requests = {r1, r2}
  Documents <- MCDocuments
  Calls <- MCCalls
  SpeechCalls <- MCSpeechCalls
  Environments <- MCEnvironments
  NoRegistry = NoRegistry
SPECIFICATION FairSpec
CHECK_DEADLOCK FALSE
INVARIANTS
  LifeTypeOK
  RegistryValid
  ReportedEditsLive
  NoVanishingPreset
  PinsResolve
  StartupFits
  SettingsFit
  ReadyWhileServing
  CleanStop
PROPERTIES
  EditsLand
  ShutdownEnds
