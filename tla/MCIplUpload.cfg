CONSTANTS
  ByteSize = 8
  Ready <- MCReady
  StartMark = 5
  Uploads <- MCUploads
  None = None
SPECIFICATION FairSpec
INVARIANTS DataHeld
PROPERTIES UploadArrives UploadEnds
CHECK_DEADLOCK FALSE
