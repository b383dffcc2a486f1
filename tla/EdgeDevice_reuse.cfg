SPECIFICATION Spec
CONSTANTS
  BACKOFF_INITIAL = 1
  BACKOFF_MAX = 6
  MaxPieces = 2
  MaxFails = 4
PROPERTY SessionReusable
