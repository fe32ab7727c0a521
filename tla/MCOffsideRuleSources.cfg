SPECIFICATION Spec
CONSTANTS
  Sources <- MCSources
INVARIANTS LexTypeOK NestedAsIndented VerdictRight TreeRight
