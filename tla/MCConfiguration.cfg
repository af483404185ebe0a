SPECIFICATION Spec
CHECK_DEADLOCK FALSE
CONSTANTS
  NULL = NULL
  DefaultsLayers <- Defaults
  OverlayLayers <- Overlays
  MaxSlugs = 2
INVARIANTS
  ConfigTypeOK
  LastWordDecides
  OriginDecides
  DefaultsVerdictHolds
  CommandsAgree
