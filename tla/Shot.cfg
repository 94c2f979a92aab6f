\* Halves of two blocks, the depth-one lock streams the designs are built with,
\* and indices that tell two passes over the memory apart.
CONSTANTS
  NElem = 4
  CheckPeriod = 1
  MaxExtent = 4
  QueueDepth = 1
  MaxRepeat = 2
  DropMod = 8
SPECIFICATION ShotSpec
INVARIANTS NeverTruncated OnlyWholeShots PassesExact WindowLocated AnnouncementsFit
PROPERTIES HostIsServed
