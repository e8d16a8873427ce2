SPECIFICATION RolesSpec
CONSTANTS
  MaxRank = 2
  Extents = {2}
  Shape <- MCShape
INVARIANT
  PixelsAreElements
