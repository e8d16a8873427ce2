--------------------------- MODULE MCViewerRoles ---------------------------
(* Instances of ViewerRoles: all shapes up to a rank, of a few extents.    *)
EXTENDS ViewerRoles

CONSTANTS MaxRank, Extents

MCShape == UNION {[1 .. r -> Extents] : r \in 0 .. MaxRank}

=============================================================================
