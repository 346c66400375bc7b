-------------------------- MODULE MCGnssPositions --------------------------
(* Small instances of GnssPositions. *)
EXTENDS GnssPositions

CONSTANTS GGA, RTK, e1, e2

BothSources == {GGA, RTK}
OneSource   == {RTK}
OneEpoch    == {e1}
TwoEpochs   == {e1, e2}
=============================================================================
