--------------------------- MODULE MCCameraCredit ---------------------------
(* Small instances of the camera path. *)
EXTENDS CameraCredit

CONSTANTS c1, c2, i1, i2

TwoCameras == {c1, c2}
OneCamera  == {c1}
OneImage   == {i1}
TwoImages  == {i1, i2}
SameImage  == [n \in 0 .. (MaxFrames - 1) |-> [c \in Cameras |-> i1]]

Declares(populated) == [trusted |-> TRUE, populated |-> populated]
Legacy    == [trusted |-> FALSE, populated |-> {}]
LaneMetas == {Declares({c1}), Declares({})}
SlotMetas == {Declares({c1}), Legacy}
StrayMetas == {Declares({c1}), Declares({c1, c2})}
=============================================================================
