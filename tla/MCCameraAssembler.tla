------------------------- MODULE MCCameraAssembler -------------------------
(* Small instances of CameraAssembler: two slots, images of two chunks. *)
EXTENDS CameraAssembler, TLC

CONSTANTS c1, c2, i1, i2

TwoCameras == {c1, c2}
OneCamera  == {c1}
TwoImages  == {i1, i2}
OneImage   == {i1}
Symmetry   == Permutations(Images)

(* Slot population declared by trusted metadata, and legacy metadata. *)
Declares(slots) == [trusted |-> TRUE, populated |-> slots]
Legacy          == [trusted |-> FALSE, populated |-> {}]
SlotMetas == {Declares({c1, c2}), Declares({c1}), Declares({}), Legacy}
FullMeta  == {Declares({c1})}
LaneMetas == {Declares({c1}), Declares({})}
=============================================================================
