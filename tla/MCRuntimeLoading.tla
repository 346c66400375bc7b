------------------------- MODULE MCRuntimeLoading -------------------------
(* The Windows program that sets the clock, with a library without a fault. *)
EXTENDS RuntimeLoading

DeviceInfo == {"device_info"}
NoFault    == {{}}
=============================================================================
