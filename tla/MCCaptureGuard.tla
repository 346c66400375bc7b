--------------------------- MODULE MCCaptureGuard ---------------------------
(* CaptureGuard for the USB program alone. *)
EXTENDS CaptureGuard

UsbOnly == {"usb"}
=============================================================================
