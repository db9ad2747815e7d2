--------------------------- MODULE MCLiveClient ---------------------------
(* Small instances of LiveClient; their constants are plain values. *)
EXTENDS LiveClient
=============================================================================
