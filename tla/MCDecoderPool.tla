--------------------------- MODULE MCDecoderPool ---------------------------
(* Instances of DecoderPool: three concurrent RPCs are enough for a reset   *)
(* to race a decode_loaded and a load.                                      *)
EXTENDS DecoderPool
=============================================================================
