--------------------------- MODULE MCBase64Guard ---------------------------
(* Two-byte MACs, whose canonical text is three letters and one Pad like   *)
(* the 32-byte HMAC-SHA256 (32 = 3 * 10 + 2).  <<0,0>> encodes as "AAA="    *)
(* and <<0,1>> as "AAE="; letters 1 and 5 ("B", "F") are aliases of their  *)
(* last letters with non-zero unused bits.                                 *)
EXTENDS Base64Guard

MCMacs == {<<0, 0>>, <<0, 1>>}
=============================================================================
