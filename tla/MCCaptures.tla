------------------------------ MODULE MCCaptures ------------------------------
(* Captures with texts around the lengths of the script and of the encodings. *)
EXTENDS Captures

MCLengths    == {1, 5, 11, 12, 97, 98, 131, 254, 255, 256}
MCBoundaries == {0, 1, 127, 128, 160, 16383, 16384, 2097151, 2097152, 268435455}
=============================================================================
