------------------------------ MODULE MCGroundLink ------------------------------
(* GroundLink with five short packets, and bytes of noise that are the header, a    *)
(* length that is too large for any packet, one that fits, one that is too short.   *)
EXTENDS GroundLink, TLC

MCData == <<<<1>>, <<2>>, <<3>>, <<4>>, <<5>>>>
===============================================================================
