------------------------- MODULE MCInstagramComments -------------------------
(***************************************************************************)
(* Two comments of one customer, or one of them twice.                     *)
(***************************************************************************)
EXTENDS InstagramComments

CONSTANTS ann

ByAnn == [c \in Comments |-> ann]
=============================================================================
