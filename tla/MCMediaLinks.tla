---------------------------- MODULE MCMediaLinks ----------------------------
(***************************************************************************)
(* A post with an article in its caption, and a story with another or      *)
(* without, fetched while the staff edits them.                            *)
(***************************************************************************)
EXTENDS MediaLinks, TLC

CONSTANTS post, story, a, b, va, vb

PostThenStory == <<post, story>>
\* A link and its removal, as the panel asks for them, and each field by itself.
SomePatches ==
    {[product |-> b, variant |-> Kept, confirmed |-> TRUE],
     [product |-> None, variant |-> None, confirmed |-> FALSE],
     [product |-> None, variant |-> Kept, confirmed |-> Kept],
     [product |-> Kept, variant |-> vb, confirmed |-> Kept],
     [product |-> Kept, variant |-> Kept, confirmed |-> TRUE]}
Owner == va :> a @@ vb :> b
SomeCaptions == {post :> va @@ story :> vb, post :> va @@ story :> None}
=============================================================================
