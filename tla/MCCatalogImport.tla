-------------------------- MODULE MCCatalogImport --------------------------
(***************************************************************************)
(* Two feeds at a time of two products and two variants: variants that     *)
(* move and swap bar codes, products that come back, quantities below      *)
(* zero, pictures, and feeds that list a product, a variant or a category  *)
(* twice.                                                                  *)
(***************************************************************************)
EXTENDS CatalogImport, TLC

CONSTANTS p, q, v, w, b, c

E(product, text, cats, images, variants) ==
    [product |-> product, status |-> "active", text |-> text, cats |-> cats, images |-> images,
     variants |-> variants]
V(ext, code, qty) == [ext |-> ext, code |-> code, qty |-> qty]

Case == [n \in {"Coats", "coats"} |-> "coats"]

FeedsSmall == {
    <<>>,
    <<E(p, "old", {"Coats"}, FALSE, <<V(v, b, 1), V(w, NoCode, -1)>>)>>,
    <<E(p, "new", {}, FALSE, <<V(w, b, NoQty)>>), E(q, "old", {}, FALSE, <<V(v, c, 0)>>)>>,
    <<E(q, "old", {"coats"}, TRUE, <<V(w, NoCode, 2)>>), E(p, "old", {"Coats"}, FALSE, <<V(w, NoCode, 2)>>)>>,
    <<E(q, "old", {}, TRUE, <<V(v, c, 1), V(v, b, 3)>>)>> }

ListsSmall == {<<[ext |-> w, qty |-> 3]>>}

Row(product, status) ==
    Product(product) :> [status |-> status, text |-> "old", cats |-> {}]
Of(n, ext, code) == Variant(<<0, 0, n>>) :> [ext |-> ext, product |-> p, code |-> code]

\* A new shop, in which a feed with two casings fails, and one that has the category.
ShopsSmall == {
    <<>>,
    (Category("coats") :> TRUE) @@ Row(p, "archived") @@ Row(q, "active") @@
    Of(1, v, b) @@ Of(2, w, c) @@ (Balance(<<0, 0, 1>>) :> [of |-> <<0, 0, 1>>, qty |-> 1]) }
=============================================================================
