---------------------------- MODULE ReplyEngine ----------------------------
(***************************************************************************)
(* One turn of ReplyEngineService.process: what the engine makes of the    *)
(* conversation's memory, given how the classifier read the message.       *)
(*                                                                         *)
(* A stage of the pipeline is an operator on the turn's context c, which   *)
(* holds the memory c.m, the classification c.t the stages rewrite, the    *)
(* products found and how the turn ends, c.out ("going" until it has).     *)
(*                                                                         *)
(* Modelled for a tenant whose products have one axis, the size, are of    *)
(* one category and are ranked in a fixed order, and who has neither size  *)
(* charts nor questions to ask before a search.  The answers of language   *)
(* models are data of the message: how it was read, and whether what it    *)
(* asks is covered.                                                        *)
(***************************************************************************)
EXTENDS Naturals, FiniteSets

CONSTANTS
    Products,
    Sizes,       \* sizes a message may name
    Carried,     \* Carried[p]: the sizes the catalogue has of p
    InStock,     \* InStock[p]: those that are available
    NoProduct, NoSize, NoVariant,
    Category     \* what a message names that names the category only

ASSUME ReplyEngineAssumption ==
    /\ IsFiniteSet(Products) /\ IsFiniteSet(Sizes)
    /\ NoProduct \notin Products /\ Category \notin Products \cup {NoProduct} /\ NoSize \notin Sizes
    /\ \A p \in Products : InStock[p] \subseteq Carried[p] /\ Carried[p] \subseteq Sizes
    /\ \A p \in Products : \A s \in Carried[p] : <<p, s>> # NoVariant

Variants == UNION {{<<p, s>> : s \in Carried[p]} : p \in Products}
Stock == {v \in Variants : v[2] \in InStock[v[1]]}
VariantsOf(p) == {v \in Variants : v[1] = p}
The(S) == CHOOSE x \in S : TRUE

NoMemory ==
    [state |-> "none", product |-> NoProduct, title |-> NoProduct,
     variant |-> NoVariant, named |-> FALSE, avail |-> {}, shown |-> {}, cart |-> {},
     last |-> "other", awaiting |-> "other", pivot |-> NoProduct,
     removalAsked |-> FALSE, broadenAsked |-> FALSE, broaden |-> NoSize, ordered |-> FALSE]

\* The action the classifier recommends with an intent.
ActionOf(intent) ==
    CASE intent = "browse" -> "show_products"
      [] intent = "price" -> "show_price"
      [] intent = "ready" -> "start_checkout"
      [] intent = "choice" -> "confirm_selection"
      [] intent \in {"recommend", "ask_variant"} -> intent
      [] OTHER -> "other"

Context(m, t) ==
    [m |-> m, t |-> t, action |-> ActionOf(t.intent), found |-> {}, head |-> NoProduct,
     scope |-> NoSize, first |-> FALSE, kept |-> FALSE, wide |-> FALSE, asked |-> t.intent,
     out |-> "going", items |-> {}]

Keep(c, m) == [c EXCEPT !.m = m]
Hear(c, t) == [c EXCEPT !.t = t]
Ends(c, out) == [c EXCEPT !.out = out]
Found(c, S) == [c EXCEPT !.found = S, !.head = IF S = {} THEN NoProduct ELSE The(S)]
FoundVariants(c, p) == {v \in VariantsOf(p) : c.scope \in {NoSize, v[2]}}
Route(c, intent, action) == [c EXCEPT !.t.intent = intent, !.action = action]
Available(S) == S \cap Stock
Ask(c) ==
    Route(Keep(c, [c.m EXCEPT !.state = "awaiting_variant"]), "ask_variant", "ask_variant")

(***************************************************************************)
(* What the memory forgets, and when                                       *)
(***************************************************************************)
NoChoice(m) == [m EXCEPT !.variant = NoVariant, !.named = FALSE]

ClearSelection(m) ==
    [NoChoice(m) EXCEPT !.product = NoProduct, !.title = NoProduct,
                        !.state = "none", !.avail = {}]

\* What a reply leaves: what it was, and that nothing is awaited.
Said(m, last) == [m EXCEPT !.last = last, !.awaiting = "other"]

GreetingReset(c) ==
    IF /\ c.t.intent = "greeting" /\ c.t.names = NoProduct
       /\ c.m.state # "none" /\ ~c.m.ordered
    THEN Keep(c, [NoMemory EXCEPT !.pivot = c.m.pivot, !.removalAsked = c.m.removalAsked])
    ELSE c

\* An order is done: thanks are acknowledged, anything else starts afresh.
PostOrder(c) ==
    IF ~c.m.ordered THEN c
    ELSE IF c.t.intent = "passive" THEN Ends(c, "reply")
    ELSE Keep(c, [NoMemory EXCEPT !.pivot = c.m.pivot, !.removalAsked = c.m.removalAsked,
                                  !.broadenAsked = c.m.broadenAsked, !.broaden = c.m.broaden])

(***************************************************************************)
(* Naming another product                                                  *)
(***************************************************************************)
IsPivot(c) == c.t.names \in Products /\ c.m.title \notin {NoProduct, c.t.names}

InCart(m, Titles) == {i \in m.cart : i.title \in Titles}
\* Mutant: the filter is the wrong way round.
WithoutOthers(m, item) == {i \in m.cart : i.variant = item.variant}
Without(m, item) == {i \in m.cart : i.variant # item.variant}

\* The answer to "which item shall I remove?".
AnswerCartRemoval(c) ==
    LET named == InCart(c.m, c.t.mentions)
        calm == [c.m EXCEPT !.awaiting = "other", !.pivot = NoProduct]
        left == [calm EXCEPT !.cart = Without(c.m, The(named)), !.removalAsked = FALSE]
        meant == IF c.t.names \in Products \/ c.m.pivot = NoProduct THEN c.t.names ELSE c.m.pivot
    IN IF c.m.awaiting # "cart_removal" THEN c
       ELSE IF Cardinality(named) # 1 THEN Keep(c, calm)
       ELSE Hear(Keep(c, ClearSelection(left)), [c.t EXCEPT !.names = meant])

Pending(m) ==
    /\ m.state = "awaiting_confirmation" /\ m.named
    /\ m.product # NoProduct /\ m.variant # NoVariant

Item(m) == [product |-> m.product, variant |-> m.variant, title |-> m.title]

\* 4.6: "and a shirt too" takes what was on offer, then moves on.
AddsToCart(c) ==
    LET held == \E i \in c.m.cart : i.product = c.m.product /\ i.variant = c.m.variant
        m == IF Pending(c.m) /\ ~held THEN [c.m EXCEPT !.cart = c.m.cart \cup {Item(c.m)}] ELSE c.m
    IN IF c.t.slot # "adds" \/ c.m.ordered THEN c
       ELSE IF c.m.title # NoProduct /\ ~IsPivot(c)
       THEN Keep(c, [NoChoice(m) EXCEPT !.state = "awaiting_product"])
       ELSE Keep(c, ClearSelection(m))

\* A message that removes something never adds.
CoerceRemovalCue(c) ==
    IF c.t.cue /\ c.t.slot = "adds" THEN Hear(c, [c.t EXCEPT !.slot = "correction"]) ELSE c

\* 4.6b: "only the jeans".
KeepOnly(c) ==
    LET keep == InCart(c.m, {c.t.names})
    IN IF \/ c.t.cue \/ c.t.slot # "correction" \/ c.t.names \notin Products
          \/ c.m.cart = {} \/ c.m.state # "cart_item_added" THEN c
       ELSE IF keep = {}
       THEN [Keep(c, [ClearSelection(c.m) EXCEPT !.cart = {}, !.last = "other",
                                                 !.awaiting = "other"]) EXCEPT !.kept = TRUE]
       ELSE [Keep(c, [c.m EXCEPT !.cart = keep, !.last = "other"])
               EXCEPT !.action = "ask_continue", !.kept = TRUE]

\* The rest of 4.6c, once the cart is settled.
Leave(c, m, names) ==
    Hear(Keep(c, [ClearSelection(m) EXCEPT !.awaiting = "other"]),
         [c.t EXCEPT !.names = names, !.size = IF c.t.typed THEN c.t.size ELSE NoSize])

AskWhichToRemove(c) ==
    LET asked == IF InCart(c.m, {c.t.names}) # {} THEN NoProduct ELSE c.t.names
    IN Ends(Keep(c, [c.m EXCEPT !.pivot = asked, !.awaiting = "cart_removal",
                                !.removalAsked = TRUE]), "ask_removal")

\* 4.6c: another product, while one is selected and the cart may hold some.
Pivot(c) ==
    LET named == InCart(c.m, c.t.mentions)
        gone == The(named)
        alone == \E i \in c.m.cart : c.m.cart = {i} /\ i.product = c.m.product
        with(cart) == [c.m EXCEPT !.cart = cart, !.removalAsked = FALSE]
    IN IF \/ c.m.ordered \/ c.t.photo # NoProduct \/ c.kept \/ c.m.product = NoProduct
          \/ c.t.slot \notin {"new_inquiry", "correction"} \/ ~IsPivot(c) THEN c
       ELSE IF Cardinality(named) = 1
       THEN Leave(c, with(Without(c.m, gone)),
                  IF c.t.names = gone.title THEN NoProduct ELSE c.t.names)
       ELSE IF alone THEN Leave(c, with({}), c.t.names)
       ELSE IF c.m.cart = {} \/ c.m.removalAsked THEN Leave(c, c.m, c.t.names)
       ELSE AskWhichToRemove(c)

(***************************************************************************)
(* Widening a search that found nothing                                    *)
(***************************************************************************)
ArmBroadenSearch(c, size) ==
    LET names == IF c.t.names = NoProduct THEN Category ELSE c.t.names
    IN Route([Hear(c, [c.t EXCEPT !.names = names]) EXCEPT !.wide = TRUE, !.scope = size],
             "browse", "show_products")

\* The answer to "shall I look wider?".
AnswerBroaden(c) ==
    LET calm == [c.m EXCEPT !.awaiting = "other", !.broaden = NoSize]
        done == [calm EXCEPT !.broadenAsked = FALSE]
    IN IF c.m.awaiting # "broaden" THEN c
       ELSE CASE c.t.slot = "confirmation" -> ArmBroadenSearch(Keep(c, done), c.m.broaden)
              [] c.t.slot = "rejection" -> Ends(Keep(c, [done EXCEPT !.last = "other"]), "reply")
              [] OTHER -> Keep(c, calm)

(***************************************************************************)
(* Media: a photo or a story that was matched to a product, the ground     *)
(* truth of its turn.                                                      *)
(***************************************************************************)
\* The photo's product takes the place of whatever was selected.
SeeProduct(c, p) ==
    LET offer == Available(VariantsOf(p))
        state == IF c.m.state # "none" THEN c.m.state
                 ELSE IF Cardinality(offer) = 1 THEN "awaiting_confirmation"
                 ELSE "awaiting_variant"
        names == IF c.t.names \in Products THEN p ELSE c.t.names
    IN Found(Hear(Keep(c, [c.m EXCEPT !.shown = VariantsOf(p), !.product = p, !.title = p,
                                      !.avail = offer, !.state = state]),
                  [c.t EXCEPT !.names = names]), {p})

\* A photo without a caption is the inquiry itself.
AsInquiry(c) ==
    IF c.t.caption THEN c
    ELSE Route(Hear(Keep(c, [NoChoice(c.m) EXCEPT !.state = "awaiting_product"]),
                    [c.t EXCEPT !.slot = "new_inquiry", !.size = NoSize]),
               "browse", "show_products")

Select(c, v, named) ==
    Keep(c, [c.m EXCEPT !.variant = v, !.named = named, !.state = "awaiting_confirmation"])

ConfirmIntent(c) ==
    IF c.t.size # NoSize THEN Route(c, "confirm_variant", "confirm_variant")
    ELSE Route(c, "choice", "confirm_selection")

Offer(c, v) == ConfirmIntent(Select(c, v, TRUE))

Unavailable(c) == Route(c, "variant_not_available", "variant_not_available")

\* 5.5m.
Media(c) ==
    LET seen == AsInquiry(SeeProduct(c, c.t.photo))
        offer == seen.m.avail
        wanted == {v \in offer : v[2] = seen.t.size}
    IN IF c.t.photo = NoProduct THEN c
       ELSE IF seen.t.intent \notin {"browse", "question", "ready"} /\ seen.action # "show_products"
       THEN seen
       ELSE IF wanted # {} THEN Offer(seen, The(wanted))
       ELSE IF seen.t.size # NoSize
       THEN Unavailable(Keep(seen, [NoChoice(seen.m) EXCEPT !.state = "awaiting_variant"]))
       ELSE IF Cardinality(offer) = 1 THEN Offer(seen, The(offer))
       ELSE Ask(seen)

(***************************************************************************)
(* Finding products                                                        *)
(***************************************************************************)
Narrows(c) ==
    /\ c.t.slot \in {"fills", "correction"} /\ c.m.state = "awaiting_product"
    /\ c.m.shown # {} /\ c.t.size # NoSize /\ c.t.names \notin Products

\* The size is asked of the products that were shown; a correction looks it
\* up in the catalogue, a choice among the variants shown.
NarrowGate(c) ==
    LET pool == IF c.t.slot = "correction"
                THEN UNION {VariantsOf(v[1]) : v \in c.m.shown} ELSE c.m.shown
        left == {v[1] : v \in {w \in pool : w[2] = c.t.size}}
        m == IF c.t.slot = "correction" THEN NoChoice(c.m) ELSE c.m
    IN IF c.found # {} \/ ~Narrows(c) THEN c
       ELSE IF left # {}
       THEN [Found(Keep(c, [m EXCEPT !.broadenAsked = FALSE]), left) EXCEPT !.scope = c.t.size]
       ELSE IF c.m.broadenAsked THEN ArmBroadenSearch(Keep(c, m), c.t.size)
       ELSE Ends(Keep(c, [m EXCEPT !.last = "other", !.awaiting = "broaden",
                                   !.broaden = c.t.size, !.broadenAsked = TRUE]), "ask_broaden")

VariantQuestionOnFocus(c) ==
    /\ c.m.product # NoProduct /\ c.t.slot \notin {"correction", "adds"}
    /\ c.t.size # NoSize /\ c.t.names \notin Products

CanAnswerFromFocus(c) == VariantQuestionOnFocus(c) /\ c.m.avail # {}

FocusGate(c) ==
    IF c.found = {} /\ VariantQuestionOnFocus(c) THEN Found(c, {c.m.product}) ELSE c

\* A yes to "shall we check out?": nothing is to be searched.
CommitsOnFullCart(c) ==
    /\ c.m.cart # {} /\ c.m.state = "cart_item_added" /\ c.m.last = "asked_continue"
    /\ c.t.slot \notin {"adds", "rejection"}
    /\ c.t.slot = "confirmation" \/ c.t.intent \in {"ready", "details"}
    /\ c.t.names \notin Products

ShouldSearch(c) ==
    /\ \/ c.m.state # "awaiting_confirmation" \/ c.m.product = NoProduct
       \/ c.m.variant = NoVariant \/ c.t.slot = "correction"
    /\ ~Narrows(c) /\ ~CommitsOnFullCart(c)
    /\ \/ c.action \in {"show_products", "recommend", "show_price",
                        "confirm_selection", "start_checkout"}
       \/ c.t.intent \in {"browse", "price", "recommend", "ready", "choice"}
       \/ c.t.names \in Products
       \/ c.t.names = Category /\ c.m.shown = {}

\* "What do you have?" is answered by the categories, "have you X?" by a human.
NothingFound(c) ==
    IF c.asked = "browse" /\ c.t.names = NoProduct /\ c.t.size = NoSize
    THEN Ends(Keep(c, Said(c.m, "other")), "reply")
    ELSE Ends(c, "handoff")

Unanswerable(c) == ~CanAnswerFromFocus(c) /\ ~CommitsOnFullCart(c)

\* shouldAdoptSearchLock: may product p take the place of the selected one?
Adopts(c, p) ==
    \/ c.m.product \in {NoProduct, p}
    \/ c.t.slot \in {"correction", "new_inquiry"}
    \/ c.t.names \in Products /\ c.m.title \notin {NoProduct, c.t.names}

\* checkAll: the products of a category, or those a title or a description names;
\* nothing named, nothing searched.
CheckAll(names) == IF names = Category THEN Products ELSE {names} \cap Products

\* searchProducts: the keywords of the message are names of one thing here.
SearchProducts(c) == CheckAll(c.t.names)

\* What the catalogue returns, kept to what was shown before unless widened.
Hits(c) ==
    LET hits == SearchProducts(c)
        known == hits \cap {v[1] : v \in c.m.shown}
    IN IF ~c.wide /\ Cardinality(hits) > 1 /\ known # {} THEN known ELSE hits

\* The hits that carry the size asked for, or all when none does and the
\* search was not widened for that size.
Sized(c) ==
    LET carrying(s) == {p \in Hits(c) : s \in Carried[p]}
    IN IF c.scope # NoSize THEN Found(c, carrying(c.scope))
       ELSE IF c.t.size # NoSize /\ carrying(c.t.size) # {}
       THEN [Found(c, carrying(c.t.size)) EXCEPT !.scope = c.t.size]
       ELSE Found(c, Hits(c))

Present(c) == Keep(c, [c.m EXCEPT !.shown = UNION {FoundVariants(c, p) : p \in c.found}])

\* The selected product is kept, and what was found is not its concern.
LockHolds(c) ==
    LET wanted == {v \in c.m.avail : v[2] = c.t.size}
        kept == Found(c, {})
    IN IF wanted # {} /\ c.m.variant = NoVariant THEN Offer(kept, The(wanted)) ELSE kept

Lock(c) ==
    LET p == IF c.m.product \in c.found THEN c.m.product ELSE c.head
    IN IF c.m.product \notin c.found \cup {NoProduct}
          /\ (Cardinality(c.found) > 1 \/ ~Adopts(c, p))
       THEN LockHolds(c)
       ELSE IF p # c.m.product /\ Cardinality(c.found) > 1 THEN Present(c)
       ELSE [Keep(c, [Present(c).m EXCEPT !.avail = Available(FoundVariants(c, p)),
                                          !.product = p, !.title = p]) EXCEPT !.head = p]

FirstShown(c, first) ==
    LET d == IF first THEN [Keep(c, [c.m EXCEPT !.state = "awaiting_product"])
                              EXCEPT !.first = TRUE]
             ELSE c
    IN IF /\ d.m.state = "awaiting_product" /\ d.m.product # NoProduct
          /\ d.m.variant # NoVariant
       THEN [Keep(d, [d.m EXCEPT !.state = "awaiting_confirmation"])
               EXCEPT !.action = "confirm_selection"]
       ELSE d

Search(c) ==
    LET d == IF c.t.slot = "correction" THEN Keep(c, NoChoice(c.m)) ELSE c
        hits == Sized(d)
    IN IF c.found # {} \/ ~(c.wide \/ ShouldSearch(c)) THEN c
       ELSE IF hits.found # {} THEN FirstShown(Lock(hits), c.m.shown = {})
       ELSE IF Unanswerable(d) /\ d.t.intent \in {"browse", "ready"} THEN NothingFound(d)
       ELSE d

(***************************************************************************)
(* Choosing a variant                                                      *)
(***************************************************************************)
\* 5.5o: one product was found, without the size asked for.
VariantUnavailable(c) ==
    LET p == c.head
        scoped == FoundVariants(c, p)
        here == Available(scoped)
        all == Available(VariantsOf(p))
        m == [NoChoice(c.m) EXCEPT !.product = p, !.last = "other"]
        about(n) == [Keep(c, n) EXCEPT !.first = FALSE]
    IN IF \/ Cardinality(c.found) # 1 \/ c.t.size = NoSize
          \/ c.t.slot = "confirmation" /\ c.m.variant # NoVariant /\ ~c.t.typed THEN c
       ELSE IF here # {}
       THEN IF <<p, c.t.size>> \in scoped THEN c
            ELSE Unavailable(about([m EXCEPT !.avail = here]))
       ELSE IF all = {}
       THEN Route(about([m EXCEPT !.state = "awaiting_product"]), "out_of_stock", "out_of_stock")
       ELSE Unavailable(about([m EXCEPT !.state = "awaiting_product", !.avail = all]))

\* A question about the product: answered from its data, or by a human.
ProductQuestion(c) ==
    IF c.t.intent # "question" \/ (c.m.product = NoProduct /\ Cardinality(c.found) # 1) THEN c
    ELSE IF c.t.covered THEN Ends(Keep(c, [c.m EXCEPT !.last = "other"]), "reply")
    ELSE Ends(c, "handoff")

\* Mutant: a refusal is not heard.
DeclineUnheard(c) == c

\* 5.5a-rej.
DeclineOffer(c) ==
    IF /\ c.t.slot = "rejection" /\ c.m.state = "awaiting_confirmation"
       /\ c.m.product # NoProduct /\ c.t.names = NoProduct
    THEN Route(Keep(c, [NoChoice(c.m) EXCEPT !.state = "awaiting_product"]),
               "decline", "decline")
    ELSE c

\* 5.5a-pre.
AskedForAnother(c) ==
    IF /\ c.m.state = "awaiting_confirmation" /\ c.m.product # NoProduct
       /\ c.t.slot \notin {"confirmation", "rejection"} /\ c.m.avail # {}
       /\ IF c.t.size = NoSize
          THEN c.t.intent = "ask_variant" /\ Cardinality(c.m.avail) = 1
          ELSE \A v \in c.m.avail : v[2] # c.t.size
    THEN Unavailable(c)
    ELSE c

\* Mutant: wanting to buy is taken for a yes.
AddWhenReady(c) ==
    IF /\ c.t.slot = "confirmation" \/ c.t.intent = "ready"
       /\ c.m.state = "awaiting_confirmation" /\ c.m.product # NoProduct /\ c.m.variant # NoVariant
    THEN Route(Keep(c, [c.m EXCEPT !.cart = c.m.cart \cup {Item(c.m)},
                                   !.state = "cart_item_added"]), "choice", "ask_continue")
    ELSE c

\* Mutant: the item is added, and the conversation still waits for a yes to it.
AddInPlace(c) ==
    IF /\ c.t.slot = "confirmation" /\ c.m.state = "awaiting_confirmation"
       /\ c.m.product # NoProduct /\ c.m.variant # NoVariant
    THEN Route(Keep(c, [c.m EXCEPT !.cart = c.m.cart \cup {Item(c.m)}]), "choice", "ask_continue")
    ELSE c

\* 5.5a: yes to the variant on offer puts it into the cart.
AddToCart(c) ==
    LET held == \E i \in c.m.cart : i.variant = c.m.variant
    IN IF /\ c.t.slot = "confirmation" /\ c.m.state = "awaiting_confirmation"
          /\ c.m.product # NoProduct /\ c.m.variant # NoVariant
       THEN Route(Keep(c, [c.m EXCEPT !.cart = IF held THEN c.m.cart
                                               ELSE c.m.cart \cup {Item(c.m)},
                                      !.state = "cart_item_added"]), "choice", "ask_continue")
       ELSE c

\* 5.5a-2: yes to "shall we check out?".
CheckOut(c) ==
    IF /\ c.t.slot = "confirmation" \/ c.t.intent \in {"ready", "details"}
       /\ c.m.state = "cart_item_added" /\ c.m.cart # {} /\ c.m.last = "asked_continue"
    THEN Route(Keep(c, [c.m EXCEPT !.state = "confirmed"]), "ready", "start_checkout")
    ELSE c

\* One of the variants in S, if the size or the lack of others tells which.
Choose(c, S) ==
    LET wanted == {v \in S : v[2] = c.t.size}
    IN IF Cardinality(S) = 1 THEN Offer(c, The(S))
       ELSE IF wanted # {} THEN Offer(c, The(wanted))
       ELSE Ask(c)

Unchosen(c) == c.m.product # NoProduct /\ c.m.variant = NoVariant

\* 5.5b: yes, before a variant was chosen.
ConfirmsProduct(c) ==
    IF /\ c.t.slot = "confirmation" /\ Unchosen(c) /\ c.m.avail # {}
       /\ c.m.state \in {"awaiting_confirmation", "awaiting_variant"}
    THEN Choose(c, c.m.avail)
    ELSE c

\* 5.5c: the missing size is filled in.
FillsVariant(c) ==
    LET here == Available(FoundVariants(c, c.head))
        d == Choose(c, here)
    IN IF /\ \/ c.t.slot \in {"fills", "correction"}
             \/ c.t.slot = "confirmation" /\ c.t.size # NoSize
          /\ Unchosen(c) /\ Cardinality(c.found) = 1 /\ here # {}
       THEN IF d.m.variant = NoVariant THEN Keep(d, [d.m EXCEPT !.avail = here]) ELSE d
       ELSE c

\* 5.5d: a product was picked from the list.
PicksVariant(c) ==
    IF c.m.state = "awaiting_product" /\ Unchosen(c) /\ c.m.avail # {}
    THEN Choose(c, c.m.avail)
    ELSE c

ResolveVariant(c) ==
    IF c.t.intent \in {"variant_not_available", "out_of_stock"} THEN c
    ELSE PicksVariant(FillsVariant(ConfirmsProduct(CheckOut(AddToCart(AskedForAnother(
         DeclineOffer(c)))))))

(***************************************************************************)
(* The reply: a scenario, the stage gates, and the templates that can be   *)
(* filled in.                                                              *)
(***************************************************************************)
\* A price turn about a product with variants asks for the variant as well.
OfferVariants(c) ==
    LET here == IF c.m.product \in c.found THEN Available(FoundVariants(c, c.m.product))
                ELSE c.m.avail
    IN IF /\ c.asked = "price" \/ c.t.intent = "price" \/ c.action = "show_price"
          /\ Unchosen(c) /\ c.t.size = NoSize /\ Cardinality(here) > 1
       THEN Route(c, "price_with_variants", "price_with_variants")
       ELSE c

OfIntent(intent) ==
    CASE intent = "greeting" -> "greeting"
      [] intent = "browse" -> "show_products"
      [] intent = "price" -> "show_price"
      [] intent = "recommend" -> "recommend_product"
      [] intent \in {"ready", "details"} -> "collect_checkout"
      [] intent = "choice" -> "confirm_selection"
      [] intent \in {"price_with_variants", "confirm_variant", "decline", "delivery",
                     "ask_variant", "variant_not_available"} -> intent
      [] OTHER -> "none"

OfAction(action) ==
    CASE action = "recommend" -> "recommend_product"
      [] action = "start_checkout" -> "collect_checkout"
      [] action \in {"show_products", "show_price", "confirm_selection", "ask_continue"} -> action
      [] OTHER -> "none"

ResolveScenario(c) ==
    IF c.m.state = "cart_item_added" /\ c.action = "ask_continue" THEN "ask_continue"
    ELSE IF /\ c.t.intent = "details" /\ c.t.details /\ c.m.product # NoProduct
            /\ c.m.state = "confirmed" \/ c.m.last = "asked_delivery"
    THEN "confirm_order"
    ELSE IF /\ c.t.intent = "recommend" \/ c.asked = "recommend"
            /\ Cardinality({v[1] : v \in c.m.shown}) > 1 /\ c.m.state # "awaiting_variant"
    THEN "recommend_shown"
    ELSE IF /\ c.asked = "choice" /\ c.m.last = "gave_recommendation"
            /\ c.m.state # "awaiting_variant"
    THEN "confirm_selection"
    ELSE IF c.t.intent = "ready" /\ c.m.last = "confirmed_product" THEN "ask_delivery"
    ELSE IF OfIntent(c.t.intent) # "none" THEN OfIntent(c.t.intent)
    ELSE OfAction(c.action)

\* enforceStageGates: no checkout before a product and a variant are chosen.
StageGate(c, s) ==
    IF \/ s = "none" \/ c.m.state = "confirmed"
       \/ /\ c.m.state = "cart_item_added"
          /\ s \in {"ask_continue", "collect_checkout", "ask_delivery"} THEN s
    ELSE IF s \in {"collect_checkout", "ask_delivery"}
    THEN IF c.m.product = NoProduct THEN "show_products"
         ELSE IF c.m.variant = NoVariant THEN "ask_variant" ELSE "confirm_selection"
    ELSE IF /\ c.found # {} /\ c.m.shown = {}
            /\ s \in {"confirm_selection", "recommend_product", "confirm_order", "ask_variant"}
    THEN "show_products"
    ELSE IF c.t.slot = "correction" /\ c.m.state = "awaiting_confirmation" THEN "confirm_selection"
    ELSE IF s = "confirm_selection" /\ c.m.shown = {} /\ c.found = {} THEN "show_products"
    ELSE s

\* buildVariableMap: what the templates can be filled in with.
HasName(c) ==
    c.m.title # NoProduct \/ c.m.shown # {} \/ c.head # NoProduct \/ c.t.names \in Products
HasPrice(c) == IF c.m.title = NoProduct THEN c.m.shown # {} \/ c.head # NoProduct
               ELSE c.m.title \in {c.head} \cup {v[1] : v \in c.m.shown}

HeadVariants(c) == IF c.head = NoProduct THEN {} ELSE FoundVariants(c, c.head)
HasKind(c) == Cardinality(HeadVariants(c)) > 1 \/ c.m.avail # {}
HasList(c) == \/ Cardinality(HeadVariants(c)) > 1 /\ Available(HeadVariants(c)) # {}
              \/ c.m.avail # {}

\* The variant the variable map infers from what was found (matched_variant_id).
Guess(c) ==
    IF \/ c.m.state = "awaiting_confirmation" /\ c.m.named
       \/ c.m.state = "cart_item_added" /\ c.m.cart # {} THEN {}
    ELSE IF c.t.size # NoSize THEN {v \in Available(HeadVariants(c)) : v[2] = c.t.size}
    ELSE IF Cardinality(HeadVariants(c)) = 1 THEN Available(HeadVariants(c)) ELSE {}

HasVariantName(c) ==
    \/ c.m.state = "awaiting_confirmation" /\ c.m.named
    \/ c.m.state = "cart_item_added" /\ c.m.cart # {}
    \/ Guess(c) # {}

\* A template can be filled in (men store pack).
Viable(c, s) ==
    CASE s = "show_products" -> c.found # {}
      [] s \in {"show_price", "recommend_product"} -> HasName(c) /\ HasPrice(c)
      [] s \in {"recommend_shown", "ask_continue"} -> HasName(c)
      [] s = "ask_variant" -> HasName(c) /\ HasList(c)
      [] s = "price_with_variants" -> HasName(c) /\ HasPrice(c) /\ HasList(c)
      [] s = "variant_not_available" -> c.t.size # NoSize /\ HasList(c)
      [] s = "confirm_variant" -> HasName(c) /\ HasPrice(c) /\ HasVariantName(c) /\ HasKind(c)
      [] s = "confirm_selection" -> HasName(c) /\ HasPrice(c) /\ HasVariantName(c)
      [] OTHER -> s # "none"

\* renderScenario: the template of s, or of the scenario it gives way to.
RenderScenario(c, s) ==
    LET second == CASE s = "confirm_selection" /\ ~HasVariantName(c) -> "ask_variant"
                    [] s = "price_with_variants" -> "show_price"
                    [] OTHER -> "none"
    IN IF Viable(c, s) THEN s ELSE IF Viable(c, second) THEN second ELSE "none"

Render(c) ==
    IF /\ c.first /\ c.found # {}
       /\ c.m.state # "awaiting_confirmation" \/ c.m.variant = NoVariant
    THEN RenderScenario(c, "show_products")
    ELSE IF c.t.intent = "question" /\ c.t.covered THEN "faq"
    ELSE RenderScenario(c, StageGate(c, ResolveScenario(c)))

(***************************************************************************)
(* What the memory keeps of the reply                                      *)
(***************************************************************************)
Remember(c, s) ==
    LET m == c.m
        confirmed == [Said(m, "confirmed_product") EXCEPT !.state = "awaiting_confirmation"]
        recommended == [Said(m, "gave_recommendation") EXCEPT !.state = "awaiting_confirmation"]
    IN CASE s \in {"faq", "decline"} -> m
         [] s \in {"variant_not_available", "delivery"} -> [m EXCEPT !.last = "other"]
         [] s \in {"show_price", "confirm_order", "fallback"} -> Said(m, "other")
         [] s = "ask_continue" -> Said(m, "asked_continue")
         [] s = "greeting" -> [Said(m, "other") EXCEPT !.state = "none"]
         [] s = "show_products" ->
              [Said(m, "other") EXCEPT !.state = IF @ = "none" THEN "awaiting_product" ELSE @]
         [] s \in {"ask_variant", "price_with_variants"} ->
              [NoChoice(Said(m, "other")) EXCEPT !.state = "awaiting_variant"]
         [] s \in {"ask_delivery", "collect_checkout"} ->
              [Said(m, "asked_delivery") EXCEPT !.state = "confirmed"]
         [] s = "confirm_variant" -> confirmed
         [] s = "confirm_selection" ->
              [confirmed EXCEPT !.title = IF c.t.names \in Products THEN c.t.names ELSE @,
                                !.named = @ \/ c.t.size # NoSize]
         [] s \in {"recommend_product", "recommend_shown"} ->
              IF c.head = NoProduct THEN recommended
              ELSE [recommended EXCEPT !.product = c.head, !.title = c.head,
                                       !.avail = FoundVariants(c, c.head)]

\* The inferred variant is kept, unless the reply asks for one.
Latch(c, s, guess) ==
    IF guess = {} \/ s \in {"faq", "decline", "fallback", "variant_not_available", "ask_variant",
                            "show_products", "price_with_variants"} THEN c
    ELSE Keep(c, [c.m EXCEPT !.variant = The(guess), !.named = c.m.named \/ c.t.size # NoSize])

\* The product found becomes the selected one; a list of products selects none.
SyncProduct(c) ==
    IF c.found = {} THEN c
    ELSE IF c.m.state = "awaiting_product" /\ Cardinality(c.found) > 1
    THEN Keep(c, [c.m EXCEPT !.variant = NoVariant])
    ELSE IF Adopts(c, c.head)
    THEN Keep(c, [c.m EXCEPT !.product = c.head,
                             !.title = IF c.m.title = NoProduct THEN c.head ELSE c.m.title])
    ELSE c

\* Mutant: the cart is not looked at.
SelectedOnly(m) ==
    IF m.product # NoProduct /\ m.variant # NoVariant THEN {Item(m)} ELSE {}

\* buildOrderPayload: the cart, or else the one variant that is selected.
Payload(m) ==
    IF m.cart # {} THEN m.cart
    ELSE IF m.product # NoProduct /\ m.variant # NoVariant THEN {Item(m)} ELSE {}

CreateOrder(c, s) ==
    IF s = "confirm_order" /\ ~c.m.ordered
    THEN [Ends(Keep(c, [c.m EXCEPT !.ordered = TRUE]), "order") EXCEPT !.items = Payload(c.m)]
    ELSE Ends(c, "reply")

Speak(c, s) ==
    CreateOrder(SyncProduct(Latch(Keep(c, Remember(c, s)), s, Guess(c))), s)

\* No template fits: a category menu, a human, or a reply of a language model.
SpeakFreely(c) ==
    IF c.t.intent \in {"browse", "ready", "price"} /\ c.found = {} /\ Unanswerable(c)
    THEN NothingFound(c)
    ELSE IF /\ c.t.intent = "details"
            /\ c.m.product = NoProduct
               \/ (c.m.state # "confirmed" /\ c.m.last # "asked_delivery")
    THEN Ends(SyncProduct(c), "reply")
    ELSE Ends(SyncProduct(Keep(c, Remember(c, "fallback"))), "reply")

BuildResponse(c) ==
    LET d == OfferVariants(c)
        s == Render(d)
    IN IF s = "none" THEN SpeakFreely(d) ELSE Speak(d, s)

(***************************************************************************)
(* process: the stages in their order, until one ends the turn.            *)
(***************************************************************************)
Policy(c) == IF c.t.intent = "human" THEN Ends(c, "handoff") ELSE c
Going(c) == c.out = "going"

ClassifyMessage(c) ==
    LET a == Policy(c)
        b == AnswerBroaden(AnswerCartRemoval(a))
        d == PostOrder(GreetingReset(b))
    IN IF ~Going(a) THEN a ELSE IF ~Going(b) THEN b ELSE IF ~Going(d) THEN d
       ELSE Pivot(KeepOnly(AddsToCart(CoerceRemovalCue(d))))

SearchAndFilter(c) ==
    LET a == NarrowGate(Media(c))
    IN IF Going(a) THEN Search(FocusGate(a)) ELSE a

Process(m, t) ==
    LET a == ClassifyMessage(Context(m, t))
        b == SearchAndFilter(a)
        d == ProductQuestion(VariantUnavailable(b))
    IN IF ~Going(a) THEN a ELSE IF ~Going(b) THEN b ELSE IF ~Going(d) THEN d
       ELSE BuildResponse(ResolveVariant(d))
=============================================================================
