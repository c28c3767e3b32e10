------------------------ MODULE SalesDialogueProofs ------------------------
(***************************************************************************)
(* What a conversation keeps, for every catalogue and every reading of its *)
(* messages.  A turn is followed stage by stage: while it is recalled      *)
(* (Recalled, Fresh) the memory only loses things, and the cart loses what *)
(* the message gives up; from the search on (OnTrack) the variant it       *)
(* selects was in it before or is asked for by the message, and it comes   *)
(* into the cart with a yes to it, or to another question, or under the    *)
(* name of another product; the reply (Answered) then ends the turn with   *)
(* an order of what is in the cart or what the details name, or with none. *)
(***************************************************************************)
EXTENDS SalesDialogue, FiniteSetTheorems, TLAPS

(***************************************************************************)
(* Types                                                                   *)
(***************************************************************************)
MaybeProduct == Products \cup {NoProduct}
MaybeVariant == Variants \cup {NoVariant}
Cartable == [product : Products, variant : Variants, title : MaybeProduct]
States == {"none", "awaiting_product", "awaiting_variant", "awaiting_confirmation",
           "cart_item_added", "confirmed"}
Lasts == {"other", "asked_continue", "asked_delivery", "confirmed_product",
          "gave_recommendation"}

Memories ==
    [state : States, product : MaybeProduct, title : MaybeProduct, variant : MaybeVariant,
     named : BOOLEAN, avail : SUBSET Variants, shown : SUBSET Variants, cart : SUBSET Cartable,
     last : Lasts, awaiting : {"other", "cart_removal", "broaden"}, pivot : MaybeProduct,
     removalAsked : BOOLEAN, broadenAsked : BOOLEAN, broaden : Sizes \cup {NoSize},
     ordered : BOOLEAN]

\* What the stages make of an intent; Settled are those that leave nothing to guess.
Settled == {"choice", "confirm_variant", "variant_not_available", "out_of_stock",
            "ask_variant", "price_with_variants"}
Routes == Intents \cup Settled \cup {"decline"}
Actions == Routes \cup {"show_products", "show_price", "start_checkout", "confirm_selection",
                        "ask_continue"}
Outs == {"reply", "handoff", "order", "ask_removal", "ask_broaden"}

Heard ==
    [intent : Routes, slot : Slots, names : MaybeProduct \cup {Category},
     size : Sizes \cup {NoSize}, typed : BOOLEAN, mentions : SUBSET Products, cue : BOOLEAN,
     photo : MaybeProduct, caption : BOOLEAN, details : BOOLEAN, covered : BOOLEAN]

Contexts ==
    [m : Memories, t : Heard, action : Actions, found : SUBSET Products, head : MaybeProduct,
     scope : Sizes \cup {NoSize}, first : BOOLEAN, kept : BOOLEAN, wide : BOOLEAN,
     asked : Intents, out : Outs \cup {"going"}, items : SUBSET Cartable]

(***************************************************************************)
(* The updates the stages are made of                                      *)
(***************************************************************************)
\* d is c but for memory and classification, or but for what was found as well.
Besides(c, d) ==
    /\ d.wide = c.wide /\ d.asked = c.asked /\ d.out = c.out /\ d.items = c.items
    /\ d.kept = c.kept /\ d.scope = c.scope
SameFinds(c, d) == Besides(c, d) /\ d.found = c.found /\ d.head = c.head

LEMMA ContextParts ==
    ASSUME NEW c \in Contexts
    PROVE  /\ c.m \in Memories /\ c.t \in Heard /\ c.found \subseteq Products
           /\ c.head \in MaybeProduct /\ c.scope \in Sizes \cup {NoSize}
           /\ c.items \subseteq Cartable /\ c.out \in Outs \cup {"going"}
           /\ c.action \in Actions /\ c.asked \in Intents
BY DEF Contexts

\* Replacing the memory.
LEMMA KeepIs ==
    ASSUME NEW c \in Contexts, NEW m \in Memories
    PROVE  /\ Keep(c, m) \in Contexts
           /\ Keep(c, m).m = m /\ Keep(c, m).t = c.t /\ Keep(c, m).action = c.action
           /\ SameFinds(c, Keep(c, m))
BY DEF Contexts, Keep, SameFinds, Besides

\* Rewriting the classification.
LEMMA HearIs ==
    ASSUME NEW c \in Contexts, NEW r \in Heard
    PROVE  /\ Hear(c, r) \in Contexts
           /\ Hear(c, r).m = c.m /\ Hear(c, r).t = r /\ Hear(c, r).action = c.action
           /\ SameFinds(c, Hear(c, r))
BY DEF Contexts, Hear, SameFinds, Besides

\* Rerouting a message.
LEMMA RouteIs ==
    ASSUME NEW c \in Contexts, NEW i \in Routes, NEW a \in Actions
    PROVE  /\ Route(c, i, a) \in Contexts
           /\ Route(c, i, a).m = c.m /\ Route(c, i, a).t = [c.t EXCEPT !.intent = i]
           /\ Route(c, i, a).t.intent = i
           /\ SameFinds(c, Route(c, i, a))
BY DEF Contexts, Route, SameFinds, Besides, Heard

\* Ending a turn.
LEMMA EndsIs ==
    ASSUME NEW c \in Contexts, NEW o \in Outs
    PROVE  /\ Ends(c, o) \in Contexts
           /\ Ends(c, o).m = c.m /\ Ends(c, o).t = c.t /\ Ends(c, o).out = o
           /\ Ends(c, o).items = c.items
BY DEF Contexts, Ends

\* Finding products: one of them comes first.
LEMMA FoundIs ==
    ASSUME NEW c \in Contexts, NEW S \in SUBSET Products
    PROVE  /\ Found(c, S) \in Contexts
           /\ Found(c, S).m = c.m /\ Found(c, S).t = c.t /\ Found(c, S).action = c.action
           /\ Found(c, S).found = S
           /\ Found(c, S).head = NoProduct <=> S = {}
           /\ S # {} => Found(c, S).head \in S
           /\ Besides(c, Found(c, S))
<1>1. S # {} => The(S) \in S
  BY DEF The
<1>2. NoProduct \notin Products
  BY ReplyEngineAssumption DEF ReplyEngineAssumption
<1> QED BY <1>1, <1>2 DEF Contexts, Found, Besides, MaybeProduct

\* A set with one member has one, whether or not it is finite.
LEMMA OneIsSome ==
    ASSUME NEW S, Cardinality(S) = 1
    PROVE  S # {}
BY FS_EmptySet

LEMMA SomeVariant ==
    ASSUME NEW v \in Variants
    PROVE  v # NoVariant /\ v[1] \in Products /\ v[2] \in Sizes /\ v = <<v[1], v[2]>>
BY ReplyEngineAssumption DEF ReplyEngineAssumption, Variants

LEMMA CatalogueIsFinite == IsFiniteSet(Variants) /\ IsFiniteSet(Cartable)
<1>1. IsFiniteSet(Products) /\ IsFiniteSet(Sizes)
  BY ReplyEngineAssumption DEF ReplyEngineAssumption
<1>2. Variants \subseteq Products \X Sizes
  BY ReplyEngineAssumption DEF ReplyEngineAssumption, Variants
<1>3. IsFiniteSet(Variants)
  BY <1>1, <1>2, FS_Product, FS_Subset
<1>4. IsFiniteSet(MaybeProduct)
  BY <1>1, FS_AddElement DEF MaybeProduct
<1> DEFINE Triples == (Products \X Variants) \X MaybeProduct
           F(x) == [product |-> x[1][1], variant |-> x[1][2], title |-> x[2]]
           f == [x \in Triples |-> F(x)]
<1>5. IsFiniteSet(Triples)
  BY <1>1, <1>3, <1>4, FS_Product
<1>6. Cartable = {f[x] : x \in Triples}
  <2>1. ASSUME NEW i \in Cartable PROVE \E x \in Triples : i = f[x]
    <3>1. <<<<i.product, i.variant>>, i.title>> \in Triples
      BY DEF Cartable
    <3>2. i = [product |-> i.product, variant |-> i.variant, title |-> i.title]
      BY DEF Cartable
    <3> QED BY <3>1, <3>2
  <2>2. ASSUME NEW x \in Triples PROVE f[x] \in Cartable
    BY DEF Cartable
  <2> QED BY <2>1, <2>2
<1> HIDE DEF Triples, f
<1>7. f \in [Triples -> Cartable]
  BY <1>6 DEF f
<1>8. f \in Surjection(Triples, Cartable)
  BY <1>6, <1>7 DEF Surjection
<1> QED BY <1>3, <1>5, <1>8, FS_Surjection

(***************************************************************************)
(* What holds of the memory and of the classification while a message t is *)
(* handled.  V is what the selected variant may be, B what the cart may    *)
(* hold.                                                                   *)
(***************************************************************************)
Good(m, V, B) ==
    /\ m \in Memories
    /\ m.product = NoProduct => m.avail = {} /\ m.variant = NoVariant
    /\ m.state \in {"cart_item_added", "confirmed"} => m.cart # {} /\ m.product # NoProduct
    /\ m.variant \in V \cup {NoVariant}
    /\ \A i \in m.cart : i.variant \in B \/ Mixed(i)

\* Asked for the delivery without a cart, the engine has no variant in mind.
Unpicked(m) == m.last = "asked_delivery" /\ m.cart = {} => m.variant = NoVariant

\* Products the message asks for, and the variants it may be taken to mean.
Asked(t) ==
    Products \cap ({t.names, t.photo} \cup (IF mem.awaiting = "cart_removal" THEN {mem.pivot} ELSE {}))
Held(t) == Chosen(t) \cup (IF mem.ordered THEN {} ELSE {mem.variant} \cap Variants)

\* r is what the stages made of t.
ReadAs(r, t) ==
    /\ r \in Heard /\ r.photo = t.photo /\ r.details = t.details /\ r.cue = t.cue
    /\ r.size \in {t.size, NoSize}
    /\ r.slot \in {"adds", "confirmation"} => r.slot = t.slot
    /\ r.names \in Asked(t) \cup {NoProduct, Category}
    /\ r.intent = "details" => t.intent = "details" /\ r.names # Category

\* n is m but for what is selected.
SameDeal(m, n) ==
    /\ n.shown = m.shown /\ n.cart = m.cart /\ n.last = m.last
    /\ n.awaiting = m.awaiting /\ n.pivot = m.pivot /\ n.ordered = m.ordered

\* Forgetting a choice or a selection.
LEMMA ForgetIs ==
    ASSUME NEW m \in Memories
    PROVE  /\ NoChoice(m) \in Memories
           /\ NoChoice(m) = [m EXCEPT !.variant = NoVariant, !.named = FALSE]
           /\ NoChoice(m).variant = NoVariant
           /\ ClearSelection(m) \in Memories
           /\ ClearSelection(m).product = NoProduct /\ ClearSelection(m).variant = NoVariant
           /\ ClearSelection(m).avail = {} /\ ClearSelection(m).title = NoProduct
           /\ ClearSelection(m).state = "none"
           /\ SameDeal(m, NoChoice(m)) /\ SameDeal(m, ClearSelection(m))
           /\ NoChoice(m).state = m.state /\ NoChoice(m).product = m.product
           /\ NoChoice(m).avail = m.avail /\ NoChoice(m).title = m.title
BY DEF SameDeal, NoChoice, ClearSelection, Memories, MaybeVariant, MaybeProduct, States

LEMMA ForgetIsGood ==
    ASSUME NEW m, NEW V, NEW B, Good(m, V, B)
    PROVE  /\ Good(NoChoice(m), V, B) /\ Unpicked(NoChoice(m))
           /\ Good(ClearSelection(m), V, B) /\ Unpicked(ClearSelection(m))
BY ForgetIs DEF Good, Unpicked, SameDeal

\* A message as the classifier may read it.
Message(t) ==
    /\ t \in Readings
    /\ t.names = Category => t.intent = "browse" /\ t.size = NoSize

\* The variants the customer wants in the cart by the end of the turn.
After(t) ==
    Yes(t) \cup Presumed(t)
      \cup (IF mem.ordered THEN {} ELSE {i.variant : i \in {j \in mem.cart : ~Mixed(j)}} \ Swap(t))

Cleared(c, t) == \A i \in c.m.cart : i.variant \in After(t) \/ Mixed(i)

\* A swap that is still to be seen to.
Untouched(c, t) ==
    /\ Swap(t) # {} /\ t.names \in Products /\ c.t.names = t.names /\ c.t.cue = t.cue
    /\ c.t.mentions = t.mentions
    /\ c.t.slot \in {"new_inquiry", "correction", "adds"}
    /\ c.m.product = mem.product /\ c.m.title = mem.title /\ c.m.cart = mem.cart
    /\ ~c.kept /\ ~mem.ordered

\* Nothing new has come into the memory.
Near(m) ==
    /\ m.product \in {mem.product, NoProduct} /\ m.variant \in {mem.variant, NoVariant}
    /\ m.avail \subseteq mem.avail /\ m.shown \subseteq mem.shown
    /\ m.variant # NoVariant =>
         m.product = mem.product /\ m.state = mem.state /\ m.ordered = mem.ordered

Remembered == Good(mem, Variants, Variants) /\ Unpicked(mem)

\* While the memory is being recalled, before anything is searched.
Unsearched(c, t) ==
    /\ c \in Contexts /\ c.found = {} /\ c.head = NoProduct /\ c.items = {}
    /\ ReadAs(c.t, t) /\ Near(c.m) /\ Unpicked(c.m)
    /\ Good(c.m, Variants, Variants)
Recalled(c, t) ==
    /\ Unsearched(c, t) /\ c.out = "going" /\ ~c.kept /\ c.m.ordered = mem.ordered
    /\ mem.ordered \/ Cleared(c, t) \/ Untouched(c, t)

\* A turn that ends before anything was searched.
Halted(c, t) ==
    /\ Unsearched(c, t) /\ c.out \in Outs
    /\ c.m.ordered \/ Cleared(c, t)

LEMMA OneInCart ==
    ASSUME NEW m \in Memories, NEW T, Cardinality(InCart(m, T)) = 1
    PROVE  /\ InCart(m, T) = {The(InCart(m, T))}
           /\ The(InCart(m, T)) \in m.cart
<1>1. InCart(m, T) \subseteq m.cart /\ m.cart \subseteq Cartable
  BY DEF InCart, Memories
<1>2. IsFiniteSet(InCart(m, T))
  BY <1>1, CatalogueIsFinite, FS_Subset
<1>3. PICK x : InCart(m, T) = {x}
  BY <1>2, FS_Singleton
<1>4. The(InCart(m, T)) = x
  BY <1>3 DEF The
<1> QED BY <1>1, <1>3, <1>4

\* What is asked for of a product is in the memory of the engine or the message.
LEMMA MessageParts ==
    ASSUME NEW t, Message(t)
    PROVE  t \in Heard /\ ReadAs(t, t) /\ t.intent \in Intents
<1>1. NoProduct \notin Products /\ Category \notin Products \cup {NoProduct}
  BY ReplyEngineAssumption DEF ReplyEngineAssumption
<1> QED BY <1>1 DEF Message, Readings, Heard, ReadAs, Asked, Routes, MaybeProduct

LEMMA ContextIs ==
    ASSUME NEW t, Message(t), Remembered
    PROVE  /\ Recalled(Context(mem, t), t) \/ t.intent = "human"
           /\ Context(mem, t) \in Contexts
           /\ Context(mem, t).m = mem /\ Context(mem, t).t = t /\ Context(mem, t).out = "going"
           /\ Unsearched(Context(mem, t), t)
           /\ Context(mem, t).asked = t.intent /\ Context(mem, t).wide = FALSE
<1> DEFINE c == Context(mem, t)
<1>1. t \in Heard /\ ReadAs(t, t) /\ t.intent \in Intents
  BY MessageParts
<1>2. ActionOf(t.intent) \in Actions
  BY DEF ActionOf, Actions, Routes, Intents
<1>3. c \in Contexts /\ c.m = mem /\ c.t = t /\ c.found = {} /\ c.head = NoProduct /\ c.items = {}
      /\ c.out = "going" /\ ~c.kept /\ c.asked = t.intent /\ c.wide = FALSE
  BY <1>1, <1>2 DEF Context, Contexts, Remembered, Good, MaybeProduct
<1>4. Unsearched(c, t)
  BY <1>1, <1>3 DEF Unsearched, Remembered, Near, Good
<1>5. ASSUME t.intent # "human", ~mem.ordered PROVE Cleared(c, t) \/ Untouched(c, t)
  <2>1. CASE Swap(t) = {}
    BY <1>3, <1>5, <2>1 DEF Cleared, After
  <2>2. CASE Swap(t) # {}
    BY <1>3, <1>5, <2>2 DEF Untouched, Swap
  <2> QED BY <2>1, <2>2
<1> QED BY <1>3, <1>4, <1>5 DEF Recalled

(***************************************************************************)
(* ClassifyMessage: each stage keeps what was recalled, or ends the turn.  *)
(***************************************************************************)
LEMMA AnswerCartRemovalRecalls ==
    ASSUME NEW t, Message(t), Remembered, t.intent # "human"
    PROVE  Recalled(AnswerCartRemoval(Context(mem, t)), t)
<1> DEFINE c == Context(mem, t)
           named == InCart(mem, t.mentions)
           calm == [mem EXCEPT !.awaiting = "other", !.pivot = NoProduct]
           left == [calm EXCEPT !.cart = Without(mem, The(named)), !.removalAsked = FALSE]
           meant == IF t.names \in Products \/ mem.pivot = NoProduct THEN t.names ELSE mem.pivot
           heard == [t EXCEPT !.names = meant]
<1>1. /\ Recalled(c, t) /\ c \in Contexts /\ c.m = mem /\ c.t = t
      /\ mem \in Memories /\ Unsearched(c, t)
  BY ContextIs DEF Remembered, Good
<1>2. CASE mem.awaiting # "cart_removal"
  BY <1>1, <1>2 DEF AnswerCartRemoval
<1>3. CASE mem.awaiting = "cart_removal" /\ Cardinality(named) # 1
  <2>1. AnswerCartRemoval(c) = Keep(c, calm)
    BY <1>1, <1>3 DEF AnswerCartRemoval
  <2>2. calm \in Memories
    BY <1>1 DEF Memories, MaybeProduct
  <2>4. Swap(t) = {}
    BY <1>3, FS_EmptySet DEF Swap, Removal
  <2>5. Good(calm, Variants, Variants) /\ Unpicked(calm) /\ Near(calm)
    BY <2>2 DEF Remembered, Good, Unpicked, Near, Memories
  <2>6. /\ Keep(c, calm) \in Contexts /\ Keep(c, calm).m = calm /\ Keep(c, calm).t = t
        /\ SameFinds(c, Keep(c, calm))
    BY <1>1, <2>2, KeepIs
  <2>7. calm.ordered = mem.ordered /\ calm.cart = mem.cart
    BY <1>1 DEF Memories
  <2>8. mem.ordered \/ Cleared(Keep(c, calm), t)
    BY <2>4, <2>6, <2>7 DEF Cleared, After
  <2> HIDE DEF calm
  <2> QED BY <1>1, <2>1, <2>5, <2>6, <2>7, <2>8 DEF Recalled, Unsearched, SameFinds, Besides
<1>4. CASE mem.awaiting = "cart_removal" /\ Cardinality(named) = 1
  <2> DEFINE n == ClearSelection(left)
             d == Hear(Keep(c, n), heard)
  <2>1. AnswerCartRemoval(c) = d
    BY <1>1, <1>4 DEF AnswerCartRemoval, Hear, Keep
  <2>2. left \in Memories /\ left.cart \subseteq mem.cart /\ left.ordered = mem.ordered
    <3>1. Without(mem, The(named)) \subseteq mem.cart
      BY DEF Without
    <3> HIDE DEF named
    <3> QED BY <1>1, <3>1 DEF Memories, MaybeProduct
  <2>3. /\ n \in Memories /\ n.product = NoProduct /\ n.avail = {} /\ n.variant = NoVariant
        /\ SameDeal(left, n) /\ n.state = "none"
    <3> HIDE DEF left
    <3> QED BY <2>2, ForgetIs
  <2>4. left.shown = mem.shown
    BY <1>1 DEF Memories
  <2>5. heard \in Heard /\ ReadAs(heard, t)
    <3>1. t \in Heard /\ ReadAs(t, t)
      BY MessageParts
    <3>2. meant \in Asked(t) \cup {NoProduct, Category}
      BY <1>1, <1>4, <3>1 DEF ReadAs, Asked, Memories, MaybeProduct
    <3>3. heard \in Heard /\ heard.names = meant /\ heard.photo = t.photo /\ heard.size = t.size
          /\ heard.details = t.details /\ heard.cue = t.cue /\ heard.slot = t.slot /\ heard.intent = t.intent
      BY <1>1, <3>1 DEF Heard, Memories, MaybeProduct
    <3>4. t.intent = "details" => meant # Category
      <4>1. Category \notin MaybeProduct
        BY ReplyEngineAssumption DEF ReplyEngineAssumption, MaybeProduct
      <4> QED BY <1>1, <4>1, <3>1 DEF ReadAs, Memories
    <3> HIDE DEF heard, meant
    <3> QED BY <3>1, <3>2, <3>3, <3>4 DEF ReadAs
  <2>6. Good(n, Variants, Variants) /\ Unpicked(n) /\ Near(n)
    BY <2>2, <2>3, <2>4 DEF Remembered, Good, Unpicked, Near, SameDeal
  <2> HIDE DEF n, heard, left
  <2>7. d \in Contexts /\ d.m = n /\ d.t = heard /\ SameFinds(c, Keep(c, n)) /\ SameFinds(Keep(c, n), d)
    BY <1>1, <2>3, <2>5, KeepIs, HearIs
  <2>8. mem.ordered \/ Cleared(d, t)
    <3>1. SUFFICES ASSUME ~mem.ordered, NEW i \in n.cart
                   PROVE  i.variant \in After(t) \/ Mixed(i)
      BY <2>7 DEF Cleared
    <3>2. i \in mem.cart /\ i.variant # The(named).variant
      BY <2>3, <1>1 DEF left, Without, Memories, SameDeal
    <3>3. Swap(t) \subseteq {The(named).variant}
      BY <1>1, <1>4, OneInCart DEF Swap, Removed, Removal
    <3> HIDE DEF named
    <3> QED BY <3>1, <3>2, <3>3 DEF After
  <2> HIDE DEF d
  <2>9. /\ d.found = c.found /\ d.head = c.head /\ d.items = c.items /\ d.out = c.out
        /\ d.kept = c.kept
    BY <2>7 DEF SameFinds, Besides
  <2> QED BY <1>1, <2>1, <2>2, <2>3, <2>5, <2>6, <2>7, <2>8, <2>9 DEF Recalled, Unsearched, SameDeal
<1> QED BY <1>2, <1>3, <1>4

\* A step that leaves cart, order and classification as they are.
LEMMA RecallsOn ==
    ASSUME NEW t, NEW c, Recalled(c, t), NEW m, Good(m, Variants, Variants), Unpicked(m), Near(m),
           m.cart = c.m.cart, m.ordered = c.m.ordered, m.product = c.m.product,
           m.title = c.m.title
    PROVE  Recalled(Keep(c, m), t)
<1>1. m \in Memories /\ c \in Contexts
  BY DEF Good, Recalled, Unsearched
<1>2. Keep(c, m) \in Contexts /\ Keep(c, m).m = m /\ Keep(c, m).t = c.t /\ SameFinds(c, Keep(c, m))
  BY <1>1, KeepIs
<1>3. mem.ordered \/ Cleared(Keep(c, m), t) \/ Untouched(Keep(c, m), t)
  BY <1>2 DEF Recalled, Cleared, Untouched, SameFinds, Besides
<1> QED BY <1>2, <1>3 DEF Recalled, Unsearched, SameFinds, Besides

\* Widening the search: only the classification changes.
LEMMA ArmBroadenIs ==
    ASSUME NEW t, NEW c \in Contexts, ReadAs(c.t, t), NEW size \in Sizes \cup {NoSize},
           NEW f, f = ArmBroadenSearch(c, size)
    PROVE  /\ f \in Contexts /\ f.m = c.m /\ ReadAs(f.t, t) /\ f.t.intent = "browse"
           /\ f.found = c.found /\ f.head = c.head /\ f.items = c.items /\ f.out = c.out
           /\ f.kept = c.kept
<1> DEFINE names == IF c.t.names = NoProduct THEN Category ELSE c.t.names
           r == [c.t EXCEPT !.names = names]
           e == [Hear(c, r) EXCEPT !.wide = TRUE, !.scope = size]
           d == Route(e, "browse", "show_products")
<1>1. r \in Heard /\ r.intent = c.t.intent /\ r.slot = c.t.slot /\ r.names = names
      /\ r.photo = c.t.photo /\ r.details = c.t.details /\ r.cue = c.t.cue /\ r.size = c.t.size
  BY DEF ReadAs, Heard
<1> HIDE DEF r, names
<1>2. Hear(c, r) \in Contexts /\ Hear(c, r).m = c.m /\ Hear(c, r).t = r /\ SameFinds(c, Hear(c, r))
  BY <1>1, HearIs
<1>3. /\ e \in Contexts /\ e.m = c.m /\ e.t = r /\ e.found = c.found /\ e.head = c.head
      /\ e.items = c.items /\ e.out = c.out /\ e.kept = c.kept
  BY <1>2 DEF Contexts, SameFinds, Besides
<1> HIDE DEF e
<1>4. "browse" \in Routes /\ "show_products" \in Actions
  BY DEF Actions, Routes, Intents
<1>5. d \in Contexts /\ d.m = c.m /\ d.t = [r EXCEPT !.intent = "browse"] /\ SameFinds(e, d)
  BY <1>3, <1>4, RouteIs
<1>6. ReadAs(d.t, t) /\ d.t.intent = "browse"
  BY <1>1, <1>4, <1>5 DEF ReadAs, Heard, names
<1>7. f = d
  BY DEF ArmBroadenSearch, d, e, r, names
<1> HIDE DEF d
<1> QED BY <1>3, <1>5, <1>6, <1>7 DEF SameFinds, Besides

LEMMA AnswerBroadenRecalls ==
    ASSUME NEW t, Message(t), NEW c, Recalled(c, t)
    PROVE  Recalled(AnswerBroaden(c), t) \/ Halted(AnswerBroaden(c), t)
<1> DEFINE calm == [c.m EXCEPT !.awaiting = "other", !.broaden = NoSize]
           done == [calm EXCEPT !.broadenAsked = FALSE]
           d == Keep(c, done)
           f == ArmBroadenSearch(d, c.m.broaden)
           n == [done EXCEPT !.last = "other"]
           g == Ends(Keep(c, n), "reply")
<1>1. c \in Contexts /\ c.m \in Memories /\ Good(c.m, Variants, Variants) /\ Unpicked(c.m)
      /\ Near(c.m)
  BY DEF Recalled, Unsearched, Good
<1>2. calm \in Memories /\ done \in Memories /\ n \in Memories
  BY <1>1 DEF Memories, Lasts
<1>3. \A x \in {calm, done} : /\ Good(x, Variants, Variants) /\ Unpicked(x) /\ Near(x)
                              /\ x.cart = c.m.cart /\ x.ordered = c.m.ordered
                              /\ x.product = c.m.product /\ x.title = c.m.title
  <2>1. ASSUME NEW x \in {calm, done}
        PROVE  /\ x.product = c.m.product /\ x.title = c.m.title /\ x.variant = c.m.variant
               /\ x.avail = c.m.avail /\ x.shown = c.m.shown /\ x.cart = c.m.cart
               /\ x.state = c.m.state /\ x.last = c.m.last /\ x.ordered = c.m.ordered
               /\ x \in Memories
    BY <1>1, <1>2 DEF Memories
  <2> QED BY <1>1, <2>1 DEF Good, Unpicked, Near
<1>4. Recalled(Keep(c, calm), t) /\ Recalled(d, t)
  BY <1>3, RecallsOn
<1>5. CASE c.m.awaiting = "broaden" /\ c.t.slot = "confirmation"
  <2>1. AnswerBroaden(c) = f
    BY <1>5 DEF AnswerBroaden
  <2>2. d \in Contexts /\ d.m = done /\ ReadAs(d.t, t)
        /\ d.out = "going" /\ ~d.kept /\ d.found = {} /\ d.head = NoProduct /\ d.items = {}
    BY <1>1, <1>2, <1>4, KeepIs DEF Recalled, Unsearched
  <2>3. c.m.broaden \in Sizes \cup {NoSize}
    BY <1>1 DEF Memories
  <2> HIDE DEF d, done
  <2>4. /\ f \in Contexts /\ f.m = done /\ ReadAs(f.t, t) /\ f.found = {} /\ f.head = NoProduct
        /\ f.items = {} /\ f.out = "going" /\ ~f.kept
    BY <2>2, <2>3, ArmBroadenIs
  <2>5. mem.ordered \/ Cleared(f, t)
    <3>1. ~Untouched(c, t)
      BY <1>5 DEF Untouched
    <3> QED BY <2>4, <3>1, <1>3 DEF Recalled, Cleared
  <2>6. Good(f.m, Variants, Variants) /\ Unpicked(f.m) /\ Near(f.m) /\ f.m.ordered = c.m.ordered
    BY <1>3, <2>4
  <2> HIDE DEF f
  <2>7. Recalled(f, t)
    BY <2>4, <2>5, <2>6 DEF Recalled, Unsearched
  <2> QED BY <2>1, <2>7
<1>6. CASE c.m.awaiting = "broaden" /\ c.t.slot = "rejection"
  <2>1. AnswerBroaden(c) = g
    BY <1>6 DEF AnswerBroaden
  <2>2. Good(n, Variants, Variants) /\ Unpicked(n) /\ Near(n) /\ n.ordered = c.m.ordered
        /\ n.cart = c.m.cart
    BY <1>1, <1>2 DEF Good, Unpicked, Near, Memories
  <2> HIDE DEF n
  <2>3. /\ Keep(c, n) \in Contexts /\ Keep(c, n).m = n /\ Keep(c, n).t = c.t
        /\ SameFinds(c, Keep(c, n))
    BY <1>1, <1>2, KeepIs
  <2>4. /\ g \in Contexts /\ g.m = n /\ g.t = c.t /\ g.out = "reply" /\ g.items = Keep(c, n).items
        /\ g.found = Keep(c, n).found /\ g.head = Keep(c, n).head
    BY <2>3, EndsIs DEF Outs, Ends, Contexts
  <2>5. ~Untouched(c, t)
    BY <1>6 DEF Untouched
  <2>6. g.m.ordered \/ Cleared(g, t)
    BY <2>2, <2>4, <2>5 DEF Cleared, Recalled
  <2> HIDE DEF g
  <2>7. Halted(g, t)
    BY <2>2, <2>3, <2>4, <2>6 DEF Recalled, Unsearched, Halted, SameFinds, Besides, Outs
  <2> QED BY <2>1, <2>7
<1>7. CASE c.m.awaiting = "broaden" /\ c.t.slot \notin {"confirmation", "rejection"}
  <2>1. AnswerBroaden(c) = Keep(c, calm)
    BY <1>7 DEF AnswerBroaden
  <2> QED BY <2>1, <1>4
<1>8. CASE c.m.awaiting # "broaden"
  BY <1>8 DEF AnswerBroaden
<1> QED BY <1>5, <1>6, <1>7, <1>8

\* An order is forgotten, and with it what it was of.
Fresh(c, t) ==
    /\ Unsearched(c, t) /\ c.out = "going" /\ ~c.m.ordered
    /\ Good(c.m, Held(t), Variants)
    /\ Cleared(c, t) \/ Untouched(c, t)

LEMMA NoMemoryIs ==
    /\ NoMemory \in Memories /\ ~NoMemory.ordered /\ NoMemory.cart = {}
    /\ NoMemory.variant = NoVariant /\ NoMemory.state = "none" /\ NoMemory.product = NoProduct
    /\ NoMemory.avail = {} /\ NoMemory.shown = {} /\ NoMemory.broadenAsked = FALSE
    /\ NoMemory.broaden = NoSize /\ NoMemory.last = "other"
BY DEF NoMemory, Memories, MaybeProduct, MaybeVariant, States, Lasts

\* A memory that starts afresh.
Blank(n) ==
    /\ n \in Memories /\ ~n.ordered /\ n.cart = {} /\ n.variant = NoVariant
    /\ n.state = "none" /\ Near(n) /\ Unpicked(n) /\ \A V, B : Good(n, V, B)

LEMMA BlankIs ==
    ASSUME NEW m \in Memories, NEW b \in BOOLEAN, NEW s \in Sizes \cup {NoSize}, NEW n,
           n = [NoMemory EXCEPT !.pivot = m.pivot, !.removalAsked = m.removalAsked,
                                !.broadenAsked = b, !.broaden = s]
    PROVE  Blank(n)
<1>1. /\ n \in Memories /\ ~n.ordered /\ n.cart = {} /\ n.variant = NoVariant
      /\ n.state = "none" /\ n.product = NoProduct /\ n.avail = {} /\ n.shown = {}
  BY NoMemoryIs DEF Memories
<1>2. Near(n) /\ Unpicked(n) /\ \A V, B : Good(n, V, B)
  BY <1>1 DEF Near, Unpicked, Good
<1> QED BY <1>1, <1>2 DEF Blank

\* Starting afresh.
LEMMA BlankIsFresh ==
    ASSUME NEW t, NEW c, Recalled(c, t), NEW n, Blank(n)
    PROVE  Fresh(Keep(c, n), t)
<1>1. /\ Keep(c, n) \in Contexts /\ Keep(c, n).m = n /\ Keep(c, n).t = c.t
      /\ SameFinds(c, Keep(c, n))
  BY KeepIs DEF Recalled, Unsearched, Blank
<1> QED BY <1>1 DEF Recalled, Unsearched, SameFinds, Besides, Fresh, Cleared, Blank

LEMMA PostOrderRefreshes ==
    ASSUME NEW t, Message(t), Remembered, NEW c, Recalled(c, t)
    PROVE  LET d == PostOrder(GreetingReset(c)) IN Fresh(d, t) \/ Halted(d, t)
<1> DEFINE g == [NoMemory EXCEPT !.pivot = c.m.pivot, !.removalAsked = c.m.removalAsked]
           e == GreetingReset(c)
           n == [NoMemory EXCEPT !.pivot = c.m.pivot, !.removalAsked = c.m.removalAsked,
                                 !.broadenAsked = c.m.broadenAsked, !.broaden = c.m.broaden]
<1>1. c \in Contexts /\ c.m \in Memories /\ Unsearched(c, t)
  BY DEF Recalled, Unsearched, Good
<1>2. c.m.broadenAsked \in BOOLEAN /\ c.m.broaden \in Sizes \cup {NoSize}
  BY <1>1 DEF Memories
<1>3. CASE e # c
  <2>1. e = Keep(c, g)
    BY <1>3 DEF GreetingReset
  <2>2. g = [NoMemory EXCEPT !.pivot = c.m.pivot, !.removalAsked = c.m.removalAsked,
                             !.broadenAsked = FALSE, !.broaden = NoSize]
    BY NoMemoryIs, <1>1 DEF Memories
  <2> HIDE DEF g
  <2>3. Blank(g)
    BY <1>1, <2>2, BlankIs
  <2>4. Fresh(e, t)
    BY <2>1, <2>3, BlankIsFresh
  <2>5. PostOrder(e) = e
    BY <2>4 DEF PostOrder, Fresh
  <2> QED BY <2>4, <2>5
<1>4. CASE e = c /\ ~c.m.ordered
  <2>1. PostOrder(e) = c
    BY <1>4 DEF PostOrder
  <2>2. c.m.variant \in Held(t) \cup {NoVariant}
    BY <1>4 DEF Recalled, Unsearched, Near, Held, Remembered, Good, Memories, MaybeVariant
  <2>3. Good(c.m, Held(t), Variants)
    BY <2>2, <1>1 DEF Unsearched, Good
  <2> QED BY <2>1, <2>3, <1>4 DEF Recalled, Fresh
<1>5. CASE e = c /\ c.m.ordered /\ c.t.intent = "passive"
  <2>1. PostOrder(e) = Ends(c, "reply")
    BY <1>5 DEF PostOrder
  <2>2. /\ Ends(c, "reply") \in Contexts /\ Ends(c, "reply").m = c.m /\ Ends(c, "reply").t = c.t
        /\ Ends(c, "reply").out = "reply" /\ Ends(c, "reply").items = c.items
        /\ Ends(c, "reply").found = c.found /\ Ends(c, "reply").head = c.head
    BY <1>1 DEF Ends, Contexts, Outs
  <2> QED BY <1>1, <1>5, <2>1, <2>2 DEF Unsearched, Halted, Outs
<1>6. CASE e = c /\ c.m.ordered /\ c.t.intent # "passive"
  <2>1. PostOrder(e) = Keep(c, n)
    BY <1>6 DEF PostOrder
  <2>2. Blank(n)
    BY <1>1, <1>2, BlankIs
  <2> HIDE DEF n
  <2> QED BY <2>1, <2>2, BlankIsFresh
<1> QED BY <1>3, <1>4, <1>5, <1>6

LEMMA CoerceRemovalCueKeeps ==
    ASSUME NEW t, Message(t), NEW c, Fresh(c, t)
    PROVE  /\ Fresh(CoerceRemovalCue(c), t)
           /\ ~(CoerceRemovalCue(c).t.cue /\ CoerceRemovalCue(c).t.slot = "adds")
<1> DEFINE r == [c.t EXCEPT !.slot = "correction"]
<1>1. c \in Contexts /\ ReadAs(c.t, t)
  BY DEF Fresh, Unsearched
<1>2. CASE c.t.cue /\ c.t.slot = "adds"
  <2>1. CoerceRemovalCue(c) = Hear(c, r)
    BY <1>2 DEF CoerceRemovalCue
  <2>2. /\ r \in Heard /\ r.slot = "correction" /\ r.intent = c.t.intent /\ r.names = c.t.names
        /\ r.photo = c.t.photo /\ r.details = c.t.details /\ r.cue = c.t.cue /\ r.size = c.t.size
        /\ r.mentions = c.t.mentions
    BY <1>1 DEF ReadAs, Heard, Slots
  <2> HIDE DEF r
  <2>3. ReadAs(r, t)
    BY <1>1, <2>2 DEF ReadAs
  <2>4. Hear(c, r) \in Contexts /\ Hear(c, r).m = c.m /\ Hear(c, r).t = r /\ SameFinds(c, Hear(c, r))
    BY <1>1, <2>2, HearIs
  <2>5. Cleared(Hear(c, r), t) \/ Untouched(Hear(c, r), t)
    BY <2>2, <2>4 DEF Fresh, Cleared, Untouched, SameFinds, Besides
  <2> QED BY <2>1, <2>2, <2>3, <2>4, <2>5 DEF Fresh, Unsearched, SameFinds, Besides
<1>3. CASE ~(c.t.cue /\ c.t.slot = "adds")
  BY <1>3 DEF CoerceRemovalCue
<1> QED BY <1>2, <1>3

\* Changing the memory of a fresh start.
LEMMA FreshOn ==
    ASSUME NEW t, NEW c, Fresh(c, t), NEW m, Good(m, Held(t), Variants), Unpicked(m), Near(m),
           ~m.ordered, \A i \in m.cart : i.variant \in After(t) \/ Mixed(i)
    PROVE  /\ Fresh(Keep(c, m), t) /\ Cleared(Keep(c, m), t)
           /\ Keep(c, m).t = c.t /\ Keep(c, m).m = m
<1>1. m \in Memories /\ c \in Contexts
  BY DEF Good, Fresh, Unsearched
<1>2. Keep(c, m) \in Contexts /\ Keep(c, m).m = m /\ Keep(c, m).t = c.t /\ SameFinds(c, Keep(c, m))
  BY <1>1, KeepIs
<1>3. Good(m, Variants, Variants)
  BY DEF Good, Memories, MaybeVariant
<1> QED BY <1>2, <1>3 DEF Fresh, Cleared, Unsearched, SameFinds, Besides

\* A product and a variant that are selected make an item.
LEMMA ItemIs ==
    ASSUME NEW m \in Memories, m.product # NoProduct, m.variant # NoVariant
    PROVE  Item(m) \in Cartable /\ Item(m).variant = m.variant
BY DEF Item, Cartable, Memories, MaybeProduct, MaybeVariant

\* Who says "and another" means what is on offer.
LEMMA AddsToCartKeeps ==
    ASSUME NEW t, Message(t), Remembered, NEW c, Fresh(c, t), ~(c.t.cue /\ c.t.slot = "adds")
    PROVE  Fresh(AddsToCart(c), t) /\ AddsToCart(c).t = c.t
<1> DEFINE held == \E i \in c.m.cart : i.product = c.m.product /\ i.variant = c.m.variant
           n == [c.m EXCEPT !.cart = c.m.cart \cup {Item(c.m)}]
           m == IF Pending(c.m) /\ ~held THEN n ELSE c.m
           x == [NoChoice(m) EXCEPT !.state = "awaiting_product"]
           y == ClearSelection(m)
<1>1. c \in Contexts /\ ReadAs(c.t, t) /\ Good(c.m, Held(t), Variants) /\ Unpicked(c.m)
      /\ Near(c.m) /\ ~c.m.ordered /\ c.m \in Memories
  BY DEF Fresh, Unsearched, Good
<1>2. SUFFICES ASSUME c.t.slot = "adds"
               PROVE  Fresh(AddsToCart(c), t) /\ AddsToCart(c).t = c.t
  BY DEF AddsToCart
<1>3. t.slot = "adds" /\ ~t.cue
  BY <1>1, <1>2 DEF ReadAs
<1>4. Cleared(c, t)
  <2>1. Swap(t) # {} => t.cue
    BY FS_EmptySet DEF Swap, Removal
  <2> QED BY <1>2, <2>1 DEF Fresh, Untouched
<1>5. Good(m, Held(t), Variants) /\ Near(m) /\ ~m.ordered
      /\ \A i \in m.cart : i.variant \in After(t) \/ Mixed(i)
  <2>1. CASE m = c.m
    BY <1>1, <1>4, <2>1 DEF Cleared
  <2>2. CASE m = n /\ Pending(c.m)
    <3>1. Item(c.m) \in Cartable /\ Item(c.m).variant = c.m.variant
      BY <1>1, <2>2, ItemIs DEF Pending
    <3>2. n \in Memories /\ n.cart = c.m.cart \cup {Item(c.m)} /\ n.product = c.m.product
          /\ n.variant = c.m.variant /\ n.avail = c.m.avail /\ n.shown = c.m.shown
          /\ n.ordered = c.m.ordered /\ n.state = c.m.state
      BY <1>1, <3>1 DEF Memories
    <3>3. c.m.variant \in Yes(t) \/ Mixed(Item(c.m))
      <4>1. /\ mem.variant = c.m.variant /\ mem.product = c.m.product /\ ~mem.ordered
            /\ c.m.variant \in Variants /\ Offered(mem)
        BY <1>1, <2>2 DEF Near, Pending, Memories, MaybeVariant, Offered
      <4>2. CASE c.m.product = c.m.variant[1]
        BY <1>3, <4>1, <4>2 DEF OnOffer, Yes
      <4>3. CASE c.m.product # c.m.variant[1]
        BY <4>3 DEF Mixed, Item
      <4> QED BY <4>2, <4>3
    <3> HIDE DEF n
    <3> QED BY <1>1, <1>4, <2>2, <3>1, <3>2, <3>3 DEF Good, Near, Cleared, After, Cartable
  <2> QED BY <2>1, <2>2
<1> HIDE DEF m
<1>6. m \in Memories
  BY <1>5 DEF Good
<1>7. /\ Good(NoChoice(m), Held(t), Variants) /\ NoChoice(m) \in Memories
      /\ Good(y, Held(t), Variants) /\ Unpicked(y) /\ Near(y)
      /\ ~y.ordered /\ y.cart = m.cart
  BY <1>5, <1>6, ForgetIs, ForgetIsGood DEF SameDeal, Near
<1>8. /\ x \in Memories /\ x.cart = m.cart /\ x.product = m.product /\ x.variant = NoVariant
      /\ x.avail = m.avail /\ x.shown = m.shown /\ x.ordered = m.ordered
      /\ x.state = "awaiting_product"
  <2>1. NoChoice(m) \in Memories /\ SameDeal(m, NoChoice(m)) /\ NoChoice(m).variant = NoVariant
        /\ NoChoice(m).product = m.product /\ NoChoice(m).avail = m.avail
    BY <1>6, ForgetIs
  <2> QED BY <2>1 DEF SameDeal, Memories, States
<1>9. Good(x, Held(t), Variants) /\ Unpicked(x) /\ Near(x) /\ ~x.ordered
  BY <1>5, <1>8 DEF Good, Unpicked, Near
<1>10. AddsToCart(c) \in {Keep(c, x), Keep(c, y)}
  BY <1>1, <1>2 DEF AddsToCart, m
<1> HIDE DEF x, y
<1> QED BY <1>5, <1>7, <1>8, <1>9, <1>10, FreshOn

LEMMA KeepOnlyKeeps ==
    ASSUME NEW t, Message(t), NEW c, Fresh(c, t)
    PROVE  Fresh(KeepOnly(c), t) /\ KeepOnly(c).t = c.t
<1> DEFINE keep == InCart(c.m, {c.t.names})
           x == [ClearSelection(c.m) EXCEPT !.cart = {}, !.last = "other", !.awaiting = "other"]
           y == [c.m EXCEPT !.cart = keep, !.last = "other"]
           d == [Keep(c, x) EXCEPT !.kept = TRUE]
           e == [Keep(c, y) EXCEPT !.action = "ask_continue", !.kept = TRUE]
<1>1. c \in Contexts /\ ReadAs(c.t, t) /\ Good(c.m, Held(t), Variants) /\ Unpicked(c.m)
      /\ Near(c.m) /\ ~c.m.ordered /\ c.m \in Memories
  BY DEF Fresh, Unsearched, Good
<1>2. SUFFICES ASSUME KeepOnly(c) # c PROVE Fresh(KeepOnly(c), t) /\ KeepOnly(c).t = c.t
  OBVIOUS
<1>3. ~c.t.cue /\ (KeepOnly(c) = d \/ (KeepOnly(c) = e /\ keep # {}))
  <2> DEFINE unfit == \/ c.t.cue \/ c.t.slot # "correction" \/ c.t.names \notin Products
                      \/ c.m.cart = {} \/ c.m.state # "cart_item_added"
  <2>1. KeepOnly(c) = IF unfit THEN c ELSE IF keep = {} THEN d ELSE e
    BY DEF KeepOnly
  <2>2. ~unfit
    BY <1>2, <2>1
  <2> HIDE DEF keep, d, e
  <2> QED BY <2>1, <2>2
<1>4. Cleared(c, t)
  <2>1. Swap(t) # {} => t.cue
    BY FS_EmptySet DEF Swap, Removal
  <2> QED BY <1>3, <2>1 DEF Fresh, Untouched
<1>5. /\ x \in Memories /\ x.cart = {} /\ x.product = NoProduct /\ x.avail = {}
      /\ x.variant = NoVariant /\ x.shown = c.m.shown /\ ~x.ordered /\ x.state = "none"
      /\ x.last = "other"
  <2>1. /\ ClearSelection(c.m) \in Memories /\ SameDeal(c.m, ClearSelection(c.m))
        /\ ClearSelection(c.m).product = NoProduct /\ ClearSelection(c.m).variant = NoVariant
        /\ ClearSelection(c.m).avail = {} /\ ClearSelection(c.m).state = "none"
    BY <1>1, ForgetIs
  <2> QED BY <1>1, <2>1 DEF SameDeal, Memories, Lasts
<1>6. keep \subseteq c.m.cart
  BY DEF InCart
<1> HIDE DEF keep, x
<1>7. Good(x, Held(t), Variants) /\ Unpicked(x) /\ Near(x)
  BY <1>1, <1>5 DEF Good, Unpicked, Near
<1>8. /\ y \in Memories /\ y.cart = keep /\ y.product = c.m.product /\ y.avail = c.m.avail
      /\ y.variant = c.m.variant /\ y.shown = c.m.shown /\ ~y.ordered /\ y.state = c.m.state
      /\ y.last = "other" /\ y.ordered = c.m.ordered
  BY <1>1, <1>6 DEF Memories, Lasts
<1> HIDE DEF y
<1>9. keep # {} => Good(y, Held(t), Variants) /\ Unpicked(y) /\ Near(y)
  BY <1>1, <1>6, <1>8 DEF Good, Unpicked, Near
<1>10. Fresh(Keep(c, x), t) /\ Cleared(Keep(c, x), t) /\ Keep(c, x).t = c.t
  BY <1>5, <1>7, FreshOn
<1>11. keep # {} => Fresh(Keep(c, y), t) /\ Cleared(Keep(c, y), t) /\ Keep(c, y).t = c.t
  BY <1>4, <1>6, <1>8, <1>9, FreshOn DEF Cleared
<1>12. ASSUME NEW a, Fresh(a, t), Cleared(a, t), NEW b \in Contexts, b.m = a.m, b.t = a.t,
              b.found = a.found, b.head = a.head, b.items = a.items, b.out = a.out
       PROVE  Fresh(b, t)
  BY <1>12 DEF Fresh, Unsearched, Cleared
<1>13. d \in Contexts /\ d.m = Keep(c, x).m /\ d.t = Keep(c, x).t /\ d.found = Keep(c, x).found
       /\ d.head = Keep(c, x).head /\ d.items = Keep(c, x).items /\ d.out = Keep(c, x).out
  BY <1>10 DEF Fresh, Unsearched, Contexts
<1>14. keep # {} =>
         /\ e \in Contexts /\ e.m = Keep(c, y).m /\ e.t = Keep(c, y).t
         /\ e.found = Keep(c, y).found /\ e.head = Keep(c, y).head
         /\ e.items = Keep(c, y).items /\ e.out = Keep(c, y).out
  BY <1>11 DEF Fresh, Unsearched, Contexts, Actions
<1> HIDE DEF d, e
<1> QED BY <1>3, <1>10, <1>11, <1>12, <1>13, <1>14

\* The selection is left for another product, and m is what stays of the memory.
LEMMA LeaveKeeps ==
    ASSUME NEW t, NEW c, Fresh(c, t), NEW m \in Memories, m.shown = c.m.shown, ~m.ordered,
           m.cart \subseteq c.m.cart, \A i \in m.cart : i.variant \in After(t) \/ Mixed(i),
           NEW names \in {NoProduct, c.t.names}
    PROVE  Fresh(Leave(c, m, names), t) /\ Cleared(Leave(c, m, names), t)
<1> DEFINE n == [ClearSelection(m) EXCEPT !.awaiting = "other"]
           size == IF c.t.typed THEN c.t.size ELSE NoSize
           r == [c.t EXCEPT !.names = names, !.size = size]
           d == Keep(c, n)
           e == Hear(d, r)
<1>1. c \in Contexts /\ ReadAs(c.t, t) /\ Good(c.m, Held(t), Variants) /\ Near(c.m)
  BY DEF Fresh, Unsearched, Good
<1>2. /\ n \in Memories /\ n.cart = m.cart /\ n.product = NoProduct /\ n.avail = {}
      /\ n.variant = NoVariant /\ n.shown = m.shown /\ n.ordered = m.ordered /\ n.state = "none"
  <2>1. /\ ClearSelection(m) \in Memories /\ SameDeal(m, ClearSelection(m))
        /\ ClearSelection(m).product = NoProduct /\ ClearSelection(m).variant = NoVariant
        /\ ClearSelection(m).avail = {} /\ ClearSelection(m).state = "none"
    BY ForgetIs
  <2> QED BY <2>1 DEF SameDeal, Memories
<1> HIDE DEF n
<1>3. Good(n, Held(t), Variants) /\ Unpicked(n) /\ Near(n)
  BY <1>1, <1>2 DEF Good, Unpicked, Near
<1>4. Fresh(d, t) /\ Cleared(d, t) /\ d.t = c.t /\ d.m = n
  BY <1>2, <1>3, FreshOn
<1>5. /\ r \in Heard /\ r.names = names /\ r.size = size /\ r.slot = c.t.slot
      /\ r.intent = c.t.intent /\ r.photo = c.t.photo /\ r.details = c.t.details /\ r.cue = c.t.cue
  BY <1>1 DEF ReadAs, Heard, MaybeProduct
<1> HIDE DEF r
<1>6. ReadAs(r, t)
  BY <1>1, <1>5, ReplyEngineAssumption DEF ReadAs, ReplyEngineAssumption
<1> HIDE DEF d
<1>7. e \in Contexts /\ e.m = d.m /\ e.t = r /\ SameFinds(d, e)
  BY <1>4, <1>5, HearIs DEF Fresh, Unsearched
<1>8. Fresh(e, t) /\ Cleared(e, t)
  BY <1>4, <1>6, <1>7 DEF Fresh, Unsearched, Cleared, SameFinds, Besides
<1>9. Leave(c, m, names) = e
  BY DEF Leave, e, d, n, r
<1> QED BY <1>8, <1>9

LEMMA PivotKeeps ==
    ASSUME NEW t, Message(t), Remembered, NEW c, Fresh(c, t), ~(c.t.cue /\ c.t.slot = "adds")
    PROVE  (Fresh(Pivot(c), t) /\ Cleared(Pivot(c), t)) \/ Halted(Pivot(c), t)
<1> DEFINE named == InCart(c.m, c.t.mentions)
           gone == The(named)
           alone == \E i \in c.m.cart : c.m.cart = {i} /\ i.product = c.m.product
           with(cart) == [c.m EXCEPT !.cart = cart, !.removalAsked = FALSE]
           names == IF c.t.names = gone.title THEN NoProduct ELSE c.t.names
           unfit == \/ c.m.ordered \/ c.t.photo # NoProduct \/ c.kept \/ c.m.product = NoProduct
                    \/ c.t.slot \notin {"new_inquiry", "correction"} \/ ~IsPivot(c)
           asked == IF InCart(c.m, {c.t.names}) # {} THEN NoProduct ELSE c.t.names
           n == [c.m EXCEPT !.pivot = asked, !.awaiting = "cart_removal", !.removalAsked = TRUE]
           h == Ends(Keep(c, n), "ask_removal")
<1>1. c \in Contexts /\ ReadAs(c.t, t) /\ Good(c.m, Variants, Variants) /\ Near(c.m)
      /\ c.m \in Memories /\ Unpicked(c.m) /\ ~c.m.ordered /\ c.t \in Heard
  BY DEF Fresh, Unsearched, Good, ReadAs
<1>2. Pivot(c) = IF unfit THEN c
                 ELSE IF Cardinality(named) = 1 THEN Leave(c, with(Without(c.m, gone)), names)
                 ELSE IF alone THEN Leave(c, with({}), c.t.names)
                 ELSE IF c.m.cart = {} \/ c.m.removalAsked THEN Leave(c, c.m, c.t.names)
                 ELSE h
  BY DEF Pivot, AskWhichToRemove
<1>3. ASSUME NEW S, S \subseteq c.m.cart
      PROVE  /\ with(S) \in Memories /\ with(S).cart = S /\ with(S).shown = c.m.shown
             /\ ~with(S).ordered
  BY <1>1, <1>3 DEF Memories
<1>4. ASSUME Untouched(c, t)
      PROVE  /\ ~unfit /\ Cardinality(named) = 1 /\ ~mem.ordered /\ mem.cart = c.m.cart
             /\ Swap(t) = {i.variant : i \in named}
  <2>1. t.cue /\ Cardinality(InCart(mem, t.mentions)) = 1 /\ t.photo = NoProduct
        /\ Removal(t) = InCart(mem, t.mentions) /\ mem.product # NoProduct
        /\ mem.title \notin {NoProduct, t.names}
    BY <1>4, FS_EmptySet DEF Untouched, Swap, Removal
  <2>2. named = InCart(mem, t.mentions)
    BY <1>4 DEF Untouched, InCart
  <2>3. ~unfit
    BY <1>1, <1>4, <2>1 DEF Untouched, IsPivot, ReadAs
  <2>4. Swap(t) = {i.variant : i \in named}
    BY <1>4, <2>1, <2>2 DEF Untouched, Swap, Removed
  <2> QED BY <1>4, <2>1, <2>2, <2>3, <2>4 DEF Untouched
<1> HIDE DEF unfit, alone
<1>5. CASE unfit
  BY <1>2, <1>4, <1>5 DEF Fresh
<1>6. CASE ~unfit /\ Cardinality(named) = 1
  <2> DEFINE S == Without(c.m, gone)
  <2>1. named = {gone} /\ S \subseteq c.m.cart /\ \A i \in S : i.variant # gone.variant
    BY <1>1, <1>6, OneInCart DEF Without
  <2>2. \A i \in S : i.variant \in After(t) \/ Mixed(i)
    <3>1. CASE Cleared(c, t)
      BY <2>1, <3>1 DEF Cleared
    <3>2. CASE Untouched(c, t)
      <4>1. Swap(t) = {gone.variant} /\ ~mem.ordered /\ mem.cart = c.m.cart
        BY <1>4, <2>1, <3>2
      <4> HIDE DEF named
      <4> QED BY <2>1, <4>1 DEF After
    <3> QED BY <3>1, <3>2 DEF Fresh
  <2>3. Pivot(c) = Leave(c, with(S), names)
    BY <1>2, <1>6
  <2>4. names \in {NoProduct, c.t.names}
    OBVIOUS
  <2>5. /\ with(S) \in Memories /\ with(S).cart = S /\ with(S).shown = c.m.shown
        /\ ~with(S).ordered
    BY <1>3, <2>1
  <2> HIDE DEF S, names, with
  <2> QED BY <2>1, <2>2, <2>3, <2>4, <2>5, LeaveKeeps
<1>7. CASE ~unfit /\ Cardinality(named) # 1
  <2>1. Cleared(c, t)
    BY <1>4, <1>7 DEF Fresh
  <2>2. CASE alone
    <3>1. Pivot(c) = Leave(c, with({}), c.t.names)
      BY <1>2, <1>7, <2>2
    <3>2. with({}) \in Memories /\ with({}).cart = {} /\ with({}).shown = c.m.shown
          /\ ~with({}).ordered
      BY <1>3
    <3> HIDE DEF with
    <3> QED BY <3>1, <3>2, LeaveKeeps
  <2>3. CASE ~alone /\ (c.m.cart = {} \/ c.m.removalAsked)
    <3>1. Pivot(c) = Leave(c, c.m, c.t.names)
      BY <1>2, <1>7, <2>3
    <3> QED BY <1>1, <2>1, <3>1, LeaveKeeps DEF Cleared
  <2>4. CASE ~alone /\ ~(c.m.cart = {} \/ c.m.removalAsked)
    <3>1. Pivot(c) = h
      BY <1>2, <1>7, <2>4
    <3>2. asked \in MaybeProduct
      BY <1>7 DEF unfit, IsPivot, MaybeProduct
    <3> HIDE DEF asked
    <3>3. /\ n \in Memories /\ n.cart = c.m.cart /\ n.product = c.m.product /\ n.avail = c.m.avail
          /\ n.variant = c.m.variant /\ n.shown = c.m.shown /\ n.ordered = c.m.ordered
          /\ n.state = c.m.state /\ n.last = c.m.last
      BY <1>1, <3>2 DEF Memories
    <3> HIDE DEF n
    <3>4. Good(n, Held(t), Variants) /\ Near(n) /\ Unpicked(n)
      BY <1>1, <3>3 DEF Fresh, Good, Near, Unpicked
    <3>5. Fresh(Keep(c, n), t) /\ Cleared(Keep(c, n), t)
      BY <1>1, <2>1, <3>3, <3>4, FreshOn DEF Cleared
    <3>6. /\ h \in Contexts /\ h.m = Keep(c, n).m /\ h.t = Keep(c, n).t
          /\ h.found = Keep(c, n).found /\ h.head = Keep(c, n).head
          /\ h.items = Keep(c, n).items /\ h.out = "ask_removal"
      BY <3>5 DEF Ends, Contexts, Outs, Fresh, Unsearched
    <3> HIDE DEF h
    <3> QED BY <3>1, <3>5, <3>6 DEF Fresh, Unsearched, Halted, Cleared, Outs
  <2> QED BY <2>2, <2>3, <2>4
<1> QED BY <1>5, <1>6, <1>7

\* The message has been taken in: the cart is what the customer wants of it.
LEMMA ClassifyMessageIs ==
    ASSUME NEW t, Message(t), Remembered
    PROVE  LET d == ClassifyMessage(Context(mem, t))
           IN (Fresh(d, t) /\ Cleared(d, t)) \/ Halted(d, t)
<1> DEFINE c == Context(mem, t)
           b == AnswerBroaden(AnswerCartRemoval(c))
           d == PostOrder(GreetingReset(b))
           e == CoerceRemovalCue(d)
           f == KeepOnly(AddsToCart(e))
<1>1. CASE t.intent = "human"
  <2>1. /\ c \in Contexts /\ c.m = mem /\ c.t = t /\ Unsearched(c, t)
    BY ContextIs
  <2>2. ClassifyMessage(c) = Ends(c, "handoff")
    BY <1>1, <2>1 DEF ClassifyMessage, Policy, Going, Ends, Contexts
  <2>3. /\ Ends(c, "handoff") \in Contexts /\ Ends(c, "handoff").m = mem
        /\ Ends(c, "handoff").t = t /\ Ends(c, "handoff").out = "handoff"
        /\ Ends(c, "handoff").items = c.items /\ Ends(c, "handoff").found = c.found
        /\ Ends(c, "handoff").head = c.head
    BY <2>1 DEF Ends, Contexts, Outs
  <2>4. Swap(t) = {}
    BY <1>1 DEF Swap
  <2>5. mem.ordered \/ Cleared(Ends(c, "handoff"), t)
    BY <2>3, <2>4 DEF Cleared, After
  <2> QED BY <2>1, <2>2, <2>3, <2>5 DEF Halted, Unsearched, Outs
<1>2. CASE t.intent # "human"
  <2>1. Policy(c) = c /\ c.out = "going"
    BY <1>2, ContextIs DEF Policy
  <2>2. Recalled(b, t) \/ Halted(b, t)
    BY <1>2, AnswerCartRemovalRecalls, AnswerBroadenRecalls
  <2> HIDE DEF c, b
  <2>3. ClassifyMessage(c) = IF b.out # "going" THEN b ELSE IF d.out # "going" THEN d ELSE Pivot(f)
    BY <2>1 DEF ClassifyMessage, Going, b
  <2>4. CASE Halted(b, t)
    BY <2>3, <2>4 DEF Halted, Outs, c
  <2>5. CASE Recalled(b, t)
    <3>1. Fresh(d, t) \/ Halted(d, t)
      BY <2>5, PostOrderRefreshes
    <3>2. b.out = "going"
      BY <2>5 DEF Recalled
    <3> HIDE DEF d
    <3>3. CASE Halted(d, t)
      BY <2>3, <3>2, <3>3 DEF Halted, Outs, c
    <3>4. CASE Fresh(d, t)
      <4>1. d.out = "going"
        BY <3>4 DEF Fresh
      <4>2. Fresh(e, t) /\ ~(e.t.cue /\ e.t.slot = "adds")
        BY <3>4, CoerceRemovalCueKeeps
      <4> HIDE DEF e
      <4>3. Fresh(AddsToCart(e), t) /\ AddsToCart(e).t = e.t
        BY <4>2, AddsToCartKeeps
      <4>4. Fresh(f, t) /\ f.t = e.t
        BY <4>3, KeepOnlyKeeps
      <4> HIDE DEF f
      <4>5. (Fresh(Pivot(f), t) /\ Cleared(Pivot(f), t)) \/ Halted(Pivot(f), t)
        BY <4>2, <4>4, PivotKeeps
      <4> QED BY <2>3, <3>2, <4>1, <4>5 DEF c
    <3> QED BY <3>1, <3>3, <3>4
  <2> QED BY <2>2, <2>4, <2>5
<1> QED BY <1>1, <1>2

(***************************************************************************)
(* Finding and choosing                                                    *)
(***************************************************************************)
\* One of what was found comes first; who sends the details of the delivery finds what
\* the message asks for.
Traces(c, t) ==
    /\ c.found = {} <=> c.head = NoProduct
    /\ c.found # {} => c.head \in c.found
    /\ c.t.intent = "details" =>
         c.found \subseteq Asked(t) \cup (IF c.t.size = NoSize THEN {} ELSE Discussed)

\* A turn under way: the selected variant is one of V.
OnTrack(c, t, V) ==
    /\ c \in Contexts /\ c.out = "going" /\ c.items = {} /\ ~c.m.ordered
    /\ Good(c.m, V, After(t))
    /\ ReadAs(c.t, t) /\ Traces(c, t)
    /\ Unpicked(c.m) \/ c.t.intent \in Settled

\* Before the search.
Begun(c, t, V) ==
    /\ OnTrack(c, t, V) /\ Chosen(t) \subseteq V
    /\ c.found = {} => Near(c.m) /\ Unpicked(c.m)

\* A turn that ended without an order.
Over(c, t) ==
    /\ c \in Contexts /\ c.out \in Outs /\ c.items = {}
    /\ Good(c.m, Variants, Variants) /\ Unpicked(c.m)
    /\ c.m.ordered \/ Cleared(c, t)

LEMMA FreshIsBegun ==
    ASSUME NEW t, NEW c, Fresh(c, t), Cleared(c, t)
    PROVE  /\ Begun(c, t, Held(t))
           /\ c.m.variant \in Chosen(t) \cup {NoVariant} => Begun(c, t, Chosen(t))
<1>1. /\ Good(c.m, Held(t), After(t))
      /\ c.m.variant \in Chosen(t) \cup {NoVariant} => Good(c.m, Chosen(t), After(t))
  BY DEF Fresh, Cleared, Good
<1>2. Chosen(t) \subseteq Held(t)
  BY DEF Held
<1> QED BY <1>1, <1>2 DEF Fresh, Unsearched, Begun, OnTrack, Traces

LEMMA KeepOnTrack ==
    ASSUME NEW t, NEW V, NEW c, OnTrack(c, t, V), NEW W, NEW m, Good(m, W, After(t)), ~m.ordered,
           Unpicked(m) \/ c.t.intent \in Settled
    PROVE  /\ OnTrack(Keep(c, m), t, W)
           /\ Keep(c, m).m = m /\ Keep(c, m).t = c.t /\ SameFinds(c, Keep(c, m))
<1>1. /\ Keep(c, m) \in Contexts /\ Keep(c, m).m = m /\ Keep(c, m).t = c.t
      /\ SameFinds(c, Keep(c, m))
  BY KeepIs DEF OnTrack, Good
<1> QED BY <1>1 DEF OnTrack, Traces, SameFinds, Besides

LEMMA RouteOnTrack ==
    ASSUME NEW t, NEW V, NEW c, OnTrack(c, t, V), NEW i \in Routes, i # "details",
           NEW a \in Actions, Unpicked(c.m) \/ i \in Settled
    PROVE  /\ OnTrack(Route(c, i, a), t, V)
           /\ Route(c, i, a).m = c.m /\ Route(c, i, a).t.intent = i
           /\ Route(c, i, a).t.slot = c.t.slot /\ Route(c, i, a).t.size = c.t.size
           /\ SameFinds(c, Route(c, i, a))
<1> DEFINE d == Route(c, i, a)
<1>1. d \in Contexts /\ d.m = c.m /\ d.t = [c.t EXCEPT !.intent = i] /\ SameFinds(c, d)
  BY RouteIs DEF OnTrack
<1> HIDE DEF d
<1>2. /\ d.t \in Heard /\ d.t.intent = i /\ d.t.slot = c.t.slot /\ d.t.size = c.t.size
      /\ d.t.photo = c.t.photo /\ d.t.details = c.t.details /\ d.t.cue = c.t.cue /\ d.t.names = c.t.names
  BY <1>1 DEF OnTrack, ReadAs, Heard
<1>3. OnTrack(d, t, V)
  BY <1>1, <1>2 DEF OnTrack, ReadAs, Traces, SameFinds, Besides
<1> QED BY <1>1, <1>2, <1>3 DEF d

\* Offering a variant of V.
LEMMA OfferOnTrack ==
    ASSUME NEW t, NEW V, NEW c, OnTrack(c, t, V), NEW v \in V \cap Variants,
           c.m.product # NoProduct
    PROVE  /\ OnTrack(Offer(c, v), t, V) /\ Offer(c, v).t.intent \in Settled
           /\ Offer(c, v).m.avail = c.m.avail /\ Offer(c, v).m.variant = v
           /\ Offer(c, v).m.state = "awaiting_confirmation"
           /\ Offer(c, v).m.last = c.m.last /\ Offer(c, v).m.product = c.m.product
           /\ SameFinds(c, Offer(c, v))
<1> DEFINE m == [c.m EXCEPT !.variant = v, !.named = TRUE, !.state = "awaiting_confirmation"]
           d == Keep(c, m)
<1>1. c \in Contexts /\ c.m \in Memories /\ v \in Variants
  BY DEF OnTrack, Good
<1>2. /\ m \in Memories /\ m.variant = v /\ m.avail = c.m.avail /\ m.cart = c.m.cart
      /\ m.product = c.m.product /\ m.state = "awaiting_confirmation" /\ m.last = c.m.last
      /\ m.ordered = c.m.ordered
  BY <1>1 DEF Memories, States, MaybeVariant
<1> HIDE DEF m
<1>3. Good(m, V, After(t))
  BY <1>2 DEF OnTrack, Good
<1>4. d \in Contexts /\ d.m = m /\ d.t = c.t /\ SameFinds(c, d)
  BY <1>1, <1>2, KeepIs
<1> HIDE DEF d
<1>5. ASSUME NEW i \in {"choice", "confirm_variant"}, NEW a \in Actions
      PROVE  /\ OnTrack(Route(d, i, a), t, V) /\ Route(d, i, a).t.intent \in Settled
             /\ Route(d, i, a).m = m /\ SameFinds(c, Route(d, i, a))
  <2> DEFINE e == Route(d, i, a)
  <2>1. i \in Routes /\ i \in Settled /\ i # "details"
    BY DEF Routes, Settled
  <2>2. /\ e \in Contexts /\ e.m = m /\ e.t = [c.t EXCEPT !.intent = i] /\ SameFinds(d, e)
    BY <1>4, <2>1, RouteIs
  <2> HIDE DEF e
  <2>3. /\ e.t \in Heard /\ e.t.intent = i /\ e.t.slot = c.t.slot /\ e.t.size = c.t.size
        /\ e.t.photo = c.t.photo /\ e.t.details = c.t.details /\ e.t.cue = c.t.cue /\ e.t.names = c.t.names
    BY <2>1, <2>2 DEF OnTrack, ReadAs, Heard
  <2>4. SameFinds(c, e)
    BY <1>4, <2>2 DEF SameFinds, Besides
  <2>5. OnTrack(e, t, V)
    BY <1>2, <1>3, <2>1, <2>2, <2>3, <2>4 DEF OnTrack, ReadAs, Traces, SameFinds, Besides
  <2> QED BY <2>1, <2>2, <2>3, <2>4, <2>5 DEF e
<1>6. "confirm_selection" \in Actions /\ "confirm_variant" \in Actions
  BY DEF Actions, Routes, Settled
<1>7. Offer(c, v) \in {Route(d, "confirm_variant", "confirm_variant"),
                       Route(d, "choice", "confirm_selection")}
  BY DEF Offer, Select, ConfirmIntent, d, m
<1> QED BY <1>2, <1>5, <1>6, <1>7

LEMMA AskOnTrack ==
    ASSUME NEW t, NEW V, NEW c, OnTrack(c, t, V)
    PROVE  /\ OnTrack(Ask(c), t, V) /\ Ask(c).t.intent \in Settled
           /\ Ask(c).m.avail = c.m.avail /\ Ask(c).m.variant = c.m.variant
           /\ Ask(c).m.state = "awaiting_variant"
           /\ Ask(c).m.last = c.m.last /\ Ask(c).m.product = c.m.product
           /\ SameFinds(c, Ask(c))
<1> DEFINE m == [c.m EXCEPT !.state = "awaiting_variant"]
           d == Keep(c, m)
           e == Route(d, "ask_variant", "ask_variant")
<1>1. c \in Contexts /\ c.m \in Memories
  BY DEF OnTrack, Good
<1>2. /\ m \in Memories /\ m.variant = c.m.variant /\ m.avail = c.m.avail /\ m.cart = c.m.cart
      /\ m.product = c.m.product /\ m.state = "awaiting_variant" /\ m.last = c.m.last
      /\ m.ordered = c.m.ordered
  BY <1>1 DEF Memories, States
<1> HIDE DEF m
<1>3. Good(m, V, After(t))
  BY <1>2 DEF OnTrack, Good
<1>4. d \in Contexts /\ d.m = m /\ d.t = c.t /\ SameFinds(c, d)
  BY <1>1, <1>2, KeepIs
<1>5. Unpicked(m) \/ d.t.intent \in Settled
  BY <1>2, <1>4 DEF OnTrack, Unpicked
<1>6. OnTrack(d, t, V)
  BY <1>2, <1>3, <1>4, <1>5, KeepOnTrack DEF OnTrack
<1>7. "ask_variant" \in Routes /\ "ask_variant" \in Actions /\ "ask_variant" \in Settled
  BY DEF Routes, Settled, Actions
<1> HIDE DEF d
<1>8. /\ OnTrack(e, t, V) /\ e.m = d.m /\ e.t.intent = "ask_variant" /\ SameFinds(d, e)
  BY <1>6, <1>7, RouteOnTrack
<1>9. Ask(c) = e
  BY DEF Ask, e, d, m
<1> QED BY <1>2, <1>4, <1>7, <1>8, <1>9 DEF SameFinds, Besides

LEMMA ChooseOnTrack ==
    ASSUME NEW t, NEW V, NEW c, OnTrack(c, t, V), NEW S, S \subseteq V \cap Variants,
           c.m.product # NoProduct
    PROVE  /\ OnTrack(Choose(c, S), t, V) /\ Choose(c, S).t.intent \in Settled
           /\ Choose(c, S).m.avail = c.m.avail /\ Choose(c, S).m.product = c.m.product
           /\ SameFinds(c, Choose(c, S))
<1> DEFINE wanted == {v \in S : v[2] = c.t.size}
<1>1. CASE Cardinality(S) = 1
  <2>1. The(S) \in S
    BY <1>1, OneIsSome DEF The
  <2> QED BY <1>1, <2>1, OfferOnTrack DEF Choose
<1>2. CASE Cardinality(S) # 1 /\ wanted # {}
  <2>1. The(wanted) \in wanted
    BY <1>2 DEF The
  <2>2. Choose(c, S) = Offer(c, The(wanted))
    BY <1>2 DEF Choose
  <2> QED BY <2>1, <2>2, OfferOnTrack
<1>3. CASE Cardinality(S) # 1 /\ wanted = {}
  BY <1>3, AskOnTrack DEF Choose
<1> QED BY <1>1, <1>2, <1>3

\* The variants of a product that were found, and those in stock.
LEMMA StockIs ==
    ASSUME NEW S
    PROVE  Available(S) \subseteq S \cap Stock /\ Stock \subseteq Variants
BY DEF Available, Stock

LEMMA SeeProductBegins ==
    ASSUME NEW t, NEW V, NEW c, Begun(c, t, V), c.found = {}, c.t.photo # NoProduct
    PROVE  LET d == SeeProduct(c, c.t.photo)
           IN /\ OnTrack(d, t, V) /\ d.found = {c.t.photo} /\ Unpicked(d.m)
              /\ d.m.product = c.t.photo /\ d.m.avail = Available(VariantsOf(c.t.photo))
<1> DEFINE p == c.t.photo
           offer == Available(VariantsOf(p))
           state == IF c.m.state # "none" THEN c.m.state
                    ELSE IF Cardinality(offer) = 1 THEN "awaiting_confirmation"
                    ELSE "awaiting_variant"
           names == IF c.t.names \in Products THEN p ELSE c.t.names
           m == [c.m EXCEPT !.shown = VariantsOf(p), !.product = p, !.title = p,
                            !.avail = offer, !.state = state]
           r == [c.t EXCEPT !.names = names]
           d == Keep(c, m)
           e == Hear(d, r)
           f == Found(e, {p})
<1>1. /\ c \in Contexts /\ c.m \in Memories /\ Good(c.m, V, After(t)) /\ ReadAs(c.t, t)
      /\ Unpicked(c.m) /\ ~c.m.ordered /\ c.t \in Heard
  BY DEF Begun, OnTrack, Good, ReadAs
<1>2. p \in Products /\ p = t.photo /\ p # NoProduct
  BY <1>1 DEF ReadAs, Heard, MaybeProduct
<1>3. VariantsOf(p) \subseteq Variants /\ offer \subseteq Variants
  BY StockIs DEF VariantsOf
<1>4. state \in States /\ (state \in {"cart_item_added", "confirmed"} => c.m.state = state)
  BY <1>1 DEF States, Memories
<1> HIDE DEF offer, state
<1>5. /\ m \in Memories /\ m.variant = c.m.variant /\ m.avail = offer /\ m.cart = c.m.cart
      /\ m.product = p /\ m.state = state /\ m.last = c.m.last /\ m.ordered = c.m.ordered
  BY <1>1, <1>2, <1>3, <1>4, StockIs DEF Memories, MaybeProduct
<1> HIDE DEF m
<1>6. Good(m, V, After(t)) /\ Unpicked(m)
  BY <1>1, <1>2, <1>3, <1>4, <1>5 DEF Good, Unpicked
<1>7. d \in Contexts /\ d.m = m /\ d.t = c.t /\ SameFinds(c, d)
  BY <1>1, <1>5, KeepIs
<1>8. names \in Asked(t) \cup {NoProduct, Category} /\ (c.t.intent = "details" => names # Category)
  <2>1. p \in Asked(t) /\ Category \notin Products
    BY <1>2, ReplyEngineAssumption DEF ReplyEngineAssumption, Asked
  <2> QED BY <1>1, <1>2, <2>1 DEF ReadAs
<1> HIDE DEF names
<1>9. /\ r \in Heard /\ r.names = names /\ r.size = c.t.size /\ r.slot = c.t.slot
      /\ r.intent = c.t.intent /\ r.photo = c.t.photo /\ r.details = c.t.details /\ r.cue = c.t.cue
  BY <1>1, <1>8 DEF Heard, Asked, MaybeProduct
<1> HIDE DEF r
<1>10. ReadAs(r, t)
  BY <1>1, <1>8, <1>9 DEF ReadAs
<1> HIDE DEF d
<1>11. e \in Contexts /\ e.m = m /\ e.t = r /\ SameFinds(d, e)
  BY <1>7, <1>9, HearIs
<1> HIDE DEF e
<1>12. /\ f \in Contexts /\ f.m = m /\ f.t = r /\ f.found = {p} /\ f.head = p /\ Besides(e, f)
  BY <1>2, <1>11, FoundIs
<1> HIDE DEF f
<1>13. p \in Asked(t)
  BY <1>2 DEF Asked
<1>14. OnTrack(f, t, V)
  BY <1>1, <1>2, <1>5, <1>6, <1>7, <1>10, <1>11, <1>12, <1>13
     DEF Begun, OnTrack, Traces, SameFinds, Besides
<1>15. SeeProduct(c, p) = f
  BY DEF SeeProduct, f, e, d, r, m, names, state, offer
<1> QED BY <1>5, <1>6, <1>12, <1>14, <1>15 DEF offer

\* What is left of a selection whose variant is not to be had: m in another state.
LEMMA ForgetInState ==
    ASSUME NEW t, NEW V, NEW c, OnTrack(c, t, V), NEW s \in States \ {"cart_item_added", "confirmed"}
    PROVE  LET m == [NoChoice(c.m) EXCEPT !.state = s]
           IN /\ Good(m, V, After(t)) /\ Unpicked(m) /\ ~m.ordered /\ m \in Memories
              /\ m.variant = NoVariant /\ m.product = c.m.product /\ m.avail = c.m.avail
              /\ m.state = s /\ m.cart = c.m.cart /\ m.last = c.m.last
<1> DEFINE m == [NoChoice(c.m) EXCEPT !.state = s]
<1>1. c.m \in Memories /\ Good(c.m, V, After(t)) /\ ~c.m.ordered
  BY DEF OnTrack, Good
<1>2. /\ NoChoice(c.m) \in Memories /\ SameDeal(c.m, NoChoice(c.m))
      /\ NoChoice(c.m).variant = NoVariant /\ NoChoice(c.m).product = c.m.product
      /\ NoChoice(c.m).avail = c.m.avail
  BY <1>1, ForgetIs
<1>3. /\ m \in Memories /\ m.variant = NoVariant /\ m.product = c.m.product
      /\ m.avail = c.m.avail /\ m.state = s /\ m.cart = c.m.cart /\ m.last = c.m.last
      /\ m.ordered = c.m.ordered
  BY <1>2 DEF SameDeal, Memories
<1> HIDE DEF m
<1>4. Good(m, V, After(t)) /\ Unpicked(m)
  BY <1>1, <1>3 DEF Good, Unpicked
<1> QED BY <1>1, <1>3, <1>4 DEF m

LEMMA AsInquiryOnTrack ==
    ASSUME NEW t, NEW V, NEW c, OnTrack(c, t, V), Unpicked(c.m)
    PROVE  /\ OnTrack(AsInquiry(c), t, V) /\ Unpicked(AsInquiry(c).m)
           /\ AsInquiry(c).m.product = c.m.product /\ AsInquiry(c).m.avail = c.m.avail
           /\ SameFinds(c, AsInquiry(c))
<1> DEFINE m == [NoChoice(c.m) EXCEPT !.state = "awaiting_product"]
           r == [c.t EXCEPT !.slot = "new_inquiry", !.size = NoSize]
           d == Keep(c, m)
           e == Hear(d, r)
           f == Route(e, "browse", "show_products")
<1>1. c \in Contexts /\ c.t \in Heard /\ ReadAs(c.t, t)
  BY DEF OnTrack, ReadAs
<1>2. CASE c.t.caption
  BY <1>2 DEF AsInquiry, SameFinds, Besides
<1>3. CASE ~c.t.caption
  <2>1. "awaiting_product" \in States \ {"cart_item_added", "confirmed"}
    BY DEF States
  <2>2. /\ Good(m, V, After(t)) /\ Unpicked(m) /\ ~m.ordered /\ m \in Memories
        /\ m.product = c.m.product /\ m.avail = c.m.avail
    BY <2>1, ForgetInState
  <2> HIDE DEF m
  <2>3. d \in Contexts /\ d.m = m /\ d.t = c.t /\ SameFinds(c, d)
    BY <1>1, <2>2, KeepIs
  <2>4. /\ r \in Heard /\ r.names = c.t.names /\ r.size = NoSize /\ r.slot = "new_inquiry"
        /\ r.intent = c.t.intent /\ r.photo = c.t.photo /\ r.details = c.t.details /\ r.cue = c.t.cue
    BY <1>1 DEF Heard, Slots
  <2> HIDE DEF r, d
  <2>5. e \in Contexts /\ e.m = m /\ e.t = r /\ SameFinds(d, e)
    BY <2>3, <2>4, HearIs
  <2> HIDE DEF e
  <2>6. "browse" \in Routes /\ "show_products" \in Actions /\ "browse" # "details"
    BY DEF Routes, Intents, Actions
  <2>7. f \in Contexts /\ f.m = m /\ f.t = [r EXCEPT !.intent = "browse"] /\ SameFinds(e, f)
    BY <2>5, <2>6, RouteIs
  <2> HIDE DEF f
  <2>8. /\ f.t \in Heard /\ f.t.names = c.t.names /\ f.t.size = NoSize /\ f.t.slot = "new_inquiry"
        /\ f.t.intent = "browse" /\ f.t.photo = c.t.photo /\ f.t.details = c.t.details /\ f.t.cue = c.t.cue
    BY <2>4, <2>6, <2>7 DEF Heard
  <2>9. SameFinds(c, f)
    BY <2>3, <2>5, <2>7 DEF SameFinds, Besides
  <2>10. OnTrack(f, t, V)
    BY <1>1, <2>2, <2>7, <2>8, <2>9 DEF OnTrack, ReadAs, Traces, SameFinds, Besides
  <2>11. AsInquiry(c) = f
    BY <1>3 DEF AsInquiry, f, e, d, r, m
  <2> QED BY <2>2, <2>7, <2>9, <2>10, <2>11
<1> QED BY <1>2, <1>3

LEMMA MediaBegins ==
    ASSUME NEW t, NEW V, NEW c, Begun(c, t, V), c.found = {}
    PROVE  /\ Begun(Media(c), t, V)
           /\ c.t.photo # NoProduct => Media(c).m.product = c.t.photo /\ Media(c).found # {}
<1> DEFINE p == c.t.photo
           seen == AsInquiry(SeeProduct(c, p))
           offer == seen.m.avail
           wanted == {v \in offer : v[2] = seen.t.size}
           m == [NoChoice(seen.m) EXCEPT !.state = "awaiting_variant"]
           Seen(x) == Begun(x, t, V) /\ x.m.product = p /\ x.found # {}
<1>1. CASE p = NoProduct
  BY <1>1 DEF Media
<1>2. CASE p # NoProduct
  <2>1. /\ OnTrack(seen, t, V) /\ seen.found = {p} /\ Unpicked(seen.m)
        /\ seen.m.product = p /\ seen.m.avail = Available(VariantsOf(p))
    BY <1>2, SeeProductBegins, AsInquiryOnTrack DEF SameFinds
  <2>2. offer \subseteq V \cap Variants
    <3>1. p = t.photo
      BY DEF Begun, OnTrack, ReadAs
    <3>2. Available(VariantsOf(p)) \subseteq VariantsOf(p)
      BY StockIs
    <3> QED BY <2>1, <3>1, <3>2 DEF VariantsOf, Chosen, Begun
  <2> HIDE DEF seen
  <2>3. Seen(seen)
    BY <2>1 DEF Begun
  <2>4. p # NoProduct /\ seen.m.product # NoProduct
    BY <1>2, <2>1
  <2>5. \A v \in offer : Seen(Offer(seen, v))
    BY <2>1, <2>2, <2>4, OfferOnTrack DEF Begun, SameFinds
  <2>6. Seen(Ask(seen))
    BY <2>1, AskOnTrack DEF Begun, SameFinds
  <2>7. Seen(Unavailable(Keep(seen, m)))
    <3>1. "awaiting_variant" \in States \ {"cart_item_added", "confirmed"}
      BY DEF States
    <3>2. /\ Good(m, V, After(t)) /\ Unpicked(m) /\ ~m.ordered /\ m.product = p
      BY <2>1, <3>1, ForgetInState
    <3> HIDE DEF m
    <3>3. OnTrack(Keep(seen, m), t, V) /\ SameFinds(seen, Keep(seen, m)) /\ Keep(seen, m).m = m
      BY <2>1, <3>2, KeepOnTrack
    <3>4. "variant_not_available" \in Routes \cap Settled \cap Actions
          /\ "variant_not_available" # "details"
      BY DEF Routes, Settled, Actions
    <3>5. OnTrack(Unavailable(Keep(seen, m)), t, V)
          /\ SameFinds(Keep(seen, m), Unavailable(Keep(seen, m)))
          /\ Unavailable(Keep(seen, m)).m = Keep(seen, m).m
      BY <3>3, <3>4, RouteOnTrack DEF Unavailable
    <3> QED BY <2>1, <3>2, <3>3, <3>5 DEF Begun, SameFinds
  <2>8. /\ wanted # {} => The(wanted) \in offer
        /\ Cardinality(offer) = 1 => The(offer) \in offer
    BY OneIsSome DEF The
  <2>9. Media(c) = IF seen.t.intent \notin {"browse", "question", "ready"} /\ seen.action # "show_products"
                   THEN seen
                   ELSE IF wanted # {} THEN Offer(seen, The(wanted))
                   ELSE IF seen.t.size # NoSize THEN Unavailable(Keep(seen, m))
                   ELSE IF Cardinality(offer) = 1 THEN Offer(seen, The(offer))
                   ELSE Ask(seen)
    BY <1>2 DEF Media, seen
  <2> HIDE DEF wanted, offer, m
  <2> QED BY <2>3, <2>5, <2>6, <2>7, <2>8, <2>9
<1> QED BY <1>1, <1>2

LEMMA NarrowGateBegins ==
    ASSUME NEW t, NEW V, Message(t), NEW c, Begun(c, t, V)
    PROVE  Begun(NarrowGate(c), t, V) \/ Over(NarrowGate(c), t)
<1> DEFINE pool == IF c.t.slot = "correction"
                   THEN UNION {VariantsOf(v[1]) : v \in c.m.shown} ELSE c.m.shown
           left == {v[1] : v \in {w \in pool : w[2] = c.t.size}}
           m == IF c.t.slot = "correction" THEN NoChoice(c.m) ELSE c.m
           x == [m EXCEPT !.broadenAsked = FALSE]
           y == [m EXCEPT !.last = "other", !.awaiting = "broaden", !.broaden = c.t.size,
                          !.broadenAsked = TRUE]
           d == [Found(Keep(c, x), left) EXCEPT !.scope = c.t.size]
           e == ArmBroadenSearch(Keep(c, m), c.t.size)
           f == Ends(Keep(c, y), "ask_broaden")
<1>1. SUFFICES ASSUME c.found = {}, Narrows(c)
               PROVE  Begun(NarrowGate(c), t, V) \/ Over(NarrowGate(c), t)
  BY DEF NarrowGate
<1>2. /\ c \in Contexts /\ c.m \in Memories /\ Good(c.m, V, After(t)) /\ ReadAs(c.t, t)
      /\ Unpicked(c.m) /\ Near(c.m) /\ ~c.m.ordered /\ c.t \in Heard /\ c.head = NoProduct
  BY <1>1 DEF Begun, OnTrack, Good, ReadAs, Traces
<1>3. /\ m \in Memories /\ Good(m, V, After(t)) /\ Unpicked(m) /\ Near(m) /\ ~m.ordered
  <2>1. /\ NoChoice(c.m) \in Memories /\ SameDeal(c.m, NoChoice(c.m))
        /\ NoChoice(c.m).variant = NoVariant /\ NoChoice(c.m).product = c.m.product
        /\ NoChoice(c.m).avail = c.m.avail
    BY <1>2, ForgetIs
  <2>2. Good(NoChoice(c.m), V, After(t)) /\ Unpicked(NoChoice(c.m))
    BY <1>2, ForgetIsGood
  <2> QED BY <1>2, <2>1, <2>2 DEF Near, SameDeal
<1>4. c.t.size \in Sizes /\ c.t.size # NoSize
  BY <1>1, <1>2 DEF Narrows, Heard
<1>5. left \subseteq Products \cap Discussed
  <2>1. ASSUME NEW w \in pool PROVE w[1] \in Products \cap Discussed
    <3>1. PICK v \in c.m.shown : w \in Variants /\ w[1] = v[1]
      BY <1>2 DEF VariantsOf, Memories
    <3>2. v \in mem.shown
      BY <1>2 DEF Near
    <3>3. w[1] \in Products
      BY <3>1 DEF Variants
    <3> QED BY <3>1, <3>2, <3>3 DEF Discussed
  <2> HIDE DEF pool
  <2> QED BY <2>1
<1> HIDE DEF m, left
<1>6. CASE left # {}
  <2>1. NarrowGate(c) = d
    BY <1>1, <1>6 DEF NarrowGate, m, left
  <2>2. /\ x \in Memories /\ x.variant = m.variant /\ x.avail = m.avail /\ x.cart = m.cart
        /\ x.product = m.product /\ x.state = m.state /\ x.last = m.last /\ x.ordered = m.ordered
    BY <1>3 DEF Memories
  <2> HIDE DEF x
  <2>3. Good(x, V, After(t)) /\ Unpicked(x)
    BY <1>3, <2>2 DEF Good, Unpicked
  <2>4. /\ Keep(c, x) \in Contexts /\ Keep(c, x).m = x /\ Keep(c, x).t = c.t
        /\ SameFinds(c, Keep(c, x))
    BY <1>2, <2>2, KeepIs
  <2> DEFINE g == Found(Keep(c, x), left)
  <2>5. /\ g \in Contexts /\ g.m = x /\ g.t = c.t /\ g.found = left
        /\ (g.head = NoProduct <=> left = {}) /\ (left # {} => g.head \in left)
        /\ Besides(Keep(c, x), g)
    BY <1>5, <2>4, FoundIs
  <2> HIDE DEF g
  <2>6. /\ d \in Contexts /\ d.m = x /\ d.t = c.t /\ d.found = left /\ d.head = g.head
        /\ d.items = g.items /\ d.out = g.out
    BY <2>5, <1>4 DEF Contexts, g
  <2> HIDE DEF d
  <2>7. OnTrack(d, t, V)
    BY <1>2, <1>3, <1>4, <1>5, <1>6, <2>2, <2>3, <2>4, <2>5, <2>6
       DEF Begun, OnTrack, Traces, SameFinds, Besides
  <2> QED BY <1>6, <2>1, <2>6, <2>7 DEF Begun
<1>7. CASE left = {} /\ c.m.broadenAsked
  <2>1. NarrowGate(c) = e
    BY <1>1, <1>7 DEF NarrowGate, m, left
  <2>2. OnTrack(Keep(c, m), t, V) /\ Keep(c, m).m = m /\ Keep(c, m).t = c.t
        /\ SameFinds(c, Keep(c, m))
    BY <1>3, KeepOnTrack DEF Begun
  <2>3. Keep(c, m) \in Contexts /\ ReadAs(Keep(c, m).t, t)
    BY <2>2 DEF OnTrack
  <2>4. /\ e \in Contexts /\ e.m = m /\ ReadAs(e.t, t) /\ e.t.intent = "browse"
        /\ e.found = Keep(c, m).found /\ e.head = Keep(c, m).head
        /\ e.items = Keep(c, m).items /\ e.out = Keep(c, m).out
    <3> DEFINE k == Keep(c, m)
    <3>1. k \in Contexts /\ ReadAs(k.t, t) /\ k.m = m /\ c.t.size \in Sizes \cup {NoSize}
      BY <1>4, <2>2, <2>3
    <3>2. e = ArmBroadenSearch(k, c.t.size)
      OBVIOUS
    <3> HIDE DEF k, e
    <3>3. /\ e \in Contexts /\ e.m = k.m /\ ReadAs(e.t, t) /\ e.t.intent = "browse"
          /\ e.found = k.found /\ e.head = k.head /\ e.items = k.items /\ e.out = k.out
      BY <3>1, <3>2, ArmBroadenIs
    <3> QED BY <3>1, <3>3 DEF k
  <2> HIDE DEF e
  <2>5. Begun(e, t, V)
    BY <1>1, <1>2, <1>3, <2>2, <2>4 DEF Begun, OnTrack, Traces, SameFinds, Besides
  <2> QED BY <2>1, <2>5
<1>8. CASE left = {} /\ ~c.m.broadenAsked
  <2>1. NarrowGate(c) = f
    BY <1>1, <1>8 DEF NarrowGate, m, left
  <2>2. /\ y \in Memories /\ y.variant = m.variant /\ y.avail = m.avail /\ y.cart = m.cart
        /\ y.product = m.product /\ y.state = m.state /\ y.last = "other"
        /\ y.ordered = m.ordered
    BY <1>3, <1>4 DEF Memories, Lasts
  <2> HIDE DEF y
  <2>3. /\ Keep(c, y) \in Contexts /\ Keep(c, y).m = y /\ SameFinds(c, Keep(c, y))
    BY <1>2, <2>2, KeepIs
  <2>4. f \in Contexts /\ f.m = y /\ f.out = "ask_broaden" /\ f.items = Keep(c, y).items
    BY <2>3, EndsIs DEF Outs
  <2> HIDE DEF f
  <2>5. Good(y, Variants, Variants) /\ Unpicked(y) /\ \A i \in y.cart : i.variant \in After(t) \/ Mixed(i)
    BY <1>3, <2>2 DEF Good, Unpicked, Memories, MaybeVariant, Cartable
  <2>6. Over(f, t)
    BY <2>3, <2>4, <2>5 DEF Over, Begun, OnTrack, Cleared, SameFinds, Besides, Outs
  <2> QED BY <2>1, <2>6
<1> QED BY <1>6, <1>7, <1>8

LEMMA FocusGateBegins ==
    ASSUME NEW t, NEW V, NEW c, Begun(c, t, V)
    PROVE  Begun(FocusGate(c), t, V)
<1> DEFINE p == c.m.product
           d == Found(c, {p})
<1>1. SUFFICES ASSUME c.found = {}, VariantQuestionOnFocus(c)
               PROVE  Begun(d, t, V)
  BY DEF FocusGate
<1>2. c \in Contexts /\ c.m \in Memories /\ p # NoProduct /\ c.t.size # NoSize
  BY <1>1 DEF Begun, OnTrack, Good, VariantQuestionOnFocus
<1>3. p \in Products /\ p \in Discussed
  BY <1>1, <1>2 DEF Memories, MaybeProduct, Begun, Near, Discussed
<1>4. /\ d \in Contexts /\ d.m = c.m /\ d.t = c.t /\ d.found = {p} /\ d.head = p /\ Besides(c, d)
  BY <1>2, <1>3, FoundIs
<1> HIDE DEF d
<1> QED BY <1>2, <1>3, <1>4 DEF Begun, OnTrack, Traces, Besides

\* Only the other fields of the context change.
LEMMA MarkOnTrack ==
    ASSUME NEW t, NEW V, NEW c, OnTrack(c, t, V), NEW d \in Contexts, d.m = c.m, d.t = c.t,
           d.found = c.found, d.head = c.head, d.items = c.items, d.out = c.out
    PROVE  OnTrack(d, t, V)
BY DEF OnTrack, Traces

LEMMA HitsAre ==
    ASSUME NEW t, NEW V, NEW c, OnTrack(c, t, V)
    PROVE  /\ OnTrack(Sized(c), t, V) /\ Sized(c).m = c.m /\ Sized(c).t = c.t
<1> DEFINE carrying(s) == {p \in Hits(c) : s \in Carried[p]}
<1>1. Hits(c) \subseteq CheckAll(c.t.names) /\ CheckAll(c.t.names) \subseteq Products
  BY DEF Hits, SearchProducts, CheckAll
<1>2. c.t.intent = "details" => CheckAll(c.t.names) \subseteq Asked(t)
  <2>1. NoProduct \notin Products /\ Category \notin Products
    BY ReplyEngineAssumption DEF ReplyEngineAssumption
  <2> QED BY <2>1 DEF OnTrack, ReadAs, CheckAll
<1>3. ASSUME NEW S, S \subseteq Hits(c)
      PROVE  /\ OnTrack(Found(c, S), t, V) /\ Found(c, S).m = c.m /\ Found(c, S).t = c.t
             /\ Found(c, S) \in Contexts
  <2>1. /\ Found(c, S) \in Contexts /\ Found(c, S).m = c.m /\ Found(c, S).t = c.t
        /\ Found(c, S).found = S /\ (Found(c, S).head = NoProduct <=> S = {})
        /\ (S # {} => Found(c, S).head \in S) /\ Besides(c, Found(c, S))
    BY <1>1, <1>3, FoundIs DEF OnTrack
  <2> QED BY <1>1, <1>2, <1>3, <2>1 DEF OnTrack, Traces, Besides
<1>4. ASSUME NEW d, OnTrack(d, t, V), NEW s \in Sizes \cup {NoSize}
      PROVE  /\ OnTrack([d EXCEPT !.scope = s], t, V)
             /\ [d EXCEPT !.scope = s].m = d.m /\ [d EXCEPT !.scope = s].t = d.t
  <2> DEFINE e == [d EXCEPT !.scope = s]
  <2>1. /\ e \in Contexts /\ e.m = d.m /\ e.t = d.t /\ e.found = d.found /\ e.head = d.head
        /\ e.items = d.items /\ e.out = d.out
    BY <1>4 DEF OnTrack, Contexts
  <2> HIDE DEF e
  <2>2. OnTrack(e, t, V)
    BY <1>4, <2>1, MarkOnTrack
  <2> QED BY <2>1, <2>2 DEF e
<1>5. c.t.size \in Sizes \cup {NoSize} /\ carrying(c.scope) \subseteq Hits(c)
      /\ carrying(c.t.size) \subseteq Hits(c)
  BY DEF OnTrack, ReadAs, Heard
<1>6. Sized(c) = IF c.scope # NoSize THEN Found(c, carrying(c.scope))
                 ELSE IF c.t.size # NoSize /\ carrying(c.t.size) # {}
                 THEN [Found(c, carrying(c.t.size)) EXCEPT !.scope = c.t.size]
                 ELSE Found(c, Hits(c))
  BY DEF Sized
<1> HIDE DEF carrying
<1>7. CASE c.scope # NoSize
  BY <1>3, <1>5, <1>6, <1>7
<1>8. CASE c.scope = NoSize /\ c.t.size # NoSize /\ carrying(c.t.size) # {}
  BY <1>3, <1>4, <1>5, <1>6, <1>8
<1>9. CASE c.scope = NoSize /\ ~(c.t.size # NoSize /\ carrying(c.t.size) # {})
  BY <1>3, <1>6, <1>9
<1> QED BY <1>7, <1>8, <1>9

LEMMA LockHoldsOnTrack ==
    ASSUME NEW t, NEW V, NEW c, OnTrack(c, t, V), Near(c.m), Chosen(t) \subseteq V
    PROVE  OnTrack(LockHolds(c), t, V)
<1> DEFINE wanted == {v \in c.m.avail : v[2] = c.t.size}
           kept == Found(c, {})
<1>1. /\ kept \in Contexts /\ kept.m = c.m /\ kept.t = c.t /\ kept.found = {}
      /\ kept.head = NoProduct /\ Besides(c, kept)
  BY FoundIs DEF OnTrack
<1> HIDE DEF kept
<1>2. OnTrack(kept, t, V)
  BY <1>1 DEF OnTrack, Traces, Besides
<1>3. wanted \subseteq V \cap Variants
  <2>1. SUFFICES ASSUME NEW v \in wanted PROVE v \in Chosen(t) /\ v \in Variants
    OBVIOUS
  <2>2. v \in Variants /\ v \in mem.avail
    BY DEF OnTrack, Good, Near, Memories
  <2>3. v[2] \in Sizes /\ NoSize \notin Sizes
    BY <2>2, ReplyEngineAssumption DEF ReplyEngineAssumption, Variants
  <2>4. v[2] = t.size
    BY <2>3 DEF OnTrack, ReadAs
  <2>5. v[1] \in Discussed
    BY <2>2 DEF Discussed
  <2> QED BY <2>2, <2>4, <2>5 DEF Chosen
<1>4. wanted # {} => The(wanted) \in wanted /\ c.m.product # NoProduct
  BY DEF The, OnTrack, Good
<1>5. LockHolds(c) = IF wanted # {} /\ c.m.variant = NoVariant THEN Offer(kept, The(wanted)) ELSE kept
  BY DEF LockHolds, kept
<1> HIDE DEF wanted
<1>6. CASE wanted # {} /\ c.m.variant = NoVariant
  <2>1. The(wanted) \in V \cap Variants /\ kept.m.product # NoProduct
    BY <1>1, <1>3, <1>4, <1>6
  <2>2. OnTrack(Offer(kept, The(wanted)), t, V)
    BY <1>2, <2>1, OfferOnTrack
  <2> QED BY <1>5, <1>6, <2>2
<1>7. CASE ~(wanted # {} /\ c.m.variant = NoVariant)
  BY <1>2, <1>5, <1>7
<1> QED BY <1>6, <1>7

LEMMA PresentOnTrack ==
    ASSUME NEW t, NEW V, NEW c, OnTrack(c, t, V)
    PROVE  /\ OnTrack(Present(c), t, V) /\ Present(c).t = c.t /\ SameFinds(c, Present(c))
           /\ Present(c).m.variant = c.m.variant
<1> DEFINE m == [c.m EXCEPT !.shown = UNION {FoundVariants(c, p) : p \in c.found}]
<1>1. c.m \in Memories /\ Good(c.m, V, After(t)) /\ ~c.m.ordered
      /\ (Unpicked(c.m) \/ c.t.intent \in Settled)
  BY DEF OnTrack, Good
<1>2. UNION {FoundVariants(c, p) : p \in c.found} \subseteq Variants
  BY DEF FoundVariants, VariantsOf
<1>3. /\ m \in Memories /\ m.variant = c.m.variant /\ m.avail = c.m.avail /\ m.cart = c.m.cart
      /\ m.product = c.m.product /\ m.state = c.m.state /\ m.last = c.m.last
      /\ m.ordered = c.m.ordered
  BY <1>1, <1>2 DEF Memories
<1> HIDE DEF m
<1>4. Good(m, V, After(t)) /\ ~m.ordered /\ (Unpicked(m) \/ c.t.intent \in Settled)
  BY <1>1, <1>3 DEF Good, Unpicked
<1>5. Present(c) = Keep(c, m)
  BY DEF Present, m
<1> QED BY <1>3, <1>4, <1>5, KeepOnTrack

LEMMA LockOnTrack ==
    ASSUME NEW t, NEW V, NEW c, OnTrack(c, t, V), c.found # {}, Near(c.m), Chosen(t) \subseteq V
    PROVE  OnTrack(Lock(c), t, V)
<1> DEFINE p == IF c.m.product \in c.found THEN c.m.product ELSE c.head
           a == Available(FoundVariants(c, p))
           n == Present(c).m
           m == [n EXCEPT !.avail = a, !.product = p, !.title = p]
           d == Keep(c, m)
           e == [d EXCEPT !.head = p]
<1>1. p \in c.found /\ c.found \subseteq Products /\ p \in Products
  BY DEF OnTrack, Traces, Contexts
<1>2. /\ OnTrack(Present(c), t, V) /\ SameFinds(c, Present(c))
      /\ n \in Memories /\ Good(n, V, After(t)) /\ ~n.ordered /\ Present(c).t = c.t
      /\ (Unpicked(n) \/ c.t.intent \in Settled)
  BY PresentOnTrack DEF OnTrack, Good
<1>3. a \subseteq Variants
  BY StockIs
<1> HIDE DEF p, a, n
<1>4. /\ m \in Memories /\ m.variant = n.variant /\ m.avail = a /\ m.cart = n.cart
      /\ m.product = p /\ m.state = n.state /\ m.last = n.last /\ m.ordered = n.ordered
  BY <1>1, <1>2, <1>3 DEF Memories, MaybeProduct
<1>5. p # NoProduct
  BY <1>1, ReplyEngineAssumption DEF ReplyEngineAssumption
<1> HIDE DEF m
<1>6. Good(m, V, After(t)) /\ ~m.ordered /\ (Unpicked(m) \/ c.t.intent \in Settled)
  BY <1>2, <1>3, <1>4, <1>5 DEF Good, Unpicked
<1>7. OnTrack(d, t, V) /\ d.t = c.t /\ SameFinds(c, d)
  BY <1>6, KeepOnTrack
<1>8. /\ e \in Contexts /\ e.m = d.m /\ e.t = d.t /\ e.found = d.found /\ e.head = p
      /\ e.items = d.items /\ e.out = d.out
  BY <1>1, <1>7 DEF OnTrack, Contexts, MaybeProduct
<1> HIDE DEF d, e
<1>9. OnTrack(e, t, V)
  BY <1>1, <1>5, <1>7, <1>8 DEF OnTrack, Traces, SameFinds, Besides
<1>10. Lock(c) \in {LockHolds(c), Present(c), e}
  BY DEF Lock, e, d, m, n, a, p
<1> QED BY <1>2, <1>9, <1>10, LockHoldsOnTrack

\* A change of state that leaves the cart alone.
LEMMA StateOnTrack ==
    ASSUME NEW t, NEW V, NEW c, OnTrack(c, t, V), NEW s \in States \ {"cart_item_added", "confirmed"}
    PROVE  LET d == Keep(c, [c.m EXCEPT !.state = s])
           IN /\ OnTrack(d, t, V) /\ d.t = c.t /\ SameFinds(c, d) /\ d.m.variant = c.m.variant
              /\ d.m.avail = c.m.avail
<1> DEFINE m == [c.m EXCEPT !.state = s]
<1>1. c.m \in Memories /\ Good(c.m, V, After(t)) /\ ~c.m.ordered
      /\ (Unpicked(c.m) \/ c.t.intent \in Settled)
  BY DEF OnTrack, Good
<1>2. /\ m \in Memories /\ m.variant = c.m.variant /\ m.avail = c.m.avail /\ m.cart = c.m.cart
      /\ m.product = c.m.product /\ m.state = s /\ m.last = c.m.last
      /\ m.ordered = c.m.ordered
  BY <1>1 DEF Memories
<1> HIDE DEF m
<1>3. Good(m, V, After(t)) /\ ~m.ordered /\ (Unpicked(m) \/ c.t.intent \in Settled)
  BY <1>1, <1>2 DEF Good, Unpicked
<1>4. OnTrack(Keep(c, m), t, V) /\ Keep(c, m).m = m /\ Keep(c, m).t = c.t /\ SameFinds(c, Keep(c, m))
  BY <1>3, KeepOnTrack
<1> QED BY <1>2, <1>4 DEF m

LEMMA FirstShownOnTrack ==
    ASSUME NEW t, NEW V, NEW c, OnTrack(c, t, V), NEW first
    PROVE  OnTrack(FirstShown(c, first), t, V)
<1> DEFINE x == Keep(c, [c.m EXCEPT !.state = "awaiting_product"])
           d == IF first THEN [x EXCEPT !.first = TRUE] ELSE c
           y == Keep(d, [d.m EXCEPT !.state = "awaiting_confirmation"])
           z == [y EXCEPT !.action = "confirm_selection"]
<1>1. {"awaiting_product", "awaiting_confirmation"} \subseteq States \ {"cart_item_added", "confirmed"}
      /\ "confirm_selection" \in Actions
  BY DEF States, Actions
<1>2. OnTrack(x, t, V)
  BY <1>1, StateOnTrack
<1> HIDE DEF x
<1>3. OnTrack([x EXCEPT !.first = TRUE], t, V)
  <2> DEFINE e == [x EXCEPT !.first = TRUE]
  <2>1. /\ e \in Contexts /\ e.m = x.m /\ e.t = x.t /\ e.found = x.found /\ e.head = x.head
        /\ e.items = x.items /\ e.out = x.out
    BY <1>2 DEF OnTrack, Contexts
  <2> HIDE DEF e
  <2>2. OnTrack(e, t, V)
    BY <1>2, <2>1, MarkOnTrack
  <2> QED BY <2>2 DEF e
<1>4. OnTrack(d, t, V)
  BY <1>3
<1> HIDE DEF d
<1>5. OnTrack(y, t, V)
  BY <1>1, <1>4, StateOnTrack
<1> HIDE DEF y
<1>6. /\ z \in Contexts /\ z.m = y.m /\ z.t = y.t /\ z.found = y.found /\ z.head = y.head
      /\ z.items = y.items /\ z.out = y.out
  BY <1>1, <1>5 DEF OnTrack, Contexts
<1> HIDE DEF z
<1>7. OnTrack(z, t, V)
  BY <1>5, <1>6, MarkOnTrack
<1>8. FirstShown(c, first) \in {d, z}
  BY DEF FirstShown, z, y, d, x
<1> QED BY <1>4, <1>7, <1>8

LEMMA WiderIsGood ==
    ASSUME NEW m, NEW V, NEW B, Good(m, V, B)
    PROVE  Good(m, Variants, Variants)
BY DEF Good, Memories, MaybeVariant, Cartable

\* A turn that ends with the memory as it is.
LEMMA EndIsOver ==
    ASSUME NEW t, NEW V, NEW c, OnTrack(c, t, V), Unpicked(c.m), NEW o \in Outs
    PROVE  Over(Ends(c, o), t)
<1>1. /\ Ends(c, o) \in Contexts /\ Ends(c, o).m = c.m /\ Ends(c, o).out = o
      /\ Ends(c, o).items = c.items
  BY EndsIs DEF OnTrack
<1>2. Good(c.m, Variants, Variants)
  BY WiderIsGood DEF OnTrack
<1>3. Cleared(c, t)
  BY DEF OnTrack, Good, Cleared
<1> QED BY <1>1, <1>2, <1>3 DEF Over, OnTrack, Cleared

\* A reply changes what was said, and not what it was about.
LEMMA SaidIs ==
    ASSUME NEW m \in Memories, NEW l \in Lasts
    PROVE  /\ Said(m, l) \in Memories /\ Said(m, l).last = l
           /\ Said(m, l).variant = m.variant /\ Said(m, l).avail = m.avail
           /\ Said(m, l).cart = m.cart /\ Said(m, l).product = m.product
           /\ Said(m, l).state = m.state /\ Said(m, l).ordered = m.ordered
           /\ Said(m, l).title = m.title /\ Said(m, l).named = m.named
           /\ Said(m, l).shown = m.shown
BY DEF Said, Memories

LEMMA SaidOnTrack ==
    ASSUME NEW t, NEW V, NEW c, OnTrack(c, t, V)
    PROVE  LET m == [c.m EXCEPT !.last = "other"]
           IN /\ Good(Said(c.m, "other"), V, After(t)) /\ Unpicked(Said(c.m, "other"))
              /\ ~Said(c.m, "other").ordered
              /\ Good(m, V, After(t)) /\ Unpicked(m) /\ ~m.ordered
<1> DEFINE m == [c.m EXCEPT !.last = "other"]
<1>1. c.m \in Memories /\ Good(c.m, V, After(t)) /\ ~c.m.ordered /\ "other" \in Lasts
  BY DEF OnTrack, Good, Lasts
<1>2. /\ Said(c.m, "other") \in Memories /\ Said(c.m, "other").last = "other"
      /\ Said(c.m, "other").variant = c.m.variant /\ Said(c.m, "other").avail = c.m.avail
      /\ Said(c.m, "other").cart = c.m.cart /\ Said(c.m, "other").product = c.m.product
      /\ Said(c.m, "other").state = c.m.state /\ Said(c.m, "other").ordered = c.m.ordered
  BY <1>1, SaidIs
<1>3. /\ m \in Memories /\ m.variant = c.m.variant /\ m.avail = c.m.avail /\ m.cart = c.m.cart
      /\ m.product = c.m.product /\ m.state = c.m.state /\ m.last = "other"
      /\ m.ordered = c.m.ordered
  BY <1>1 DEF Memories
<1> HIDE DEF m
<1>4. Good(m, V, After(t)) /\ Unpicked(m) /\ ~m.ordered
  BY <1>1, <1>3 DEF Good, Unpicked
<1>5. Good(Said(c.m, "other"), V, After(t)) /\ Unpicked(Said(c.m, "other"))
      /\ ~Said(c.m, "other").ordered
  BY <1>1, <1>2 DEF Good, Unpicked
<1> QED BY <1>4, <1>5 DEF m

LEMMA NothingFoundIsOver ==
    ASSUME NEW t, NEW V, NEW c, OnTrack(c, t, V), Unpicked(c.m)
    PROVE  Over(NothingFound(c), t)
<1> DEFINE d == Keep(c, Said(c.m, "other"))
<1>1. OnTrack(d, t, V) /\ Unpicked(d.m)
  <2>1. /\ Good(Said(c.m, "other"), V, After(t)) /\ Unpicked(Said(c.m, "other"))
        /\ ~Said(c.m, "other").ordered
    BY SaidOnTrack
  <2> QED BY <2>1, KeepOnTrack
<1>2. NothingFound(c) \in {Ends(d, "reply"), Ends(c, "handoff")}
  BY DEF NothingFound
<1> HIDE DEF d
<1> QED BY <1>1, <1>2, EndIsOver DEF Outs

LEMMA SearchOnTrack ==
    ASSUME NEW t, NEW V, NEW c, Begun(c, t, V)
    PROVE  OnTrack(Search(c), t, V) \/ Over(Search(c), t)
<1> DEFINE d == IF c.t.slot = "correction" THEN Keep(c, NoChoice(c.m)) ELSE c
           hits == Sized(d)
<1>1. CASE c.found # {}
  BY <1>1 DEF Search, Begun
<1>2. CASE c.found = {}
  <2>1. Begun(d, t, V) /\ d.found = {}
    <3>1. c.m \in Memories /\ Good(c.m, V, After(t)) /\ OnTrack(c, t, V) /\ ~c.m.ordered
      BY DEF Begun, OnTrack, Good
    <3>2. /\ NoChoice(c.m) \in Memories /\ SameDeal(c.m, NoChoice(c.m))
          /\ NoChoice(c.m).variant = NoVariant /\ NoChoice(c.m).product = c.m.product
          /\ NoChoice(c.m).avail = c.m.avail
      BY <3>1, ForgetIs
    <3>3. Good(NoChoice(c.m), V, After(t)) /\ Unpicked(NoChoice(c.m)) /\ ~NoChoice(c.m).ordered
          /\ Near(NoChoice(c.m))
      BY <1>2, <3>1, <3>2, ForgetIsGood DEF Near, SameDeal, Begun
    <3>4. /\ OnTrack(Keep(c, NoChoice(c.m)), t, V)
          /\ Keep(c, NoChoice(c.m)).m = NoChoice(c.m) /\ SameFinds(c, Keep(c, NoChoice(c.m)))
      BY <3>1, <3>3, KeepOnTrack
    <3> QED BY <1>2, <3>3, <3>4 DEF Begun, SameFinds
  <2> HIDE DEF d
  <2>2. OnTrack(d, t, V) /\ Near(d.m) /\ Unpicked(d.m)
    BY <2>1 DEF Begun
  <2>3. OnTrack(hits, t, V) /\ Near(hits.m)
    BY <2>2, HitsAre
  <2>4. Search(c) \in {c, FirstShown(Lock(hits), c.m.shown = {}), NothingFound(d), d}
        /\ (hits.found = {} => Search(c) \in {c, NothingFound(d), d})
    BY DEF Search, d
  <2> HIDE DEF hits
  <2>5. hits.found # {} => OnTrack(FirstShown(Lock(hits), c.m.shown = {}), t, V)
    <3>1. Chosen(t) \subseteq V
      BY DEF Begun
    <3> QED BY <2>3, <3>1, LockOnTrack, FirstShownOnTrack
  <2>6. Over(NothingFound(d), t)
    BY <2>2, NothingFoundIsOver
  <2> QED BY <2>2, <2>4, <2>5, <2>6 DEF Begun
<1> QED BY <1>1, <1>2

LEMMA SearchAndFilterIs ==
    ASSUME NEW t, NEW V, Message(t), NEW c, Begun(c, t, V), c.found = {}
    PROVE  OnTrack(SearchAndFilter(c), t, V) \/ Over(SearchAndFilter(c), t)
<1> DEFINE b == Media(c)
           a == NarrowGate(b)
           f == FocusGate(a)
<1>1. Begun(b, t, V)
  BY MediaBegins
<1> HIDE DEF b
<1>2. Begun(a, t, V) \/ Over(a, t)
  BY <1>1, NarrowGateBegins
<1>3. SearchAndFilter(c) = IF a.out = "going" THEN Search(f) ELSE a
  BY DEF SearchAndFilter, Going, b
<1> HIDE DEF a
<1>4. CASE Over(a, t)
  BY <1>3, <1>4 DEF Over, Outs
<1>5. CASE Begun(a, t, V)
  <2>1. Begun(f, t, V)
    BY <1>5, FocusGateBegins
  <2> HIDE DEF f
  <2>2. a.out = "going"
    BY <1>5 DEF Begun, OnTrack
  <2> QED BY <1>3, <2>1, <2>2, SearchOnTrack
<1> QED BY <1>2, <1>4, <1>5

LEMMA AboutOnTrack ==
    ASSUME NEW t, NEW V, NEW c, OnTrack(c, t, V), NEW n, Good(n, V, After(t)), ~n.ordered,
           Unpicked(n), NEW i \in {"variant_not_available", "out_of_stock"}
    PROVE  OnTrack(Route([Keep(c, n) EXCEPT !.first = FALSE], i, i), t, V)
<1> DEFINE d == Keep(c, n)
           e == [d EXCEPT !.first = FALSE]
<1>1. OnTrack(d, t, V)
  BY KeepOnTrack
<1> HIDE DEF d
<1>2. /\ e \in Contexts /\ e.m = d.m /\ e.t = d.t /\ e.found = d.found /\ e.head = d.head
      /\ e.items = d.items /\ e.out = d.out
  BY <1>1 DEF OnTrack, Contexts
<1> HIDE DEF e
<1>3. OnTrack(e, t, V)
  BY <1>1, <1>2, MarkOnTrack
<1>4. i \in Routes \cap Actions \cap Settled /\ i # "details"
  BY DEF Routes, Settled, Actions
<1> QED BY <1>3, <1>4, RouteOnTrack DEF e, d

LEMMA VariantUnavailableOnTrack ==
    ASSUME NEW t, NEW V, NEW c, OnTrack(c, t, V)
    PROVE  OnTrack(VariantUnavailable(c), t, V)
<1> DEFINE p == c.head
           here == Available(FoundVariants(c, p))
           all == Available(VariantsOf(p))
           m == [NoChoice(c.m) EXCEPT !.product = p, !.last = "other"]
           x == [m EXCEPT !.avail = here]
           y == [m EXCEPT !.state = "awaiting_product"]
           z == [m EXCEPT !.state = "awaiting_product", !.avail = all]
<1>1. SUFFICES ASSUME VariantUnavailable(c) # c PROVE OnTrack(VariantUnavailable(c), t, V)
  OBVIOUS
<1>2. Cardinality(c.found) = 1
  BY <1>1 DEF VariantUnavailable
<1>3. p \in Products /\ p # NoProduct
  BY <1>2, OneIsSome DEF OnTrack, Traces, Contexts
<1>4. here \subseteq Variants /\ all \subseteq Variants
  BY StockIs
<1>5. VariantUnavailable(c) \in
        {Unavailable([Keep(c, x) EXCEPT !.first = FALSE]),
         Route([Keep(c, y) EXCEPT !.first = FALSE], "out_of_stock", "out_of_stock"),
         Unavailable([Keep(c, z) EXCEPT !.first = FALSE])}
  <2> HIDE DEF x, y, z
  <2> QED BY <1>1 DEF VariantUnavailable, x, y, z
<1> HIDE DEF p, here, all
<1>6. c.m \in Memories /\ Good(c.m, V, After(t)) /\ ~c.m.ordered
  BY DEF OnTrack, Good
<1>7. /\ NoChoice(c.m) \in Memories /\ SameDeal(c.m, NoChoice(c.m))
      /\ NoChoice(c.m).variant = NoVariant /\ NoChoice(c.m).product = c.m.product
      /\ NoChoice(c.m).avail = c.m.avail /\ NoChoice(c.m).state = c.m.state
  BY <1>6, ForgetIs
<1>8. /\ m \in Memories /\ m.variant = NoVariant /\ m.product = p /\ m.avail = c.m.avail
      /\ m.state = c.m.state /\ m.cart = c.m.cart /\ m.ordered = c.m.ordered
  BY <1>3, <1>7 DEF Memories, SameDeal, MaybeProduct, Lasts
<1> HIDE DEF m
<1>9. \A n \in {x, y, z} : /\ n \in Memories /\ n.variant = NoVariant /\ n.product = p
                           /\ n.avail \in {c.m.avail, here, all} /\ n.cart = c.m.cart
                           /\ n.state \in {c.m.state, "awaiting_product"}
                           /\ n.ordered = c.m.ordered
  <2> DEFINE Is(n) == /\ n \in Memories /\ n.variant = NoVariant /\ n.product = p
                     /\ n.avail \in {c.m.avail, here, all} /\ n.cart = c.m.cart
                     /\ n.state \in {c.m.state, "awaiting_product"}
                     /\ n.ordered = c.m.ordered
  <2>1. "awaiting_product" \in States /\ here \subseteq Variants /\ all \subseteq Variants
    BY <1>4 DEF States
  <2>2. Is(x)
    BY <1>8, <2>1 DEF Memories
  <2>3. Is(y)
    BY <1>8, <2>1 DEF Memories
  <2>4. Is(z)
    BY <1>8, <2>1 DEF Memories
  <2> HIDE DEF x, y, z
  <2> QED BY <2>2, <2>3, <2>4
<1> HIDE DEF x, y, z
<1>10. \A n \in {x, y, z} : Good(n, V, After(t)) /\ Unpicked(n) /\ ~n.ordered
  BY <1>3, <1>4, <1>6, <1>9 DEF Good, Unpicked
<1> QED BY <1>5, <1>10, AboutOnTrack DEF Unavailable

LEMMA ProductQuestionOnTrack ==
    ASSUME NEW t, NEW V, NEW c, OnTrack(c, t, V)
    PROVE  OnTrack(ProductQuestion(c), t, V) \/ Over(ProductQuestion(c), t)
<1> DEFINE m == [c.m EXCEPT !.last = "other"]
<1>1. SUFFICES ASSUME c.t.intent = "question", ProductQuestion(c) # c
               PROVE  Over(ProductQuestion(c), t)
  BY DEF ProductQuestion
<1>2. Unpicked(c.m)
  BY <1>1 DEF OnTrack, Settled
<1>3. Good(m, V, After(t)) /\ Unpicked(m) /\ ~m.ordered
  BY SaidOnTrack
<1>4. ProductQuestion(c) \in {Ends(Keep(c, m), "reply"), Ends(c, "handoff")}
  BY <1>1 DEF ProductQuestion
<1> HIDE DEF m
<1>5. OnTrack(Keep(c, m), t, V) /\ Keep(c, m).m = m
  BY <1>3, KeepOnTrack
<1> QED BY <1>2, <1>3, <1>4, <1>5, EndIsOver DEF Outs

LEMMA DeclineOfferOnTrack ==
    ASSUME NEW t, NEW V, NEW c, OnTrack(c, t, V)
    PROVE  OnTrack(DeclineOffer(c), t, V)
<1> DEFINE m == [NoChoice(c.m) EXCEPT !.state = "awaiting_product"]
<1>1. "awaiting_product" \in States \ {"cart_item_added", "confirmed"}
      /\ "decline" \in Routes \cap Actions /\ "decline" # "details"
  BY DEF States, Routes, Actions
<1>2. Good(m, V, After(t)) /\ Unpicked(m) /\ ~m.ordered
  BY <1>1, ForgetInState
<1>3. DeclineOffer(c) \in {c, Route(Keep(c, m), "decline", "decline")}
  BY DEF DeclineOffer
<1> HIDE DEF m
<1>4. OnTrack(Keep(c, m), t, V) /\ Keep(c, m).m = m
  BY <1>2, KeepOnTrack
<1> QED BY <1>1, <1>2, <1>3, <1>4, RouteOnTrack

LEMMA AskedForAnotherOnTrack ==
    ASSUME NEW t, NEW V, NEW c, OnTrack(c, t, V)
    PROVE  OnTrack(AskedForAnother(c), t, V)
<1>1. "variant_not_available" \in Routes \cap Actions \cap Settled
      /\ "variant_not_available" # "details"
  BY DEF Routes, Settled, Actions
<1>2. AskedForAnother(c) \in {c, Unavailable(c)}
  BY DEF AskedForAnother
<1> QED BY <1>1, <1>2, RouteOnTrack DEF Unavailable

\* The yes that puts what is selected into the cart was given to it, or what is selected is
\* of another product than the one it is selected for.
Steady(c, t) ==
    (/\ c.t.slot = "confirmation" /\ c.m.state = "awaiting_confirmation"
     /\ c.m.product # NoProduct /\ c.m.variant # NoVariant)
    => c.m.variant \in After(t) \/ c.m.product # c.m.variant[1]

LEMMA AddToCartOnTrack ==
    ASSUME NEW t, NEW V, NEW c, OnTrack(c, t, V), Steady(c, t)
    PROVE  OnTrack(AddToCart(c), t, V)
<1> DEFINE held == \E i \in c.m.cart : i.variant = c.m.variant
           cart == IF held THEN c.m.cart ELSE c.m.cart \cup {Item(c.m)}
           m == [c.m EXCEPT !.cart = cart, !.state = "cart_item_added"]
           d == Keep(c, m)
<1>1. SUFFICES ASSUME c.t.slot = "confirmation", c.m.product # NoProduct,
                      c.m.variant # NoVariant, c.m.state = "awaiting_confirmation"
               PROVE  OnTrack(Route(d, "choice", "ask_continue"), t, V)
  BY DEF AddToCart
<1>2. c.m \in Memories /\ Good(c.m, V, After(t)) /\ ~c.m.ordered
  BY DEF OnTrack, Good
<1>3. Item(c.m) \in Cartable /\ Item(c.m).variant = c.m.variant
  BY <1>1, <1>2, ItemIs
<1>4. c.m.variant \in After(t) \/ Mixed(Item(c.m))
  BY <1>1 DEF Steady, Mixed, Item
<1>5. cart \in SUBSET Cartable /\ cart # {} /\ \A i \in cart : i.variant \in After(t) \/ Mixed(i)
  BY <1>2, <1>3, <1>4 DEF Good, Memories
<1> HIDE DEF cart
<1>6. /\ m \in Memories /\ m.variant = c.m.variant /\ m.product = c.m.product /\ m.avail = c.m.avail
      /\ m.state = "cart_item_added" /\ m.cart = cart /\ m.ordered = c.m.ordered
  BY <1>2, <1>5 DEF Memories, States
<1> HIDE DEF m
<1>7. Good(m, V, After(t)) /\ Unpicked(m) /\ ~m.ordered
  BY <1>1, <1>2, <1>5, <1>6 DEF Good, Unpicked
<1>8. "choice" \in Routes \cap Settled /\ "choice" # "details" /\ "ask_continue" \in Actions
  BY DEF Routes, Settled, Actions
<1>9. OnTrack(d, t, V)
  BY <1>7, KeepOnTrack
<1> HIDE DEF d
<1> QED BY <1>8, <1>9, RouteOnTrack

LEMMA CheckOutOnTrack ==
    ASSUME NEW t, NEW V, NEW c, OnTrack(c, t, V)
    PROVE  OnTrack(CheckOut(c), t, V)
<1> DEFINE m == [c.m EXCEPT !.state = "confirmed"]
           d == Keep(c, m)
<1>1. SUFFICES ASSUME c.m.cart # {}, c.m.state = "cart_item_added"
               PROVE  OnTrack(Route(d, "ready", "start_checkout"), t, V)
  BY DEF CheckOut
<1>2. c.m \in Memories /\ Good(c.m, V, After(t)) /\ ~c.m.ordered
  BY DEF OnTrack, Good
<1>3. /\ m \in Memories /\ m.variant = c.m.variant /\ m.product = c.m.product /\ m.avail = c.m.avail
      /\ m.state = "confirmed" /\ m.cart = c.m.cart /\ m.ordered = c.m.ordered
  BY <1>2 DEF Memories, States
<1> HIDE DEF m
<1>4. Good(m, V, After(t)) /\ Unpicked(m) /\ ~m.ordered
  BY <1>1, <1>2, <1>3 DEF Good, Unpicked
<1>5. OnTrack(d, t, V) /\ d.m = m
  BY <1>4, KeepOnTrack
<1>6. "ready" \in Routes /\ "ready" # "details" /\ "start_checkout" \in Actions
  BY DEF Routes, Intents, Actions
<1> HIDE DEF d
<1> QED BY <1>4, <1>5, <1>6, RouteOnTrack

LEMMA WiderOnTrack ==
    ASSUME NEW t, NEW V, NEW c, OnTrack(c, t, V)
    PROVE  OnTrack(c, t, Variants)
BY DEF OnTrack, Good, Memories, MaybeVariant

LEMMA PicksOnTrack ==
    ASSUME NEW t, NEW c, OnTrack(c, t, Variants)
    PROVE  OnTrack(ConfirmsProduct(c), t, Variants) /\ OnTrack(PicksVariant(c), t, Variants)
<1>1. c.m.avail \subseteq Variants
  BY DEF OnTrack, Good, Memories
<1>2. c.m.product # NoProduct => OnTrack(Choose(c, c.m.avail), t, Variants)
  BY <1>1, ChooseOnTrack
<1> QED BY <1>2 DEF ConfirmsProduct, PicksVariant, Unchosen

LEMMA FillsVariantOnTrack ==
    ASSUME NEW t, NEW c, OnTrack(c, t, Variants)
    PROVE  OnTrack(FillsVariant(c), t, Variants)
<1> DEFINE here == Available(FoundVariants(c, c.head))
           d == Choose(c, here)
           m == [d.m EXCEPT !.avail = here]
<1>1. SUFFICES ASSUME c.m.product # NoProduct, FillsVariant(c) # c
               PROVE  OnTrack(FillsVariant(c), t, Variants)
  BY DEF FillsVariant, Unchosen
<1>2. FillsVariant(c) = IF d.m.variant = NoVariant THEN Keep(d, m) ELSE d
  BY <1>1 DEF FillsVariant
<1>3. here \subseteq Variants
  BY StockIs
<1> HIDE DEF here
<1>4. OnTrack(d, t, Variants) /\ d.m.product = c.m.product
  BY <1>1, <1>3, ChooseOnTrack
<1> HIDE DEF d
<1>5. d.m \in Memories /\ Good(d.m, Variants, After(t)) /\ ~d.m.ordered
      /\ (Unpicked(d.m) \/ d.t.intent \in Settled)
  BY <1>4 DEF OnTrack, Good
<1>6. /\ m \in Memories /\ m.variant = d.m.variant /\ m.product = d.m.product /\ m.avail = here
      /\ m.state = d.m.state /\ m.cart = d.m.cart /\ m.ordered = d.m.ordered /\ m.last = d.m.last
  BY <1>3, <1>5 DEF Memories
<1> HIDE DEF m
<1>7. Good(m, Variants, After(t)) /\ ~m.ordered /\ (Unpicked(m) \/ d.t.intent \in Settled)
  BY <1>1, <1>3, <1>4, <1>5, <1>6 DEF Good, Unpicked
<1>8. OnTrack(Keep(d, m), t, Variants)
  BY <1>4, <1>7, KeepOnTrack
<1> QED BY <1>2, <1>4, <1>8

LEMMA ResolveVariantOnTrack ==
    ASSUME NEW t, NEW V, NEW c, OnTrack(c, t, V), Steady(c, t)
    PROVE  OnTrack(ResolveVariant(c), t, Variants)
<1> DEFINE x == AskedForAnother(DeclineOffer(c))
<1>1. OnTrack(x, t, V) /\ Steady(x, t)
  <2>1. CASE c.t.slot = "confirmation"
    BY <2>1 DEF DeclineOffer, AskedForAnother
  <2>2. CASE c.t.slot # "confirmation"
    <3>1. x.t.slot = c.t.slot
      BY DEF AskedForAnother, DeclineOffer, Unavailable, Route, Keep, OnTrack, Contexts, Heard
    <3> QED BY <2>2, <3>1, DeclineOfferOnTrack, AskedForAnotherOnTrack DEF Steady
  <2> QED BY <2>1, <2>2
<1>2. OnTrack(CheckOut(AddToCart(x)), t, V)
  BY <1>1, AddToCartOnTrack, CheckOutOnTrack
<1>3. OnTrack(CheckOut(AddToCart(AskedForAnother(DeclineOffer(c)))), t, Variants)
  BY <1>2, WiderOnTrack
<1>4. OnTrack(FillsVariant(ConfirmsProduct(CheckOut(AddToCart(AskedForAnother(
        DeclineOffer(c)))))), t, Variants)
  BY <1>3, PicksOnTrack, FillsVariantOnTrack
<1>5. OnTrack(PicksVariant(FillsVariant(ConfirmsProduct(CheckOut(AddToCart(AskedForAnother(
        DeclineOffer(c))))))), t, Variants)
  BY <1>4, PicksOnTrack
<1> QED BY <1>5, WiderOnTrack DEF ResolveVariant

(***************************************************************************)
(* The reply                                                               *)
(***************************************************************************)
Scenarios ==
    {"faq", "decline", "variant_not_available", "delivery", "show_price", "confirm_order",
     "ask_continue", "greeting", "show_products", "ask_variant", "price_with_variants",
     "ask_delivery", "collect_checkout", "confirm_variant", "confirm_selection",
     "recommend_product", "recommend_shown"}

\* What a scenario presupposes.
Presumes(c, s) ==
    /\ s \in {"ask_delivery", "collect_checkout"} => c.m.cart # {} /\ c.m.product # NoProduct
    /\ s = "confirm_order" =>
         /\ c.t.intent = "details" /\ c.t.details
         /\ c.m.state = "confirmed" \/ c.m.last = "asked_delivery"
    /\ s \in {"faq", "decline"} => c.t.intent \notin Settled

LEMMA OfIntentIs ==
    ASSUME NEW i
    PROVE  /\ OfIntent(i) \in (Scenarios \ {"confirm_order", "faq"}) \cup {"none"}
           /\ OfIntent(i) = "decline" => i = "decline"
BY DEF OfIntent, Scenarios

LEMMA OfActionIs ==
    ASSUME NEW a
    PROVE  OfAction(a) \in (Scenarios \ {"confirm_order", "faq", "decline"}) \cup {"none"}
BY DEF OfAction, Scenarios

LEMMA ResolveScenarioIs ==
    ASSUME NEW c
    PROVE  /\ ResolveScenario(c) \in (Scenarios \ {"faq"}) \cup {"none"}
           /\ ResolveScenario(c) = "confirm_order" =>
                /\ c.t.intent = "details" /\ c.t.details
                /\ c.m.state = "confirmed" \/ c.m.last = "asked_delivery"
           /\ ResolveScenario(c) = "decline" => c.t.intent = "decline"
<1> DEFINE rest ==
             IF /\ c.t.intent = "recommend" \/ c.asked = "recommend"
                /\ Cardinality({v[1] : v \in c.m.shown}) > 1 /\ c.m.state # "awaiting_variant"
             THEN "recommend_shown"
             ELSE IF /\ c.asked = "choice" /\ c.m.last = "gave_recommendation"
                     /\ c.m.state # "awaiting_variant"
             THEN "confirm_selection"
             ELSE IF c.t.intent = "ready" /\ c.m.last = "confirmed_product" THEN "ask_delivery"
             ELSE IF OfIntent(c.t.intent) # "none" THEN OfIntent(c.t.intent)
             ELSE OfAction(c.action)
           order == /\ c.t.intent = "details" /\ c.t.details /\ c.m.product # NoProduct
                    /\ c.m.state = "confirmed" \/ c.m.last = "asked_delivery"
           continue == c.m.state = "cart_item_added" /\ c.action = "ask_continue"
<1>1. /\ rest \in (Scenarios \ {"confirm_order", "faq"}) \cup {"none"}
      /\ rest = "decline" => c.t.intent = "decline"
  BY OfIntentIs, OfActionIs DEF Scenarios
<1>2. ResolveScenario(c) = IF continue THEN "ask_continue" ELSE IF order THEN "confirm_order" ELSE rest
  BY DEF ResolveScenario
<1> HIDE DEF rest
<1>3. ResolveScenario(c) \in {"ask_continue", rest} \/ (ResolveScenario(c) = "confirm_order" /\ order)
  <2> HIDE DEF order, continue
  <2> QED BY <1>2
<1> QED BY <1>1, <1>3 DEF Scenarios

LEMMA StageGateIs ==
    ASSUME NEW c, NEW s \in (Scenarios \ {"faq"}) \cup {"none"},
           c.m.state \in {"cart_item_added", "confirmed"} => c.m.cart # {} /\ c.m.product # NoProduct
    PROVE  LET g == StageGate(c, s)
           IN /\ g \in (Scenarios \ {"faq"}) \cup {"none"}
              /\ g \in {"ask_delivery", "collect_checkout"} => c.m.cart # {} /\ c.m.product # NoProduct
              /\ g \in {"confirm_order", "decline"} => g = s
BY DEF StageGate, Scenarios

LEMMA RenderIs ==
    ASSUME NEW c, c.m.state \in {"cart_item_added", "confirmed"} => c.m.cart # {} /\ c.m.product # NoProduct,
           Render(c) # "none"
    PROVE  Render(c) \in Scenarios /\ Presumes(c, Render(c))
<1> DEFINE r == ResolveScenario(c)
           g == StageGate(c, r)
<1>1. /\ r \in (Scenarios \ {"faq"}) \cup {"none"}
      /\ r = "confirm_order" => /\ c.t.intent = "details" /\ c.t.details
                                /\ c.m.state = "confirmed" \/ c.m.last = "asked_delivery"
      /\ r = "decline" => c.t.intent = "decline"
  BY ResolveScenarioIs
<1> HIDE DEF r
<1>2. /\ g \in (Scenarios \ {"faq"}) \cup {"none"}
      /\ g \in {"ask_delivery", "collect_checkout"} => c.m.cart # {} /\ c.m.product # NoProduct
      /\ g \in {"confirm_order", "decline"} => g = r
  BY <1>1, StageGateIs
<1> HIDE DEF g
<1>3. ASSUME NEW s PROVE RenderScenario(c, s) \in {s, "ask_variant", "show_price", "none"}
  BY DEF RenderScenario
<1>4. Render(c) \in {RenderScenario(c, "show_products"), RenderScenario(c, g)}
      \/ (Render(c) = "faq" /\ c.t.intent = "question")
  BY DEF Render, g, r
<1>5. Render(c) \in {"show_products", "ask_variant", "show_price", g}
      \/ (Render(c) = "faq" /\ c.t.intent = "question")
  BY <1>3, <1>4
<1> QED BY <1>1, <1>2, <1>5 DEF Presumes, Scenarios, Settled

\* A memory once the reply is known; the variants a cart of B may hold.
Answers(m, B) ==
    /\ m \in Memories
    /\ m.product = NoProduct => m.avail = {} /\ m.variant = NoVariant
    /\ m.state \in {"cart_item_added", "confirmed"} => m.cart # {} /\ m.product # NoProduct
    /\ \A i \in m.cart : i.variant \in B \/ Mixed(i)

LEMMA GoodAnswers ==
    ASSUME NEW m, NEW V, NEW B, Good(m, V, B)
    PROVE  Answers(m, B)
BY DEF Good, Answers

\* n keeps of c what a reply to s keeps.
Recorded(c, s, t, n) ==
    /\ Answers(n, After(t)) /\ n.cart = c.m.cart /\ ~n.ordered
    /\ n.variant \in {c.m.variant, NoVariant}
    /\ n.last = "asked_delivery" /\ n.cart = {} =>
         n.variant = NoVariant /\ s \in {"faq", "decline"}
    /\ c.head = NoProduct => n.avail = c.m.avail

LEMMA RememberIs ==
    ASSUME NEW t, NEW c, OnTrack(c, t, Variants), NEW s \in Scenarios, Presumes(c, s)
    PROVE  Recorded(c, s, t, Remember(c, s))
<1> DEFINE m == c.m
           r == Remember(c, s)
           confirmed == [Said(m, "confirmed_product") EXCEPT !.state = "awaiting_confirmation"]
           recommended == [Said(m, "gave_recommendation") EXCEPT !.state = "awaiting_confirmation"]
           Calm(n) == /\ n \in Memories /\ n.cart = m.cart /\ n.product = m.product
                      /\ n.avail = m.avail /\ n.ordered = m.ordered
                      /\ n.variant \in {m.variant, NoVariant}
                      /\ n.state \in {m.state} \cup (States \ {"cart_item_added", "confirmed"})
                      /\ n.last # "asked_delivery"
<1>1. m \in Memories /\ Good(m, Variants, After(t)) /\ ~m.ordered
      /\ (Unpicked(m) \/ c.t.intent \in Settled) /\ c \in Contexts
  BY DEF OnTrack, Good
<1>2. ASSUME NEW n, Calm(n) PROVE Recorded(c, s, t, n)
  BY <1>1, <1>2 DEF Recorded, Good, Answers
<1>3. ASSUME NEW l \in Lasts
      PROVE  /\ Said(m, l) \in Memories /\ Said(m, l).last = l
             /\ Said(m, l).variant = m.variant /\ Said(m, l).avail = m.avail
             /\ Said(m, l).cart = m.cart /\ Said(m, l).product = m.product
             /\ Said(m, l).state = m.state /\ Said(m, l).ordered = m.ordered
  BY <1>1, SaidIs
<1>4. {"other", "asked_continue", "asked_delivery", "confirmed_product", "gave_recommendation"} = Lasts
  BY DEF Lasts
<1>5. CASE s \in {"faq", "decline"}
  <2>1. r = m
    BY <1>5 DEF Remember
  <2>2. Unpicked(m)
    BY <1>1, <1>5 DEF Presumes
  <2> QED BY <1>1, <1>5, <2>1, <2>2, GoodAnswers DEF Recorded, Unpicked, Good
<1>6. CASE s \in {"variant_not_available", "delivery"}
  <2>1. r = [m EXCEPT !.last = "other"]
    BY <1>6 DEF Remember
  <2>2. Calm([m EXCEPT !.last = "other"])
    BY <1>1, <1>4 DEF Memories
  <2> HIDE DEF Calm
  <2> QED BY <1>2, <2>1, <2>2
<1>7. CASE s \in {"show_price", "confirm_order"}
  <2>1. r = Said(m, "other")
    BY <1>7 DEF Remember
  <2>2. Calm(Said(m, "other"))
    BY <1>3, <1>4
  <2> HIDE DEF Calm
  <2> QED BY <1>2, <2>1, <2>2
<1>8. CASE s = "ask_continue"
  <2>1. r = Said(m, "asked_continue")
    BY <1>8 DEF Remember
  <2>2. Calm(Said(m, "asked_continue"))
    BY <1>3, <1>4
  <2> HIDE DEF Calm
  <2> QED BY <1>2, <2>1, <2>2
<1>9. ASSUME NEW l \in Lasts \ {"asked_delivery"},
             NEW q \in {m.state} \cup (States \ {"cart_item_added", "confirmed"})
      PROVE  LET n == [Said(m, l) EXCEPT !.state = q]
             IN Calm(n) /\ n.last = l /\ n.state = q
  <2>1. q \in States
    BY <1>1 DEF Memories
  <2> QED BY <1>3, <1>9, <2>1 DEF Memories
<1>10. {"none", "awaiting_product", "awaiting_variant", "awaiting_confirmation"} =
          States \ {"cart_item_added", "confirmed"}
  BY DEF States
<1>11. CASE s = "greeting"
  <2>1. r = [Said(m, "other") EXCEPT !.state = "none"]
    BY <1>11 DEF Remember
  <2>2. Calm([Said(m, "other") EXCEPT !.state = "none"])
    BY <1>4, <1>9, <1>10
  <2> HIDE DEF Calm
  <2> QED BY <1>2, <2>1, <2>2
<1>12. CASE s = "show_products"
  <2> DEFINE q == IF m.state = "none" THEN "awaiting_product" ELSE m.state
  <2>1. r = [Said(m, "other") EXCEPT !.state = q]
    BY <1>3, <1>4, <1>12 DEF Remember
  <2>2. Calm([Said(m, "other") EXCEPT !.state = q])
    BY <1>4, <1>9, <1>10
  <2> HIDE DEF Calm, q
  <2> QED BY <1>2, <2>1, <2>2
<1>13. CASE s \in {"ask_variant", "price_with_variants"}
  <2> DEFINE n == NoChoice(Said(m, "other"))
             x == [n EXCEPT !.state = "awaiting_variant"]
  <2>1. r = x
    BY <1>13 DEF Remember
  <2>2. /\ n \in Memories /\ SameDeal(Said(m, "other"), n) /\ n.variant = NoVariant
        /\ n.product = Said(m, "other").product /\ n.avail = Said(m, "other").avail
    BY <1>3, <1>4, ForgetIs
  <2> HIDE DEF n
  <2>3. /\ x \in Memories /\ x.cart = n.cart /\ x.product = n.product /\ x.avail = n.avail
        /\ x.ordered = n.ordered /\ x.variant = n.variant /\ x.last = n.last
        /\ x.state = "awaiting_variant"
    BY <1>10, <2>2 DEF Memories
  <2> HIDE DEF x
  <2>4. Calm(x)
    BY <1>3, <1>4, <1>10, <2>2, <2>3 DEF SameDeal
  <2> HIDE DEF Calm
  <2> QED BY <1>2, <2>1, <2>4
<1>14. CASE s \in {"ask_delivery", "collect_checkout"}
  <2> DEFINE n == Said(m, "asked_delivery")
             x == [n EXCEPT !.state = "confirmed"]
  <2>1. r = x
    BY <1>14 DEF Remember
  <2>2. c.m.cart # {} /\ c.m.product # NoProduct
    BY <1>14 DEF Presumes
  <2>3. /\ n \in Memories /\ n.variant = m.variant /\ n.avail = m.avail /\ n.cart = m.cart
        /\ n.product = m.product /\ n.ordered = m.ordered /\ n.last = "asked_delivery"
    BY <1>3, <1>4
  <2> HIDE DEF n
  <2>4. /\ x \in Memories /\ x.cart = n.cart /\ x.product = n.product /\ x.avail = n.avail
        /\ x.ordered = n.ordered /\ x.variant = n.variant /\ x.last = n.last
        /\ x.state = "confirmed"
    BY <2>3 DEF Memories, States
  <2> HIDE DEF x
  <2> QED BY <1>1, <2>1, <2>2, <2>3, <2>4 DEF Recorded, Answers, Good
<1>15. Calm(confirmed) /\ Calm(recommended) /\ recommended.last = "gave_recommendation"
       /\ recommended.state = "awaiting_confirmation"
  BY <1>4, <1>9, <1>10
<1> HIDE DEF confirmed, recommended
<1>16. CASE s = "confirm_variant"
  <2>1. r = confirmed
    BY <1>16 DEF Remember, confirmed
  <2> HIDE DEF Calm
  <2> QED BY <1>2, <1>15, <2>1
<1>17. CASE s = "confirm_selection"
  <2> DEFINE title == IF c.t.names \in Products THEN c.t.names ELSE confirmed.title
             named == confirmed.named \/ c.t.size # NoSize
             x == [confirmed EXCEPT !.title = title, !.named = named]
  <2>1. r = x
    BY <1>15, <1>17 DEF Remember, confirmed
  <2>2. title \in MaybeProduct /\ named \in BOOLEAN
    BY <1>15 DEF Memories, MaybeProduct
  <2> HIDE DEF title, named
  <2>3. /\ x \in Memories /\ x.cart = confirmed.cart /\ x.product = confirmed.product
        /\ x.avail = confirmed.avail /\ x.ordered = confirmed.ordered
        /\ x.variant = confirmed.variant /\ x.last = confirmed.last /\ x.state = confirmed.state
    BY <1>15, <2>2 DEF Memories
  <2> HIDE DEF x
  <2>4. Calm(x)
    BY <1>15, <2>3
  <2> HIDE DEF Calm
  <2> QED BY <1>2, <2>1, <2>4
<1>18. CASE s \in {"recommend_product", "recommend_shown"}
  <2> DEFINE a == FoundVariants(c, c.head)
             x == [recommended EXCEPT !.product = c.head, !.title = c.head, !.avail = a]
  <2>1. r = IF c.head = NoProduct THEN recommended ELSE x
    BY <1>18 DEF Remember, recommended
  <2>2. c.head \in MaybeProduct /\ a \subseteq Variants /\ a \subseteq VariantsOf(c.head)
    BY <1>1, ContextParts DEF FoundVariants, VariantsOf
  <2> HIDE DEF a
  <2>3. /\ x \in Memories /\ x.cart = recommended.cart /\ x.product = c.head
        /\ x.avail = a /\ x.ordered = recommended.ordered
        /\ x.variant = recommended.variant /\ x.last = recommended.last
        /\ x.state = recommended.state
    BY <1>15, <2>2 DEF Memories
  <2> HIDE DEF x
  <2>4. c.head # NoProduct => Recorded(c, s, t, x)
    BY <1>1, <1>10, <1>15, <2>2, <2>3 DEF Recorded, Answers, Good
  <2>5. Recorded(c, s, t, recommended)
    <3> HIDE DEF Calm
    <3> QED BY <1>2, <1>15
  <2> QED BY <2>1, <2>4, <2>5
<1> HIDE DEF r
<1> QED BY <1>5, <1>6, <1>7, <1>8, <1>11, <1>12, <1>13, <1>14, <1>16, <1>17, <1>18
        DEF Scenarios, r

\* The variant inferred is in stock, and of what was found; for who sends the details of
\* the delivery it is one the message asks for.
LEMMA GuessIs ==
    ASSUME NEW t, NEW V, NEW c, OnTrack(c, t, V)
    PROVE  /\ Guess(c) \subseteq Stock
           /\ Guess(c) # {} => c.found # {}
           /\ c.t.intent = "details" => Guess(c) \subseteq Chosen(t)
<1>1. Guess(c) \subseteq Available(HeadVariants(c))
  BY DEF Guess
<1>2. Available(HeadVariants(c)) \subseteq HeadVariants(c) \cap Stock
  BY StockIs
<1>3. /\ c.head = NoProduct => HeadVariants(c) = {}
      /\ HeadVariants(c) \subseteq VariantsOf(c.head)
  BY DEF HeadVariants, FoundVariants
<1>4. c.head # NoProduct => c.found # {} /\ c.head \in c.found
  BY DEF OnTrack, Traces
<1>5. ASSUME c.t.intent = "details", NEW v \in Guess(c) PROVE v \in Chosen(t)
  <2>1. v \in Variants /\ v[1] = c.head /\ c.head \in c.found
    BY <1>1, <1>2, <1>3, <1>4 DEF VariantsOf
  <2>2. c.head \in Asked(t) \/ (c.t.size # NoSize /\ c.head \in Discussed)
    BY <1>5, <2>1 DEF OnTrack, Traces
  <2>3. CASE c.head \in Asked(t)
    BY <2>1, <2>3 DEF Asked, Chosen
  <2>4. CASE c.t.size # NoSize /\ c.head \in Discussed
    <3>1. v[2] = c.t.size
      BY <2>4, <1>5 DEF Guess
    <3>2. c.t.size = t.size
      BY <2>4 DEF OnTrack, ReadAs
    <3> QED BY <2>1, <2>4, <3>1, <3>2 DEF Chosen
  <2> QED BY <2>2, <2>3, <2>4
<1> QED BY <1>1, <1>2, <1>3, <1>4, <1>5

\* What is kept beside the variant.
SameOffer(m, n) ==
    /\ n.cart = m.cart /\ n.avail = m.avail /\ n.state = m.state /\ n.last = m.last
    /\ n.ordered = m.ordered

LEMMA LatchIs ==
    ASSUME NEW c \in Contexts, NEW s, NEW guess, guess \subseteq Variants
    PROVE  LET d == Latch(c, s, guess)
           IN /\ d \in Contexts /\ d.t = c.t /\ SameFinds(c, d)
              /\ SameOffer(c.m, d.m) /\ d.m.product = c.m.product
              /\ d.m.variant \in {c.m.variant} \cup guess
              /\ s \in {"faq", "decline"} => d.m = c.m
<1> DEFINE named == c.m.named \/ c.t.size # NoSize
           m == [c.m EXCEPT !.variant = The(guess), !.named = named]
<1>1. c.m \in Memories
  BY DEF Contexts
<1>2. guess # {} => The(guess) \in guess
  BY DEF The
<1>3. named \in BOOLEAN
  BY <1>1 DEF Memories
<1> HIDE DEF named
<1>4. guess # {} => /\ m \in Memories /\ SameOffer(c.m, m) /\ m.product = c.m.product
                    /\ m.variant \in guess
  BY <1>1, <1>2, <1>3 DEF Memories, SameOffer, MaybeVariant
<1> HIDE DEF m
<1>5. guess # {} => /\ Keep(c, m) \in Contexts /\ Keep(c, m).m = m /\ Keep(c, m).t = c.t
                    /\ SameFinds(c, Keep(c, m))
  BY <1>4, KeepIs
<1>6. \/ Latch(c, s, guess) = c
      \/ Latch(c, s, guess) = Keep(c, m) /\ guess # {} /\ s \notin {"faq", "decline"}
  BY DEF Latch, m, named
<1>7. SameFinds(c, c) /\ SameOffer(c.m, c.m)
  BY DEF SameFinds, Besides, SameOffer
<1> QED BY <1>4, <1>5, <1>6, <1>7

LEMMA SyncProductIs ==
    ASSUME NEW c \in Contexts, c.found # {} => c.head \in c.found
    PROVE  LET d == SyncProduct(c)
           IN /\ d \in Contexts /\ d.t = c.t /\ SameFinds(c, d) /\ SameOffer(c.m, d.m)
              /\ d.m.variant \in {c.m.variant, NoVariant}
              /\ d.m.product = c.m.product \/ (d.m.product = c.head /\ c.found # {})
              /\ d.m.product = NoProduct =>
                   c.m.product = NoProduct /\ (c.found = {} \/ d.m.variant = NoVariant)
<1> DEFINE x == [c.m EXCEPT !.variant = NoVariant]
           title == IF c.m.title = NoProduct THEN c.head ELSE c.m.title
           y == [c.m EXCEPT !.product = c.head, !.title = title]
<1>1. c.m \in Memories /\ c.head \in MaybeProduct /\ c.found \subseteq Products
  BY DEF Contexts
<1>2. title \in MaybeProduct
  BY <1>1 DEF Memories
<1> HIDE DEF title
<1>3. /\ x \in Memories /\ SameOffer(c.m, x) /\ x.product = c.m.product /\ x.variant = NoVariant
      /\ y \in Memories /\ SameOffer(c.m, y) /\ y.product = c.head /\ y.variant = c.m.variant
  BY <1>1, <1>2 DEF Memories, SameOffer, MaybeVariant
<1> HIDE DEF x, y
<1>4. ASSUME NEW n \in {x, y}
      PROVE  /\ Keep(c, n) \in Contexts /\ Keep(c, n).m = n /\ Keep(c, n).t = c.t
             /\ SameFinds(c, Keep(c, n))
  BY <1>3, KeepIs
<1>5. SyncProduct(c) = IF c.found = {} THEN c
                       ELSE IF c.m.state = "awaiting_product" /\ Cardinality(c.found) > 1
                       THEN Keep(c, x) ELSE IF Adopts(c, c.head) THEN Keep(c, y) ELSE c
  BY DEF SyncProduct, x, y, title
<1>6. SameFinds(c, c) /\ SameOffer(c.m, c.m)
  BY DEF SameFinds, Besides, SameOffer
<1>7. c.m.product = NoProduct => Adopts(c, c.head)
  BY DEF Adopts
<1>8. NoProduct \notin Products
  BY ReplyEngineAssumption DEF ReplyEngineAssumption
<1>9. CASE SyncProduct(c) = c
  <2>1. c.found = {} \/ c.m.product # NoProduct \/ Keep(c, x) = c \/ Keep(c, y) = c
    BY <1>5, <1>7, <1>9
  <2> QED BY <1>1, <1>3, <1>4, <1>6, <1>8, <1>9, <2>1
<1>10. CASE SyncProduct(c) = Keep(c, x)
  BY <1>3, <1>4, <1>10
<1>11. CASE SyncProduct(c) = Keep(c, y) /\ c.found # {}
  BY <1>1, <1>3, <1>4, <1>8, <1>11
<1> QED BY <1>5, <1>9, <1>10, <1>11

\* A turn that is over: its order is of what the customer agreed to.
Answered(c, t) ==
    /\ c \in Contexts /\ c.out \in Outs
    /\ Answers(c.m, Variants) /\ Unpicked(c.m)
    /\ c.m.ordered \/ Cleared(c, t)
    /\ \A i \in c.items : i.variant \in After(t) \/ Mixed(i)

LEMMA OverIsAnswered ==
    ASSUME NEW t, NEW c, Over(c, t)
    PROVE  Answered(c, t)
BY GoodAnswers DEF Over, Answered

LEMMA HaltedIsAnswered ==
    ASSUME NEW t, NEW c, Halted(c, t)
    PROVE  Answered(c, t)
BY GoodAnswers DEF Halted, Unsearched, Answered

\* A turn about to end in a reply.
Replied(c, t) ==
    /\ c \in Contexts /\ c.items = {} /\ ~c.m.ordered
    /\ Answers(c.m, After(t)) /\ Unpicked(c.m)

LEMMA RepliedIsAnswered ==
    ASSUME NEW t, NEW c, Replied(c, t)
    PROVE  Answered(Ends(c, "reply"), t)
<1>1. /\ Ends(c, "reply") \in Contexts /\ Ends(c, "reply").m = c.m
      /\ Ends(c, "reply").out = "reply" /\ Ends(c, "reply").items = c.items
  BY EndsIs DEF Replied, Outs
<1>2. Answers(c.m, Variants) /\ \A i \in c.m.cart : i.variant \in After(t) \/ Mixed(i)
  BY DEF Replied, Answers, Memories, Cartable
<1> QED BY <1>1, <1>2 DEF Replied, Answered, Cleared, Outs

LEMMA CreateOrderIsAnswered ==
    ASSUME NEW t, NEW c, Replied(c, t), NEW s,
           s = "confirm_order" /\ c.m.cart = {} => c.m.variant \in After(t) \cup {NoVariant}
    PROVE  Answered(CreateOrder(c, s), t)
<1> DEFINE m == [c.m EXCEPT !.ordered = TRUE]
           d == Ends(Keep(c, m), "order")
           e == [d EXCEPT !.items = Payload(c.m)]
<1>1. c.m \in Memories /\ Answers(c.m, After(t)) /\ c \in Contexts
  BY DEF Replied, Answers
<1>2. CASE s # "confirm_order"
  BY <1>2, RepliedIsAnswered DEF CreateOrder
<1>3. CASE s = "confirm_order"
  <2>1. CreateOrder(c, s) = e
    BY <1>3 DEF CreateOrder, Replied
  <2>2. Payload(c.m) \subseteq Cartable /\ \A i \in Payload(c.m) : i.variant \in After(t) \/ Mixed(i)
    <3>1. CASE c.m.cart # {}
      BY <1>1, <3>1 DEF Payload, Answers, Memories
    <3>2. CASE c.m.cart = {} /\ c.m.product # NoProduct /\ c.m.variant # NoVariant
      <4>1. Item(c.m) \in Cartable /\ Item(c.m).variant = c.m.variant
        BY <1>1, <3>2, ItemIs
      <4>2. Payload(c.m) = {Item(c.m)}
        BY <3>2 DEF Payload
      <4> QED BY <1>1, <1>3, <3>2, <4>1, <4>2 DEF Answers
    <3>3. CASE c.m.cart = {} /\ ~(c.m.product # NoProduct /\ c.m.variant # NoVariant)
      BY <3>3 DEF Payload
    <3> QED BY <3>1, <3>2, <3>3
  <2>3. /\ m \in Memories /\ m.product = c.m.product /\ m.variant = c.m.variant
        /\ m.avail = c.m.avail /\ m.cart = c.m.cart /\ m.state = c.m.state /\ m.last = c.m.last
        /\ m.ordered = TRUE
    BY <1>1 DEF Memories
  <2> HIDE DEF m
  <2>4. Keep(c, m) \in Contexts /\ Keep(c, m).m = m
    BY <1>1, <2>3, KeepIs
  <2>5. d \in Contexts /\ d.m = m /\ d.out = "order"
    BY <2>4, EndsIs DEF Outs
  <2> HIDE DEF d
  <2>6. e \in Contexts /\ e.m = m /\ e.out = "order" /\ e.items = Payload(c.m)
    BY <2>2, <2>5 DEF Contexts
  <2> HIDE DEF e
  <2>7. Answers(m, Variants) /\ Unpicked(m)
    BY <1>1, <2>3 DEF Replied, Answers, Unpicked, Memories, Cartable
  <2> QED BY <2>1, <2>2, <2>3, <2>6, <2>7 DEF Answered, Outs
<1> QED BY <1>2, <1>3

\* A reply to s, with what it leaves in the memory.
LEMMA SpeakIsAnswered ==
    ASSUME NEW t, Message(t), NEW c, OnTrack(c, t, Variants), NEW s \in Scenarios, Presumes(c, s)
    PROVE  Answered(Speak(c, s), t)
<1> DEFINE n == Remember(c, s)
           g == Guess(c)
           k == Keep(c, n)
           l == Latch(k, s, g)
           y == SyncProduct(l)
<1>1. Recorded(c, s, t, n)
  BY RememberIs
<1>2. g \subseteq Variants /\ (g # {} => c.found # {})
      /\ (c.t.intent = "details" => g \subseteq Chosen(t))
  BY GuessIs, StockIs
<1>3. Speak(c, s) = CreateOrder(y, s)
  BY DEF Speak
<1> HIDE DEF n, g
<1>4. k \in Contexts /\ k.m = n /\ k.t = c.t /\ SameFinds(c, k)
  BY <1>1, KeepIs DEF OnTrack, Recorded, Answers
<1> HIDE DEF k
<1>5. /\ l \in Contexts /\ l.t = k.t /\ SameFinds(k, l) /\ SameOffer(k.m, l.m)
      /\ l.m.product = k.m.product /\ l.m.variant \in {k.m.variant} \cup g
      /\ s \in {"faq", "decline"} => l.m = k.m
  BY <1>2, <1>4, LatchIs
<1> HIDE DEF l
<1>6. l.found = c.found /\ l.head = c.head /\ l.items = {}
  BY <1>4, <1>5 DEF SameFinds, Besides, OnTrack
<1>7. c.found # {} => c.head \in c.found
  BY DEF OnTrack, Traces
<1>8. /\ y \in Contexts /\ y.t = l.t /\ SameFinds(l, y) /\ SameOffer(l.m, y.m)
      /\ y.m.variant \in {l.m.variant, NoVariant}
      /\ y.m.product = l.m.product \/ (y.m.product = l.head /\ l.found # {})
      /\ y.m.product = NoProduct =>
           l.m.product = NoProduct /\ (l.found = {} \/ y.m.variant = NoVariant)
  BY <1>5, <1>6, <1>7, SyncProductIs
<1> HIDE DEF y
<1>9. /\ y.m.cart = n.cart /\ y.m.avail = n.avail /\ y.m.state = n.state /\ y.m.last = n.last
      /\ y.m.ordered = n.ordered /\ y.m.variant \in {n.variant, NoVariant} \cup g
      /\ y.m.product \in {n.product, c.head} /\ y.items = {} /\ y.m \in Memories
  BY <1>4, <1>5, <1>6, <1>8 DEF SameOffer, SameFinds, Besides, Contexts
<1>10. y.m.product = NoProduct =>
         y.m.avail = {} /\ y.m.variant = NoVariant /\ n.product = NoProduct
  <2>1. SUFFICES ASSUME y.m.product = NoProduct
                 PROVE  y.m.avail = {} /\ y.m.variant = NoVariant /\ n.product = NoProduct
    OBVIOUS
  <2>2. n.product = NoProduct /\ n.avail = {} /\ n.variant = NoVariant
    BY <1>1, <1>4, <1>5, <1>8, <2>1 DEF Recorded, Answers
  <2>3. c.found = {} \/ y.m.variant = NoVariant
    BY <1>6, <1>8, <2>1
  <2> QED BY <1>2, <1>9, <2>2, <2>3
<1>13. Unpicked(y.m)
  <2>1. SUFFICES ASSUME y.m.last = "asked_delivery", y.m.cart = {} PROVE y.m.variant = NoVariant
    BY DEF Unpicked
  <2>2. n.variant = NoVariant /\ s \in {"faq", "decline"}
    BY <1>1, <1>9, <2>1 DEF Recorded
  <2> QED BY <1>4, <1>5, <1>8, <2>2
<1>14. Replied(y, t)
  BY <1>1, <1>8, <1>9, <1>10, <1>13 DEF Replied, Recorded, Answers
<1>15. ASSUME s = "confirm_order", y.m.cart = {} PROVE y.m.variant \in After(t) \cup {NoVariant}
  <2>1. c.t.intent = "details" /\ c.t.details /\ (c.m.state = "confirmed" \/ c.m.last = "asked_delivery")
        /\ c.m.cart = {}
    BY <1>1, <1>9, <1>15 DEF Presumes, Recorded
  <2>2. Good(c.m, Variants, After(t)) /\ (Unpicked(c.m) \/ c.t.intent \in Settled)
        /\ ReadAs(c.t, t)
    BY DEF OnTrack
  <2>3. c.m.last = "asked_delivery" /\ Unpicked(c.m)
    BY <2>1, <2>2 DEF Good, Settled
  <2>4. c.m.variant = NoVariant
    BY <2>1, <2>3 DEF Unpicked
  <2>5. y.m.variant \in {NoVariant} \cup Chosen(t)
    BY <1>1, <1>2, <1>9, <2>1, <2>4 DEF Recorded
  <2>6. t.intent = "details" /\ t.details
    BY <2>1, <2>2 DEF ReadAs
  <2> QED BY <2>5, <2>6 DEF After, Yes, Chosen
<1> QED BY <1>3, <1>14, <1>15, CreateOrderIsAnswered

LEMMA SyncedIsReplied ==
    ASSUME NEW t, NEW V, NEW c, OnTrack(c, t, V), Unpicked(c.m)
    PROVE  Replied(SyncProduct(c), t)
<1> DEFINE y == SyncProduct(c)
<1>1. /\ c \in Contexts /\ c.items = {} /\ ~c.m.ordered /\ Good(c.m, V, After(t))
      /\ (c.found # {} => c.head \in c.found)
  BY DEF OnTrack, Traces
<1>2. /\ y \in Contexts /\ y.t = c.t /\ SameFinds(c, y) /\ SameOffer(c.m, y.m)
      /\ y.m.variant \in {c.m.variant, NoVariant}
      /\ y.m.product = c.m.product \/ (y.m.product = c.head /\ c.found # {})
      /\ y.m.product = NoProduct =>
           c.m.product = NoProduct /\ (c.found = {} \/ y.m.variant = NoVariant)
  BY <1>1, SyncProductIs
<1> HIDE DEF y
<1>3. Answers(y.m, After(t))
  BY <1>1, <1>2 DEF SameOffer, Good, Answers, Contexts
<1>4. Unpicked(y.m) /\ y.items = {} /\ ~y.m.ordered
  BY <1>1, <1>2 DEF SameOffer, Unpicked, SameFinds, Besides
<1>5. Replied(y, t)
  BY <1>2, <1>3, <1>4 DEF Replied
<1> QED BY <1>5 DEF y

LEMMA SpeakFreelyIsAnswered ==
    ASSUME NEW t, NEW c, OnTrack(c, t, Variants)
    PROVE  Answered(SpeakFreely(c), t)
<1> DEFINE k == Keep(c, Remember(c, "fallback"))
<1>1. Remember(c, "fallback") = Said(c.m, "other")
  BY DEF Remember
<1>2. OnTrack(k, t, Variants) /\ Unpicked(k.m)
  <2>1. /\ Good(Said(c.m, "other"), Variants, After(t)) /\ Unpicked(Said(c.m, "other"))
        /\ ~Said(c.m, "other").ordered
    BY SaidOnTrack
  <2> QED BY <1>1, <2>1, KeepOnTrack
<1>3. \/ SpeakFreely(c) = NothingFound(c) /\ c.t.intent \in {"browse", "ready", "price"}
      \/ SpeakFreely(c) = Ends(SyncProduct(c), "reply") /\ c.t.intent = "details"
      \/ SpeakFreely(c) = Ends(SyncProduct(k), "reply")
  BY DEF SpeakFreely
<1> HIDE DEF k
<1>4. CASE SpeakFreely(c) = Ends(SyncProduct(k), "reply")
  BY <1>2, <1>4, SyncedIsReplied, RepliedIsAnswered
<1>5. CASE c.t.intent \in {"browse", "ready", "price", "details"}
  <2>1. Unpicked(c.m)
    BY <1>5 DEF OnTrack, Settled
  <2>2. Answered(NothingFound(c), t) /\ Answered(Ends(SyncProduct(c), "reply"), t)
    BY <2>1, NothingFoundIsOver, OverIsAnswered, SyncedIsReplied, RepliedIsAnswered
  <2>3. Answered(Ends(SyncProduct(k), "reply"), t)
    BY <1>2, SyncedIsReplied, RepliedIsAnswered
  <2> QED BY <1>3, <2>2, <2>3
<1> QED BY <1>3, <1>4, <1>5

LEMMA BuildResponseIsAnswered ==
    ASSUME NEW t, Message(t), NEW c, OnTrack(c, t, Variants)
    PROVE  Answered(BuildResponse(c), t)
<1> DEFINE d == OfferVariants(c)
           s == Render(d)
<1>1. OnTrack(d, t, Variants)
  <2>1. "price_with_variants" \in Routes \cap Actions \cap Settled
        /\ "price_with_variants" # "details"
    BY DEF Routes, Settled, Actions
  <2>2. d \in {c, Route(c, "price_with_variants", "price_with_variants")}
    BY DEF OfferVariants
  <2> HIDE DEF d
  <2> QED BY <2>1, <2>2, RouteOnTrack
<1>2. BuildResponse(c) = IF s = "none" THEN SpeakFreely(d) ELSE Speak(d, s)
  BY DEF BuildResponse
<1> HIDE DEF d
<1>3. d.m.state \in {"cart_item_added", "confirmed"} => d.m.cart # {} /\ d.m.product # NoProduct
  BY <1>1 DEF OnTrack, Good
<1>4. s # "none" => s \in Scenarios /\ Presumes(d, s)
  BY <1>3, RenderIs
<1> HIDE DEF s
<1> QED BY <1>1, <1>2, <1>4, SpeakFreelyIsAnswered, SpeakIsAnswered

(***************************************************************************)
(* A yes: what is selected before the reply was on offer, or is asked for  *)
(* by the message, or is of another product than the one that is shown.    *)
(***************************************************************************)
\* Where a yes leaves a variant selected, it has changed nothing that matters.
LEMMA YesIsClassified ==
    ASSUME NEW t, Message(t), Remembered, t.slot = "confirmation", t.intent # "human",
           ~mem.ordered, mem.awaiting # "broaden"
    PROVE  LET a == ClassifyMessage(Context(mem, t))
           IN a.m.variant # NoVariant =>
                /\ a \in Contexts /\ a.t = t /\ ~a.wide /\ a.found = {} /\ a.out = "going"
                /\ a.m.product = mem.product /\ a.m.variant = mem.variant
                /\ a.m.state = mem.state
<1> DEFINE c == Context(mem, t)
           named == InCart(mem, t.mentions)
           calm == [mem EXCEPT !.awaiting = "other", !.pivot = NoProduct]
           left == [calm EXCEPT !.cart = Without(mem, The(named)), !.removalAsked = FALSE]
           meant == IF t.names \in Products \/ mem.pivot = NoProduct THEN t.names ELSE mem.pivot
           n == ClearSelection(left)
           heard == [t EXCEPT !.names = meant]
           x == AnswerCartRemoval(c)
           g == GreetingReset(x)
           Same(y) == /\ y \in Contexts /\ y.t = t /\ ~y.wide /\ y.found = {} /\ y.out = "going"
                      /\ y.m.product = mem.product /\ y.m.variant = mem.variant
                      /\ y.m.state = mem.state
           Waits(y) == y.t.slot = "confirmation" /\ y.out = "going" /\ ~y.m.ordered
<1>1. /\ c \in Contexts /\ c.m = mem /\ c.t = t /\ c.out = "going" /\ c.wide = FALSE
      /\ c.found = {} /\ mem \in Memories /\ t \in Heard
  BY ContextIs, MessageParts DEF Remembered, Good, Unsearched
<1>2. Waits(x) /\ x.m.awaiting # "broaden" /\ (x.m.variant = NoVariant \/ Same(x))
  <2>1. CASE mem.awaiting # "cart_removal"
    BY <1>1, <2>1 DEF AnswerCartRemoval
  <2>2. CASE mem.awaiting = "cart_removal" /\ Cardinality(named) # 1
    <3>1. x = Keep(c, calm)
      BY <1>1, <2>2 DEF AnswerCartRemoval
    <3>2. /\ calm \in Memories /\ calm.product = mem.product /\ calm.variant = mem.variant
          /\ calm.state = mem.state /\ calm.ordered = mem.ordered /\ calm.awaiting = "other"
      BY <1>1 DEF Memories, MaybeProduct
    <3> HIDE DEF calm, x
    <3>3. x \in Contexts /\ x.m = calm /\ x.t = t /\ SameFinds(c, x)
      BY <1>1, <3>1, <3>2, KeepIs
    <3> QED BY <1>1, <3>2, <3>3 DEF SameFinds, Besides
  <2>3. CASE mem.awaiting = "cart_removal" /\ Cardinality(named) = 1
    <3>1. x = Hear(Keep(c, n), heard)
      BY <1>1, <2>3 DEF AnswerCartRemoval, Hear, Keep
    <3>2. /\ n.variant = NoVariant /\ n.ordered = mem.ordered /\ n.awaiting = "other"
      BY <1>1 DEF ClearSelection, NoChoice, Memories
    <3>3. heard.slot = t.slot
      BY <1>1 DEF Heard
    <3> HIDE DEF n, heard, x
    <3>4. x.m = n /\ x.t = heard /\ x.out = c.out
      BY <1>1, <3>1 DEF Hear, Keep, Contexts
    <3> QED BY <1>1, <3>2, <3>3, <3>4
  <2> QED BY <2>1, <2>2, <2>3
<1>3. AnswerBroaden(x) = x
  BY <1>2 DEF AnswerBroaden
<1>4. x \in Contexts
  <2>1. Recalled(x, t)
    BY AnswerCartRemovalRecalls
  <2> QED BY <2>1 DEF Recalled, Unsearched
<1> HIDE DEF x
<1>5. Waits(g) /\ (g.m.variant = NoVariant \/ Same(g))
  <2> DEFINE k == [NoMemory EXCEPT !.pivot = x.m.pivot, !.removalAsked = x.m.removalAsked]
  <2>1. g = x \/ g = Keep(x, k)
    BY DEF GreetingReset
  <2>2. k.variant = NoVariant /\ ~k.ordered
    BY NoMemoryIs DEF Memories
  <2> HIDE DEF k, g
  <2>3. Keep(x, k).m = k /\ Keep(x, k).t = x.t /\ Keep(x, k).out = x.out
    BY <1>4 DEF Keep, Contexts
  <2> QED BY <1>2, <2>1, <2>2, <2>3
<1>6. PostOrder(g) = g
  BY <1>5 DEF PostOrder
<1> HIDE DEF g
<1>7. Pivot(KeepOnly(AddsToCart(CoerceRemovalCue(g)))) = g
  <2>1. CoerceRemovalCue(g) = g
    BY <1>5 DEF CoerceRemovalCue
  <2>2. AddsToCart(g) = g
    BY <1>5 DEF AddsToCart
  <2>3. KeepOnly(g) = g
    BY <1>5 DEF KeepOnly
  <2>4. Pivot(g) = g
    BY <1>5 DEF Pivot
  <2> QED BY <2>1, <2>2, <2>3, <2>4
<1>8. ClassifyMessage(c) = g
  BY <1>1, <1>2, <1>3, <1>5, <1>6, <1>7 DEF ClassifyMessage, Policy, Going, x, g
<1> QED BY <1>5, <1>8

LEMMA UnavailableForgets ==
    ASSUME NEW c \in Contexts
    PROVE  VariantUnavailable(c) = c \/ VariantUnavailable(c).m.variant = NoVariant
<1> DEFINE m == [NoChoice(c.m) EXCEPT !.product = c.head, !.last = "other"]
           about(n) == [Keep(c, n) EXCEPT !.first = FALSE]
           here == Available(FoundVariants(c, c.head))
           all == Available(VariantsOf(c.head))
           x == [m EXCEPT !.avail = here]
           y == [m EXCEPT !.state = "awaiting_product"]
           z == [m EXCEPT !.state = "awaiting_product", !.avail = all]
<1>1. SUFFICES ASSUME VariantUnavailable(c) # c
               PROVE  VariantUnavailable(c).m.variant = NoVariant
  OBVIOUS
<1>2. VariantUnavailable(c) \in {Unavailable(about(x)), Unavailable(about(z)),
                                 Route(about(y), "out_of_stock", "out_of_stock")}
  BY <1>1 DEF VariantUnavailable
<1>3. c.m \in Memories
  BY DEF Contexts
<1>4. \A n \in {x, y, z} : n.variant = NoVariant
  <2>1. /\ NoChoice(c.m) \in Memories /\ NoChoice(c.m).variant = NoVariant
    BY <1>3, ForgetIs
  <2>2. x.variant = NoVariant /\ y.variant = NoVariant /\ z.variant = NoVariant
    BY <2>1 DEF Memories
  <2> QED BY <2>2
<1> HIDE DEF x, y, z
<1>5. ASSUME NEW n, NEW i, NEW a PROVE Route(about(n), i, a).m = n
  BY DEF Route, Keep, Contexts
<1> QED BY <1>2, <1>4, <1>5 DEF Unavailable

LEMMA QuestionGoesOn ==
    ASSUME NEW c \in Contexts, ProductQuestion(c).out = "going"
    PROVE  ProductQuestion(c) = c
<1>1. ASSUME NEW m, NEW o \in {"reply", "handoff"}
      PROVE  Ends(Keep(c, m), o).out # "going" /\ Ends(c, o).out # "going"
  BY <1>1 DEF Ends, Keep, Contexts
<1> QED BY <1>1 DEF ProductQuestion

\* Without a photo, the memory is as it was when the variant is looked for: a variant that is
\* on offer is not searched for, and nothing named, nothing found.
LEMMA YesFindsNothing ==
    ASSUME NEW a \in Contexts, a.t.slot = "confirmation", a.t.photo = NoProduct, ~a.wide,
           a.found = {}, a.out = "going", a.m.product # NoProduct, a.m.variant # NoVariant,
           a.m.state = "awaiting_confirmation" \/ a.t.names = NoProduct,
           SearchAndFilter(a).out = "going"
    PROVE  SearchAndFilter(a) \in Contexts /\ SearchAndFilter(a).m = a.m
<1> DEFINE f == FocusGate(a)
<1>1. Media(a) = a
  BY DEF Media
<1>2. NarrowGate(a) = a
  BY DEF NarrowGate, Narrows
<1>3. SearchAndFilter(a) = Search(f)
  BY <1>1, <1>2 DEF SearchAndFilter, Going
<1>4. f \in Contexts /\ f.m = a.m /\ f.t = a.t /\ Besides(a, f)
  <2>1. a.m.product \in Products
    BY DEF Contexts, Memories, MaybeProduct
  <2> QED BY <2>1, FoundIs DEF FocusGate, Besides
<1> HIDE DEF f
<1>5. CASE f.found # {}
  BY <1>3, <1>4, <1>5 DEF Search
<1>6. CASE f.found = {} /\ a.m.state = "awaiting_confirmation"
  <2>1. ~ShouldSearch(f)
    BY <1>4, <1>6 DEF ShouldSearch
  <2>2. Search(f) = f
    BY <1>4, <2>1 DEF Search, Besides
  <2> QED BY <1>3, <1>4, <2>2
<1>7. CASE f.found = {} /\ a.t.names = NoProduct
  <2>1. SearchProducts(f) = {}
    BY <1>4, <1>7, ReplyEngineAssumption DEF SearchProducts, CheckAll, ReplyEngineAssumption
  <2>2. Hits(f) = {}
    BY <2>1 DEF Hits
  <2>3. Sized(f).found = {}
    <3>1. \A s : {p \in Hits(f) : s \in Carried[p]} = {}
      BY <2>2
    <3>2. \A S \in SUBSET Products : Found(f, S).found = S
      BY <1>4, FoundIs
    <3>3. Found(f, {}).found = {}
      BY <3>2
    <3> QED BY <2>2, <3>1, <3>3 DEF Sized
  <2>4. Search(f) \in {f, NothingFound(f)}
    BY <1>4, <2>3 DEF Search
  <2>5. NothingFound(f).out # "going"
    <3>1. ASSUME NEW m, NEW o \in {"reply", "handoff"}
          PROVE  Ends(Keep(f, m), o).out # "going" /\ Ends(f, o).out # "going"
      BY <1>4, <3>1 DEF Ends, Keep, Contexts
    <3> QED BY <3>1 DEF NothingFound
  <2> QED BY <1>3, <1>4, <2>4, <2>5
<1> QED BY <1>5, <1>6, <1>7

\* What a turn that goes on has selected before the reply.
LEMMA ResolvesOnTrack ==
    ASSUME NEW t, Message(t), Remembered
    PROVE  LET a == ClassifyMessage(Context(mem, t))
               b == SearchAndFilter(a)
               d == ProductQuestion(VariantUnavailable(b))
           IN a.out = "going" /\ b.out = "going" /\ d.out = "going" =>
                OnTrack(ResolveVariant(d), t, Variants)
<1> DEFINE a == ClassifyMessage(Context(mem, t))
           b == SearchAndFilter(a)
           d == ProductQuestion(VariantUnavailable(b))
           v == d.m.variant
<1>1. SUFFICES ASSUME a.out = "going", b.out = "going", d.out = "going"
               PROVE  OnTrack(ResolveVariant(d), t, Variants)
  OBVIOUS
<1>2. Fresh(a, t) /\ Cleared(a, t)
  BY <1>1, ClassifyMessageIs DEF Halted, Outs
<1>3. t.intent # "human"
  <2>1. Context(mem, t) \in Contexts /\ Context(mem, t).t = t
    BY ContextIs
  <2> QED BY <1>1, <2>1 DEF ClassifyMessage, Policy, Going, Ends, Contexts
<1>4. ~mem.ordered /\ mem.awaiting # "broaden" /\ t.slot = "confirmation" /\ a.m.variant # NoVariant =>
        /\ a \in Contexts /\ a.t = t /\ ~a.wide /\ a.found = {}
        /\ a.m.product = mem.product /\ a.m.variant = mem.variant /\ a.m.state = mem.state
  BY <1>3, YesIsClassified
<1> HIDE DEF a
<1>5. /\ Begun(a, t, Held(t)) /\ a.found = {}
      /\ a.m.variant \in Chosen(t) \cup {NoVariant} => Begun(a, t, Chosen(t))
  BY <1>2, FreshIsBegun DEF Fresh, Unsearched
<1>6. ASSUME NEW V, Begun(a, t, V) PROVE OnTrack(b, t, V) /\ OnTrack(d, t, V)
  <2>1. OnTrack(b, t, V)
    BY <1>1, <1>5, <1>6, SearchAndFilterIs DEF Over, Outs
  <2> HIDE DEF b
  <2>2. OnTrack(d, t, V) \/ Over(d, t)
    BY <2>1, VariantUnavailableOnTrack, ProductQuestionOnTrack
  <2> QED BY <1>1, <2>1, <2>2 DEF Over, Outs
<1>7. OnTrack(b, t, Held(t)) /\ OnTrack(d, t, Held(t))
  BY <1>5, <1>6
<1>8. b \in Contexts /\ VariantUnavailable(b) \in Contexts
  <2>1. OnTrack(VariantUnavailable(b), t, Held(t))
    BY <1>7, VariantUnavailableOnTrack
  <2> QED BY <1>7, <2>1 DEF OnTrack
<1>9. d = VariantUnavailable(b) /\ (v # NoVariant => d = b)
  BY <1>1, <1>8, QuestionGoesOn, UnavailableForgets
<1>10. ASSUME d.t.slot = "confirmation", d.m.state = "awaiting_confirmation",
              d.m.product # NoProduct, v # NoVariant
       PROVE  v \in After(t) \/ d.m.product # v[1]
  <2>1. t.slot = "confirmation" /\ v \in Variants
    BY <1>7, <1>10 DEF OnTrack, ReadAs, Good, Memories, MaybeVariant
  <2>2. CASE v \in Chosen(t)
    BY <2>1, <2>2 DEF After, Yes
  <2>3. CASE v \notin Chosen(t)
    <3>1. v = mem.variant /\ ~mem.ordered
      BY <1>7, <1>10, <2>3 DEF OnTrack, Good, Held
    <3>2. a.m.variant \notin Chosen(t) \cup {NoVariant}
      <4>1. a.m.variant \in Chosen(t) \cup {NoVariant} => OnTrack(d, t, Chosen(t))
        BY <1>5, <1>6
      <4> QED BY <1>10, <2>3, <4>1 DEF OnTrack, Good
    <3>3. CASE mem.awaiting = "broaden" \/ (~Offered(mem) /\ t.names # NoProduct)
      BY <2>1, <3>1, <3>3 DEF After, Presumed
    <3>4. CASE ~(mem.awaiting = "broaden" \/ (~Offered(mem) /\ t.names # NoProduct))
      <4>1. /\ a \in Contexts /\ a.t = t /\ ~a.wide /\ a.found = {}
            /\ a.m.product = mem.product /\ a.m.variant = mem.variant /\ a.m.state = mem.state
        BY <1>4, <2>1, <3>1, <3>2, <3>4
      <4>2. CASE t.photo # NoProduct
        <5>1. Media(a).m.product = t.photo /\ Media(a).found # {} /\ Begun(Media(a), t, Held(t))
          BY <1>5, <4>1, <4>2, MediaBegins
        <5>2. Media(a).out = "going"
          BY <5>1 DEF Begun, OnTrack
        <5> DEFINE n == Media(a)
        <5>3. b = n
          <6>1. NarrowGate(n) = n /\ FocusGate(n) = n /\ Search(n) = n
            <7> HIDE DEF n
            <7> QED BY <5>1 DEF NarrowGate, FocusGate, Search, n
          <6> QED BY <5>2, <6>1 DEF SearchAndFilter, Going
        <5>4. v[1] # t.photo
          BY <2>1, <2>3 DEF Chosen
        <5> QED BY <1>9, <1>10, <5>1, <5>3, <5>4
      <4>3. CASE t.photo = NoProduct
        <5>1. mem.product # NoProduct /\ mem.variant # NoVariant
          BY <1>10, <3>1 DEF Remembered, Good
        <5>2. b.m = a.m
          BY <1>1, <2>1, <3>4, <4>1, <4>3, <5>1, YesFindsNothing DEF Offered
        <5>3. Offered(mem) /\ d.m.product = mem.product
          BY <1>9, <1>10, <3>1, <4>1, <5>1, <5>2 DEF Offered
        <5>4. CASE mem.product = mem.variant[1]
          BY <2>1, <3>1, <4>3, <5>3, <5>4 DEF After, Yes, OnOffer
        <5> QED BY <3>1, <5>3, <5>4
      <4> QED BY <4>2, <4>3
    <3> QED BY <3>3, <3>4
  <2> QED BY <2>2, <2>3
<1>11. Steady(d, t)
  BY <1>10 DEF Steady
<1> HIDE DEF d
<1> QED BY <1>7, <1>11, ResolveVariantOnTrack

\* A whole turn.
LEMMA ProcessIsAnswered ==
    ASSUME NEW t, Message(t), Remembered
    PROVE  Answered(Process(mem, t), t)
<1> DEFINE a == ClassifyMessage(Context(mem, t))
           b == SearchAndFilter(a)
           d == ProductQuestion(VariantUnavailable(b))
<1>1. (Fresh(a, t) /\ Cleared(a, t)) \/ Halted(a, t)
  BY ClassifyMessageIs
<1>2. Process(mem, t) = IF a.out # "going" THEN a ELSE IF b.out # "going" THEN b
                        ELSE IF d.out # "going" THEN d ELSE BuildResponse(ResolveVariant(d))
  BY DEF Process, Going
<1>5. a.out = "going" /\ b.out = "going" /\ d.out = "going" =>
        OnTrack(ResolveVariant(d), t, Variants)
  BY ResolvesOnTrack
<1> HIDE DEF a
<1>3. CASE Halted(a, t)
  BY <1>2, <1>3, HaltedIsAnswered DEF Halted, Outs
<1>4. CASE Fresh(a, t) /\ Cleared(a, t)
  <2>1. Begun(a, t, Held(t)) /\ a.found = {} /\ a.out = "going"
    BY <1>4, FreshIsBegun DEF Fresh, Unsearched
  <2>2. OnTrack(b, t, Held(t)) \/ Over(b, t)
    BY <2>1, SearchAndFilterIs
  <2> HIDE DEF b
  <2>3. CASE Over(b, t)
    BY <1>2, <2>1, <2>3, OverIsAnswered DEF Over, Outs
  <2>4. CASE OnTrack(b, t, Held(t))
    <3>1. OnTrack(d, t, Held(t)) \/ Over(d, t)
      BY <2>4, VariantUnavailableOnTrack, ProductQuestionOnTrack
    <3>2. b.out = "going"
      BY <2>4 DEF OnTrack
    <3> HIDE DEF d
    <3>3. CASE Over(d, t)
      BY <1>2, <2>1, <3>2, <3>3, OverIsAnswered DEF Over, Outs
    <3>4. CASE OnTrack(d, t, Held(t))
      <4>1. d.out = "going"
        BY <3>4 DEF OnTrack
      <4>2. Answered(BuildResponse(ResolveVariant(d)), t)
        BY <1>5, <2>1, <3>2, <4>1, BuildResponseIsAnswered
      <4> QED BY <1>2, <2>1, <3>2, <4>1, <4>2
    <3> QED BY <3>1, <3>3, <3>4
  <2> QED BY <2>2, <2>3, <2>4
<1> QED BY <1>1, <1>3, <1>4

(***************************************************************************)
(* A refusal: nothing is found, and nothing new is chosen.                 *)
(***************************************************************************)
\* What is on offer is alone.
Alone(m) == m.variant = NoVariant \/ m.avail = {m.variant}

\* The memory before the reply to a refusal: as it was, or afresh.
Kept(m) == m = mem \/ (m.variant = NoVariant /\ m.product = NoProduct /\ m.cart = {} /\ ~m.ordered)

LEMMA RefusalParts ==
    ASSUME NEW t, Message(t), Remembered, Refusal(t) # {}
    PROVE  /\ t.slot = "rejection" /\ t.intent \notin {"human", "question"} /\ t.intent \in Intents
           /\ t.names = NoProduct /\ t.photo = NoProduct /\ t.size = NoSize
           /\ ~mem.ordered /\ mem.state = "awaiting_confirmation" /\ mem.variant # NoVariant
           /\ mem.product # NoProduct /\ mem.awaiting = "other"
BY DEF Refusal, Offered, Remembered, Good, Message, Readings

LEMMA RefusalIsClassified ==
    ASSUME NEW t, Message(t), Remembered, Refusal(t) # {}
    PROVE  LET a == ClassifyMessage(Context(mem, t))
           IN a.t = t /\ a.wide = FALSE /\ a.out = "going" /\ Kept(a.m)
<1> DEFINE c == Context(mem, t)
           g == [NoMemory EXCEPT !.pivot = c.m.pivot, !.removalAsked = c.m.removalAsked]
           d == GreetingReset(c)
<1>1. /\ c \in Contexts /\ c.m = mem /\ c.t = t /\ c.out = "going" /\ c.wide = FALSE
      /\ mem \in Memories
  BY ContextIs DEF Remembered, Good
<1>2. Policy(c) = c /\ AnswerBroaden(AnswerCartRemoval(c)) = c
  BY <1>1, RefusalParts DEF Policy, AnswerCartRemoval, AnswerBroaden
<1> HIDE DEF c
<1>3. g \in Memories /\ g.variant = NoVariant /\ g.product = NoProduct /\ g.cart = {} /\ ~g.ordered
  BY <1>1, NoMemoryIs DEF Memories
<1> HIDE DEF g
<1>4. /\ Keep(c, g) \in Contexts /\ Keep(c, g).m = g /\ Keep(c, g).t = c.t
      /\ SameFinds(c, Keep(c, g))
  BY <1>1, <1>3, KeepIs
<1>5. d = c \/ d = Keep(c, g)
  BY DEF GreetingReset, g
<1> HIDE DEF d
<1>6. d.t = t /\ d.out = "going" /\ d.wide = FALSE /\ Kept(d.m) /\ ~d.m.ordered
  BY <1>1, <1>3, <1>4, <1>5, RefusalParts DEF Kept, SameFinds, Besides
<1>7. PostOrder(d) = d
  BY <1>6 DEF PostOrder
<1>8. Pivot(KeepOnly(AddsToCart(CoerceRemovalCue(d)))) = d
  BY <1>6, RefusalParts DEF Pivot, KeepOnly, AddsToCart, CoerceRemovalCue
<1>9. ClassifyMessage(c) = d
  BY <1>1, <1>2, <1>6, <1>7, <1>8 DEF ClassifyMessage, Going, d
<1> QED BY <1>6, <1>9 DEF c

\* A refusal finds nothing.
LEMMA RefusalFindsNothing ==
    ASSUME NEW t, Message(t), Remembered, Refusal(t) # {}, NEW c \in Contexts, c.t = t,
           c.wide = FALSE, c.found = {}, c.out = "going", Kept(c.m)
    PROVE  \/ SearchAndFilter(c) = c
           \/ SearchAndFilter(c) = NothingFound(c) /\ Alone(c.m)
<1>1. c.m = mem \/ c.m.product = NoProduct
  BY DEF Kept
<1>2. Media(c) = c /\ NarrowGate(c) = c /\ FocusGate(c) = c
  BY RefusalParts DEF Media, NarrowGate, Narrows, FocusGate, VariantQuestionOnFocus
<1>3. SearchAndFilter(c) = Search(c)
  BY <1>2 DEF SearchAndFilter, Going
<1>4. Sized(c).found = {}
  <2>1. Hits(c) = {}
    <3>1. CheckAll(NoProduct) = {}
      BY ReplyEngineAssumption DEF CheckAll, ReplyEngineAssumption
    <3>2. SearchProducts(c) = {}
      BY <3>1, RefusalParts DEF SearchProducts
    <3> QED BY <3>2 DEF Hits
  <2>2. Sized(c) = Found(c, {})
    BY <2>1, RefusalParts DEF Sized
  <2> QED BY <2>2, FoundIs
<1>5. Search(c) \in {c, NothingFound(c)}
  BY <1>4, RefusalParts DEF Search
<1>6. c.m = mem => Search(c) = c
  BY RefusalParts DEF Search, ShouldSearch
<1> QED BY <1>3, <1>5, <1>6 DEF Kept, Alone

\* Rerouting leaves the memory and the finds.
LEMMA RouteKeeps ==
    ASSUME NEW c \in Contexts, NEW i, NEW a
    PROVE  Route(c, i, a).m = c.m /\ Route(c, i, a).found = c.found
BY DEF Contexts, Route

\* What is on offer when a refusal has been taken in.
LEMMA RefusalResolves ==
    ASSUME NEW t, Message(t), Remembered, Refusal(t) # {}, NEW c, OnTrack(c, t, Held(t)), c.t = t,
           c.found = {}, Kept(c.m)
    PROVE  LET e == ResolveVariant(c)
           IN Alone(e.m) /\ e.found = {}
<1> DEFINE m == [NoChoice(c.m) EXCEPT !.state = "awaiting_product"]
           d == Route(Keep(c, m), "decline", "decline")
           fills(x) == PicksVariant(FillsVariant(ConfirmsProduct(CheckOut(AddToCart(
                         AskedForAnother(x))))))
<1>1. c \in Contexts /\ c.m \in Memories /\ Good(c.m, Held(t), After(t))
  BY DEF OnTrack, Good
<1>2. ResolveVariant(c) = fills(DeclineOffer(c))
  BY RefusalParts DEF ResolveVariant, Intents
<1>3. ASSUME NEW x, x.t.slot = "rejection",
             x.t.intent = "decline" \/ x.m.cart = {}
      PROVE  fills(x) = PicksVariant(x)
  <2>1. AskedForAnother(x) = x /\ AddToCart(x) = x /\ CheckOut(x) = x
    BY <1>3 DEF AskedForAnother, AddToCart, CheckOut
  <2>2. ConfirmsProduct(x) = x /\ FillsVariant(x) = x
    BY <1>3 DEF ConfirmsProduct, FillsVariant
  <2> QED BY <2>1, <2>2
<1> HIDE DEF fills
<1>4. CASE c.m = mem
  <2>1. DeclineOffer(c) = d
    BY <1>4, RefusalParts DEF DeclineOffer
  <2>2. NoChoice(c.m) \in Memories /\ NoChoice(c.m).variant = NoVariant
        /\ NoChoice(c.m).avail = c.m.avail
    BY <1>1, ForgetIs
  <2>3. m \in Memories /\ m.variant = NoVariant /\ m.avail = c.m.avail /\ m.state = "awaiting_product"
    BY <2>2 DEF Memories, States
  <2> HIDE DEF m
  <2>4. Keep(c, m) \in Contexts /\ Keep(c, m).m = m /\ Keep(c, m).t = t /\ SameFinds(c, Keep(c, m))
    BY <1>1, <2>3, KeepIs
  <2>5. /\ d \in Contexts /\ d.m = m /\ d.t = [t EXCEPT !.intent = "decline"]
        /\ d.t.intent = "decline" /\ SameFinds(Keep(c, m), d)
    BY <2>4, RouteIs DEF Routes, Actions
  <2>6. t \in Heard
    BY MessageParts
  <2>7. d.t.slot = "rejection" /\ d.t.size = NoSize /\ d.found = {}
    BY <2>4, <2>5, <2>6, RefusalParts DEF Heard, SameFinds
  <2> HIDE DEF d
  <2>8. ResolveVariant(c) = PicksVariant(d)
    BY <1>2, <1>3, <2>1, <2>5, <2>7
  <2>9. PicksVariant(d) \in {d, Choose(d, d.m.avail)}
    BY DEF PicksVariant
  <2>10. CASE PicksVariant(d) = d
    BY <2>3, <2>5, <2>7, <2>8, <2>10 DEF Alone
  <2>11. CASE PicksVariant(d) = Choose(d, d.m.avail)
    <3> DEFINE S == d.m.avail
               v == The(S)
    <3>1. S \subseteq Variants
      BY <2>5, <2>3 DEF Memories
    <3>2. {w \in S : w[2] = d.t.size} = {}
      <4>1. ASSUME NEW w \in Variants PROVE w[2] \in Sizes
        BY ReplyEngineAssumption DEF ReplyEngineAssumption, Variants
      <4>2. NoSize \notin Sizes
        BY ReplyEngineAssumption DEF ReplyEngineAssumption
      <4> QED BY <2>7, <3>1, <4>1, <4>2
    <3>3. Choose(d, S) = IF Cardinality(S) = 1 THEN Offer(d, v) ELSE Ask(d)
      BY <3>2 DEF Choose
    <3>4. CASE Cardinality(S) # 1
      <4> DEFINE n == [m EXCEPT !.state = "awaiting_variant"]
      <4>1. n \in Memories /\ n.variant = NoVariant
        BY <2>3 DEF Memories, States
      <4> HIDE DEF n
      <4>2. Keep(d, n) \in Contexts /\ Keep(d, n).m = n /\ SameFinds(d, Keep(d, n))
        BY <2>5, <4>1, KeepIs
      <4>3. Ask(d) = Route(Keep(d, n), "ask_variant", "ask_variant")
        BY <2>5 DEF Ask, n
      <4>4. Ask(d).m = n /\ Ask(d).found = {}
        BY <2>7, <4>2, <4>3, RouteKeeps DEF SameFinds
      <4> QED BY <2>8, <2>11, <3>3, <3>4, <4>1, <4>4 DEF Alone
    <3>5. CASE Cardinality(S) = 1
      <4>1. IsFiniteSet(S)
        BY <3>1, CatalogueIsFinite, FS_Subset
      <4>2. S = {v}
        <5>1. PICK x : S = {x}
          BY <3>5, <4>1, FS_Singleton
        <5> QED BY <5>1 DEF The
      <4> HIDE DEF v
      <4> DEFINE n == [m EXCEPT !.variant = v, !.named = TRUE, !.state = "awaiting_confirmation"]
      <4>3. n \in Memories /\ n.variant = v /\ n.avail = S
        BY <2>3, <2>5, <3>1, <4>2 DEF Memories, States, MaybeVariant
      <4> HIDE DEF n
      <4>4. Keep(d, n) \in Contexts /\ Keep(d, n).m = n /\ SameFinds(d, Keep(d, n))
        BY <2>5, <4>3, KeepIs
      <4>5. Offer(d, v) = ConfirmIntent(Keep(d, n))
        BY <2>5 DEF Offer, Select, n
      <4>6. Offer(d, v) \in {Route(Keep(d, n), "confirm_variant", "confirm_variant"),
                              Route(Keep(d, n), "choice", "confirm_selection")}
        BY <4>5 DEF ConfirmIntent
      <4>7. Offer(d, v).m = n /\ Offer(d, v).found = {}
        BY <2>7, <4>4, <4>6, RouteKeeps DEF SameFinds
      <4> QED BY <2>8, <2>11, <3>3, <3>5, <4>2, <4>3, <4>7 DEF Alone
    <3> QED BY <3>4, <3>5
  <2> QED BY <2>9, <2>10, <2>11
<1>5. CASE c.m.product = NoProduct /\ c.m.variant = NoVariant /\ c.m.cart = {}
  <2>1. DeclineOffer(c) = c
    BY <1>5 DEF DeclineOffer
  <2>2. ResolveVariant(c) = PicksVariant(c)
    BY <1>2, <1>3, <1>5, <2>1, RefusalParts
  <2>3. PicksVariant(c) = c
    BY <1>5 DEF PicksVariant, Unchosen
  <2> QED BY <1>5, <2>2, <2>3 DEF Alone
<1> QED BY <1>4, <1>5 DEF Kept

LEMMA EndingKeepsAlone ==
    ASSUME NEW c \in Contexts, Alone(c.m)
    PROVE  /\ \A s : Alone(CreateOrder(c, s).m)
           /\ Alone(NothingFound(c).m)
           /\ Alone(Ends(c, "reply").m)
<1> DEFINE m == [c.m EXCEPT !.ordered = TRUE]
           n == Said(c.m, "other")
<1>1. c.m \in Memories
  BY DEF Contexts
<1>2. ASSUME NEW d \in Contexts, NEW o PROVE Ends(d, o).m = d.m
  BY DEF Ends, Contexts
<1>3. m \in Memories /\ n \in Memories /\ Alone(m) /\ Alone(n)
  <2>1. m \in Memories /\ m.variant = c.m.variant /\ m.avail = c.m.avail
    BY <1>1 DEF Memories
  <2>2. n \in Memories /\ n.variant = c.m.variant /\ n.avail = c.m.avail
    BY <1>1, SaidIs DEF Lasts
  <2> HIDE DEF m, n
  <2> QED BY <2>1, <2>2 DEF Alone
<1> HIDE DEF m, n
<1>4. Keep(c, m) \in Contexts /\ Keep(c, m).m = m /\ Keep(c, n) \in Contexts /\ Keep(c, n).m = n
  BY <1>3, KeepIs
<1>5. ASSUME NEW s PROVE Alone(CreateOrder(c, s).m)
  <2> DEFINE d == Ends(Keep(c, m), "order")
  <2>1. d \in Contexts /\ d.m = m
    BY <1>4, EndsIs DEF Outs
  <2>2. [d EXCEPT !.items = Payload(c.m)].m = d.m
    <3> HIDE DEF d
    <3> QED BY <2>1 DEF Contexts
  <2>3. CreateOrder(c, s) \in {[d EXCEPT !.items = Payload(c.m)], Ends(c, "reply")}
    BY DEF CreateOrder, m
  <2> QED BY <1>2, <1>3, <2>1, <2>2, <2>3
<1>6. NothingFound(c) \in {Ends(Keep(c, n), "reply"), Ends(c, "handoff")}
  BY DEF NothingFound, n
<1> QED BY <1>2, <1>3, <1>4, <1>5, <1>6

\* The reply to a turn that found nothing offers nothing new.
LEMMA ReplyKeepsAlone ==
    ASSUME NEW t, Message(t), NEW c, OnTrack(c, t, Variants), c.found = {}, Alone(c.m)
    PROVE  Alone(BuildResponse(c).m)
<1> DEFINE d == OfferVariants(c)
           s == Render(d)
<1>1. OnTrack(d, t, Variants) /\ d.found = {} /\ d.m = c.m
  <2>1. "price_with_variants" \in Routes \cap Actions \cap Settled
        /\ "price_with_variants" # "details"
    BY DEF Routes, Settled, Actions
  <2>2. d \in {c, Route(c, "price_with_variants", "price_with_variants")}
    BY DEF OfferVariants
  <2>3. c \in Contexts
    BY DEF OnTrack
  <2> HIDE DEF d
  <2> QED BY <2>1, <2>2, <2>3, RouteOnTrack, RouteKeeps
<1>2. BuildResponse(c) = IF s = "none" THEN SpeakFreely(d) ELSE Speak(d, s)
  BY DEF BuildResponse
<1> HIDE DEF d
<1>3. d \in Contexts /\ d.head = NoProduct
  BY <1>1 DEF OnTrack, Traces
<1>4. s # "none" => s \in Scenarios /\ Presumes(d, s)
  <2>1. d.m.state \in {"cart_item_added", "confirmed"} => d.m.cart # {} /\ d.m.product # NoProduct
    BY <1>1 DEF OnTrack, Good
  <2> QED BY <2>1, RenderIs
<1> HIDE DEF s
<1>5. ASSUME NEW n \in Memories
      PROVE  /\ Keep(d, n) \in Contexts /\ Keep(d, n).m = n
             /\ SyncProduct(Keep(d, n)) = Keep(d, n)
  <2>1. Keep(d, n) \in Contexts /\ Keep(d, n).m = n /\ SameFinds(d, Keep(d, n))
    BY <1>3, KeepIs
  <2> QED BY <1>1, <2>1 DEF SyncProduct, SameFinds
<1>6. CASE s # "none"
  <2> DEFINE n == Remember(d, s)
  <2>1. Recorded(d, s, t, n)
    BY <1>1, <1>4, <1>6, RememberIs
  <2>2. n \in Memories /\ Alone(n)
    BY <1>1, <1>3, <2>1 DEF Recorded, Answers, Alone
  <2>3. Guess(d) = {}
    BY <1>1, GuessIs
  <2>4. Speak(d, s) = CreateOrder(SyncProduct(Latch(Keep(d, n), s, {})), s)
    BY <2>3 DEF Speak
  <2> HIDE DEF n
  <2>5. Latch(Keep(d, n), s, {}) = Keep(d, n)
    BY DEF Latch
  <2>6. Speak(d, s) = CreateOrder(Keep(d, n), s)
    BY <1>5, <2>2, <2>4, <2>5
  <2>7. Keep(d, n) \in Contexts /\ Alone(Keep(d, n).m)
    BY <1>5, <2>2
  <2> QED BY <1>2, <1>6, <2>6, <2>7, EndingKeepsAlone
<1>7. CASE s = "none"
  <2> DEFINE n == Remember(d, "fallback")
  <2>1. n = Said(d.m, "other")
    BY DEF Remember
  <2>2. n \in Memories /\ Alone(n)
    BY <1>1, <1>3, <2>1, SaidIs DEF Contexts, Lasts, Alone
  <2> HIDE DEF n
  <2>3. SyncProduct(d) = d /\ SyncProduct(Keep(d, n)) = Keep(d, n)
    BY <1>1, <1>5, <2>2 DEF SyncProduct
  <2>4. SpeakFreely(d) \in {NothingFound(d), Ends(d, "reply"), Ends(Keep(d, n), "reply")}
    BY <2>3 DEF SpeakFreely, n
  <2>5. Keep(d, n) \in Contexts /\ Alone(Keep(d, n).m)
    BY <1>5, <2>2
  <2> QED BY <1>1, <1>2, <1>3, <1>7, <2>4, <2>5, EndingKeepsAlone
<1> QED BY <1>6, <1>7

\* After a refusal, what is on offer is alone.
LEMMA RefusalLeavesAlone ==
    ASSUME NEW t, Message(t), Remembered, Refusal(t) # {}
    PROVE  Alone(Process(mem, t).m)
<1> DEFINE a == ClassifyMessage(Context(mem, t))
           b == SearchAndFilter(a)
           d == ProductQuestion(VariantUnavailable(b))
<1>1. (Fresh(a, t) /\ Cleared(a, t)) \/ Halted(a, t)
  BY ClassifyMessageIs
<1>2. a.t = t /\ a.wide = FALSE /\ a.out = "going" /\ Kept(a.m)
  BY RefusalIsClassified
<1>3. Process(mem, t) = IF a.out # "going" THEN a ELSE IF b.out # "going" THEN b
                        ELSE IF d.out # "going" THEN d ELSE BuildResponse(ResolveVariant(d))
  BY DEF Process, Going
<1> HIDE DEF a
<1>4. Begun(a, t, Held(t)) /\ a.found = {} /\ a \in Contexts /\ OnTrack(a, t, Held(t))
  <2>1. Fresh(a, t) /\ Cleared(a, t)
    BY <1>1, <1>2 DEF Halted, Outs
  <2>2. a \in Contexts /\ a.found = {}
    BY <2>1 DEF Fresh, Unsearched
  <2> QED BY <2>1, <2>2, FreshIsBegun DEF Begun
<1>5. b = a \/ (b = NothingFound(a) /\ Alone(a.m))
  BY <1>2, <1>4, RefusalFindsNothing
<1> HIDE DEF b
<1>6. CASE b = NothingFound(a) /\ Alone(a.m)
  <2>1. b.out # "going"
    <3>1. OnTrack(a, t, Held(t)) /\ Unpicked(a.m)
      BY <1>4 DEF Begun
    <3>2. Over(b, t)
      BY <1>6, <3>1, NothingFoundIsOver
    <3> QED BY <3>2 DEF Over, Outs
  <2>2. Alone(b.m)
    BY <1>4, <1>6, EndingKeepsAlone
  <2> QED BY <1>2, <1>3, <2>1, <2>2
<1>7. CASE b = a
  <2>1. d = a
    <3>1. VariantUnavailable(a) = a
      BY <1>4, FS_EmptySet DEF VariantUnavailable
    <3>2. ProductQuestion(a) = a
      BY <1>2, RefusalParts DEF ProductQuestion
    <3> QED BY <1>7, <3>1, <3>2
  <2> HIDE DEF d
  <2>2. Process(mem, t) = BuildResponse(ResolveVariant(a))
    BY <1>2, <1>3, <1>7, <2>1
  <2>3. OnTrack(ResolveVariant(a), t, Variants)
    BY <1>2, <1>4, ResolveVariantOnTrack, RefusalParts DEF Steady
  <2>4. Alone(ResolveVariant(a).m) /\ ResolveVariant(a).found = {}
    BY <1>2, <1>4, RefusalResolves
  <2> QED BY <2>2, <2>3, <2>4, ReplyKeepsAlone
<1> QED BY <1>5, <1>6, <1>7

(***************************************************************************)
(* An answer to an offer: nothing is searched, and the answer is taken.    *)
(***************************************************************************)
\* A turn with no product or photo in its message, which has found nothing.
Plain(c) ==
    /\ c \in Contexts /\ c.found = {} /\ c.head = NoProduct /\ ~c.first /\ ~c.wide
    /\ c.scope = NoSize /\ c.out = "going" /\ c.items = {}
    /\ c.t.names = NoProduct /\ c.t.photo = NoProduct /\ ~c.t.cue
    /\ c.t.slot \in {"fills", "confirmation"}

\* What such a turn was asked does not change.
SameSaid(c, d) ==
    /\ d.t.slot = c.t.slot /\ d.t.size = c.t.size /\ d.asked = c.asked
    /\ d.t.details = c.t.details /\ d.t.covered = c.t.covered

LEMMA PlainKeep ==
    ASSUME NEW c, Plain(c), NEW m \in Memories
    PROVE  LET d == Keep(c, m)
           IN /\ Plain(d) /\ d.m = m /\ d.t = c.t /\ d.action = c.action /\ SameSaid(c, d)
BY DEF Plain, SameSaid, Keep, Contexts

LEMMA PlainRoute ==
    ASSUME NEW c, Plain(c), NEW i \in Routes, NEW a \in Actions
    PROVE  LET d == Route(c, i, a)
           IN /\ Plain(d) /\ d.m = c.m /\ d.t.intent = i /\ d.action = a /\ SameSaid(c, d)
BY DEF Plain, SameSaid, Route, Contexts, Heard

\* Nothing was found, so nothing is inferred.
LEMMA PlainGuess ==
    ASSUME NEW c, Plain(c)
    PROVE  Guess(c) = {} /\ HeadVariants(c) = {} /\ Cardinality(c.found) = 0
<1>1. HeadVariants(c) = {} /\ Cardinality({}) = 0
  BY FS_EmptySet DEF Plain, HeadVariants
<1>2. Available({}) = {}
  BY StockIs
<1> QED BY <1>1, <1>2 DEF Plain, Guess

\* A reply changes the memory by what it says, and nothing else.
LEMMA PlainSpeaks ==
    ASSUME NEW c, Plain(c), NEW s, Remember(c, s) \in Memories
    PROVE  LET n == Remember(c, s)
           IN /\ s # "confirm_order" => Speak(c, s).m = n /\ Speak(c, s).out = "reply"
              /\ s = "confirm_order" /\ ~n.ordered =>
                   Speak(c, s).out = "order" /\ Speak(c, s).items = Payload(n)
<1> DEFINE n == Remember(c, s)
           k == Keep(c, n)
           x == [n EXCEPT !.ordered = TRUE]
<1>1. Plain(k) /\ k.m = n /\ k \in Contexts
  BY PlainKeep DEF Plain
<1>2. Speak(c, s) = CreateOrder(SyncProduct(Latch(k, s, {})), s)
  BY PlainGuess DEF Speak
<1> HIDE DEF k
<1>3. SyncProduct(Latch(k, s, {})) = k
  BY <1>1 DEF Latch, SyncProduct, Plain
<1>4. CASE s # "confirm_order"
  BY <1>1, <1>2, <1>3, <1>4, EndsIs DEF CreateOrder, Outs
<1>5. CASE s = "confirm_order" /\ ~n.ordered
  <2>1. x \in Memories
    BY DEF Memories
  <2> HIDE DEF n
  <2>2. Keep(k, x) \in Contexts
    BY <1>1, <2>1, KeepIs DEF n
  <2>3. Speak(c, s) = [Ends(Keep(k, x), "order") EXCEPT !.items = Payload(n)]
    BY <1>1, <1>2, <1>3, <1>5 DEF CreateOrder
  <2>4. Ends(Keep(k, x), "order") \in Contexts /\ Ends(Keep(k, x), "order").out = "order"
    BY <2>2, EndsIs DEF Outs
  <2> HIDE DEF k
  <2> QED BY <1>5, <2>3, <2>4 DEF Contexts, n
<1> QED BY <1>4, <1>5

\* What an answer says.
LEMMA SaysIs ==
    ASSUME NEW i \in {"details", "ready", "choice"}, NEW sl \in {"fills", "confirmation"},
           NEW z \in Sizes \cup {NoSize}
    PROVE  LET t == Says(i, sl, NoProduct, z)
           IN /\ t.intent = i /\ t.slot = sl /\ t.names = NoProduct /\ t.size = z
              /\ t.mentions = {} /\ ~t.cue /\ t.photo = NoProduct /\ ~t.covered
              /\ t.details = (i = "details") /\ Message(t)
<1>1. NoProduct \notin Products /\ Category \notin Products \cup {NoProduct}
  BY ReplyEngineAssumption DEF ReplyEngineAssumption
<1> QED BY <1>1 DEF Says, Message, Readings, Intents, Slots

\* What is left of a memory once an order was placed.
Afresh(m) ==
    /\ m \in Memories /\ m.state = "none" /\ m.product = NoProduct /\ m.title = NoProduct
    /\ m.variant = NoVariant /\ m.avail = {} /\ m.shown = {} /\ m.cart = {} /\ m.last = "other"
    /\ m.awaiting = "other" /\ ~m.ordered

LEMMA AfreshIs ==
    ASSUME NEW m \in Memories
    PROVE  Afresh([NoMemory EXCEPT !.pivot = m.pivot, !.removalAsked = m.removalAsked,
                                   !.broadenAsked = m.broadenAsked, !.broaden = m.broaden])
<1>1. NoMemory \in Memories
  BY NoMemoryIs
<1> QED BY <1>1 DEF Afresh, NoMemory, Memories

\* The memory an answer is taken to: a question of another kind is given up.
SameBut(m) ==
    /\ m \in Memories /\ m.state = mem.state /\ m.product = mem.product /\ m.variant = mem.variant
    /\ m.cart = mem.cart /\ m.last = mem.last /\ m.ordered = mem.ordered /\ m.named = mem.named
    /\ m.avail = mem.avail /\ m.shown = mem.shown /\ m.title = mem.title /\ m.awaiting # "broaden"

\* Who answers is not asked what to remove any more.
LEMMA AnswerIsCalm ==
    ASSUME Remembered, mem.awaiting # "broaden",
           NEW i \in {"details", "ready", "choice"}, NEW sl \in {"fills", "confirmation"},
           NEW z \in Sizes \cup {NoSize}
    PROVE  LET t == Says(i, sl, NoProduct, z)
               b == AnswerBroaden(AnswerCartRemoval(Context(mem, t)))
           IN Plain(b) /\ b.t = t /\ b.asked = i /\ b.action = ActionOf(i) /\ SameBut(b.m)
<1> DEFINE t == Says(i, sl, NoProduct, z)
           c == Context(mem, t)
           calm == [mem EXCEPT !.awaiting = "other", !.pivot = NoProduct]
           r == AnswerCartRemoval(c)
<1>1. /\ t.intent = i /\ t.slot = sl /\ t.names = NoProduct /\ t.size = z
      /\ t.mentions = {} /\ ~t.cue /\ t.photo = NoProduct /\ ~t.covered /\ Message(t)
  BY SaysIs
<1> HIDE DEF t
<1>2. /\ c \in Contexts /\ c.m = mem /\ c.t = t /\ c.out = "going" /\ c.asked = i /\ c.wide = FALSE
      /\ c.found = {} /\ c.head = NoProduct /\ c.items = {}
  BY <1>1, ContextIs DEF Unsearched
<1>3. ~c.first /\ c.scope = NoSize /\ c.action = ActionOf(i)
  BY <1>1 DEF Context
<1>4. Plain(c)
  BY <1>1, <1>2, <1>3 DEF Plain
<1> HIDE DEF c
<1>5. mem \in Memories /\ SameBut(mem)
  BY DEF Remembered, Good, SameBut
<1>6. calm \in Memories /\ SameBut(calm)
  BY <1>5 DEF Memories, SameBut, MaybeProduct
<1>7. r = c \/ r = Keep(c, calm)
  <2>1. InCart(mem, {}) = {}
    BY DEF InCart
  <2>2. Cardinality(InCart(mem, {})) # 1
    BY <2>1, FS_EmptySet
  <2> QED BY <1>1, <1>2, <2>2 DEF AnswerCartRemoval
<1> HIDE DEF calm, r
<1>8. r.m.awaiting # "broaden" /\ Plain(r) /\ r.t = t /\ r.asked = i /\ r.action = ActionOf(i)
      /\ SameBut(r.m)
  <2>1. CASE r = c
    BY <1>2, <1>3, <1>4, <1>5, <2>1
  <2>2. CASE r = Keep(c, calm)
    BY <1>2, <1>3, <1>4, <1>6, <2>2, PlainKeep DEF SameSaid, SameBut
  <2> QED BY <1>7, <2>1, <2>2
<1>9. AnswerBroaden(r) = r
  BY <1>8 DEF AnswerBroaden
<1> QED BY <1>8, <1>9 DEF r, c, t

\* Before the search an answer has changed nothing; but after an order all starts afresh.
LEMMA AnswerIsHeard ==
    ASSUME Remembered, mem.awaiting # "broaden",
           NEW i \in {"details", "ready", "choice"}, NEW sl \in {"fills", "confirmation"},
           NEW z \in Sizes \cup {NoSize}
    PROVE  LET t == Says(i, sl, NoProduct, z)
               a == ClassifyMessage(Context(mem, t))
           IN /\ Plain(a) /\ a.t = t /\ a.asked = i /\ a.action = ActionOf(i)
              /\ IF mem.ordered THEN Afresh(a.m) ELSE SameBut(a.m)
<1> DEFINE t == Says(i, sl, NoProduct, z)
           c == Context(mem, t)
           b == AnswerBroaden(AnswerCartRemoval(c))
           d == PostOrder(b)
           n == [NoMemory EXCEPT !.pivot = b.m.pivot, !.removalAsked = b.m.removalAsked,
                                 !.broadenAsked = b.m.broadenAsked, !.broaden = b.m.broaden]
<1>1. t.intent = i /\ t.slot = sl /\ t.names = NoProduct /\ Message(t) /\ ~t.cue
  BY SaysIs
<1>2. Plain(b) /\ b.t = t /\ b.asked = i /\ b.action = ActionOf(i) /\ SameBut(b.m)
  BY AnswerIsCalm
<1> HIDE DEF t
<1>3. Policy(c) = c /\ c.out = "going"
  BY <1>1 DEF Context, Policy
<1> HIDE DEF c, b
<1>4. GreetingReset(b) = b /\ b.out = "going"
  BY <1>1, <1>2 DEF GreetingReset, Plain
<1>5. Afresh(n)
  BY <1>2, AfreshIs DEF SameBut
<1>6. d = IF mem.ordered THEN Keep(b, n) ELSE b
  BY <1>1, <1>2 DEF PostOrder, SameBut
<1> HIDE DEF d, n
<1>7. /\ Plain(d) /\ d.t = t /\ d.asked = i /\ d.action = ActionOf(i)
      /\ IF mem.ordered THEN Afresh(d.m) ELSE SameBut(d.m)
  BY <1>2, <1>5, <1>6, PlainKeep DEF SameSaid, Afresh
<1>8. Pivot(KeepOnly(AddsToCart(CoerceRemovalCue(d)))) = d
  BY <1>1, <1>7 DEF Pivot, KeepOnly, AddsToCart, CoerceRemovalCue
<1>9. ClassifyMessage(c) = d
  BY <1>3, <1>4, <1>7, <1>8 DEF ClassifyMessage, Going, Plain, b, d
<1> QED BY <1>7, <1>9 DEF c, t

\* An answer that is not searched for.
LEMMA AnswerFindsNothing ==
    ASSUME NEW c, Plain(c), c.m.state # "awaiting_product", c.t.size = NoSize,
           c.t.intent \in {"details", "ready", "choice"},
           ShouldSearch(c) => c.t.intent = "ready" /\ c.asked = "ready"
    PROVE  LET b == SearchAndFilter(c)
           IN /\ b = c \/ b.out = "handoff"
              /\ ~ShouldSearch(c) => b = c
              /\ ProductQuestion(VariantUnavailable(c)) = c
<1>1. Media(c) = c /\ NarrowGate(c) = c /\ FocusGate(c) = c
  BY DEF Plain, Media, NarrowGate, Narrows, FocusGate, VariantQuestionOnFocus
<1>2. SearchAndFilter(c) = Search(c)
  BY <1>1 DEF SearchAndFilter, Going, Plain
<1>3. Sized(c).found = {} /\ c \in Contexts
  <2>1. CheckAll(NoProduct) = {}
    BY ReplyEngineAssumption DEF CheckAll, ReplyEngineAssumption
  <2>2. Hits(c) = {}
    BY <2>1 DEF Hits, SearchProducts, Plain
  <2>3. Sized(c) = Found(c, {})
    BY <2>2 DEF Sized, Plain
  <2> QED BY <2>3, FoundIs DEF Plain
<1>4. Search(c) = c \/ (ShouldSearch(c) /\ Search(c) = NothingFound(c))
  BY <1>3 DEF Search, Plain
<1>5. ShouldSearch(c) => NothingFound(c).out = "handoff"
  BY <1>3, EndsIs DEF NothingFound, Outs
<1>6. ProductQuestion(VariantUnavailable(c)) = c
  BY PlainGuess DEF VariantUnavailable, ProductQuestion, Plain
<1> QED BY <1>2, <1>4, <1>5, <1>6

\* Whoever gives the details of the delivery has an order of the cart.
LEMMA DetailsAreOrdered ==
    ASSUME Remembered, ~mem.ordered, mem.state = "confirmed", mem.awaiting # "broaden"
    PROVE  LET c == Process(mem, Says("details", "fills", NoProduct, NoSize))
           IN c.out = "order" /\ c.items = mem.cart
<1> DEFINE t == Says("details", "fills", NoProduct, NoSize)
           a == ClassifyMessage(Context(mem, t))
           n == Remember(a, "confirm_order")
<1>1. /\ t.intent = "details" /\ t.slot = "fills" /\ ~t.covered /\ t.details /\ t.size = NoSize
  BY DEF Says
<1>2. Plain(a) /\ a.t = t /\ a.asked = "details" /\ a.action = "other" /\ SameBut(a.m)
  <2>1. ActionOf("details") = "other"
    BY DEF ActionOf
  <2> QED BY <2>1, AnswerIsHeard
<1>3. mem.cart # {} /\ mem.product # NoProduct
  BY DEF Remembered, Good
<1>4. Process(mem, t) = LET b == SearchAndFilter(a)
                            d == ProductQuestion(VariantUnavailable(b))
                        IN IF a.out # "going" THEN a ELSE IF b.out # "going" THEN b
                           ELSE IF d.out # "going" THEN d ELSE BuildResponse(ResolveVariant(d))
  BY DEF Process, Going
<1> HIDE DEF t, a
<1>5. ~ShouldSearch(a)
  <2>1. a.t.names \notin Products /\ a.t.names # Category
    BY <1>2, ReplyEngineAssumption DEF Plain, ReplyEngineAssumption
  <2> QED BY <1>1, <1>2, <2>1 DEF ShouldSearch
<1>6. SearchAndFilter(a) = a /\ ProductQuestion(VariantUnavailable(a)) = a
  BY <1>1, <1>2, <1>5, AnswerFindsNothing DEF SameBut
<1>7. Process(mem, t) = BuildResponse(ResolveVariant(a))
  BY <1>2, <1>4, <1>6 DEF Plain
<1>8. ResolveVariant(a) = a
  <2>1. DeclineOffer(a) = a /\ AskedForAnother(a) = a /\ AddToCart(a) = a
    BY <1>1, <1>2 DEF DeclineOffer, AskedForAnother, AddToCart, SameBut
  <2>2. CheckOut(a) = a /\ ConfirmsProduct(a) = a
    BY <1>1, <1>2 DEF CheckOut, ConfirmsProduct, SameBut
  <2>3. FillsVariant(a) = a /\ PicksVariant(a) = a
    BY <1>2, PlainGuess DEF FillsVariant, PicksVariant, SameBut
  <2> QED BY <2>1, <2>2, <2>3 DEF ResolveVariant
<1>9. OfferVariants(a) = a
  BY <1>1, <1>2 DEF OfferVariants
<1>10. ResolveScenario(a) = "confirm_order"
  BY <1>1, <1>2, <1>3 DEF ResolveScenario, SameBut
<1>11. Render(a) = "confirm_order"
  <2>1. StageGate(a, "confirm_order") = "confirm_order"
    BY <1>2 DEF StageGate, SameBut
  <2>2. RenderScenario(a, "confirm_order") = "confirm_order"
    BY DEF RenderScenario, Viable
  <2> QED BY <1>1, <1>2, <1>10, <2>1, <2>2 DEF Render, Plain
<1>12. BuildResponse(a) = Speak(a, "confirm_order")
  BY <1>9, <1>11 DEF BuildResponse
<1>13. n = Said(a.m, "other") /\ n \in Memories /\ n.cart = mem.cart /\ ~n.ordered
  BY <1>2, SaidIs DEF Remember, SameBut, Lasts
<1>14. Payload(n) = mem.cart
  BY <1>3, <1>13 DEF Payload
<1> HIDE DEF n
<1>15. Speak(a, "confirm_order").out = "order" /\ Speak(a, "confirm_order").items = mem.cart
  BY <1>2, <1>13, <1>14, PlainSpeaks DEF n
<1> QED BY <1>7, <1>8, <1>12, <1>15 DEF t

\* How an answer that goes on to the checkout, or to the cart, ends.
Goes(c) ==
    /\ c.m.state \in {"cart_item_added", "confirmed"} /\ ~c.m.ordered /\ c.m.awaiting = "other"

\* Who is ready to check out is asked for the details of the delivery.
LEMMA CheckoutIsAsked ==
    ASSUME NEW c, Plain(c), c.m.state \in {"cart_item_added", "confirmed"}, ~c.m.ordered,
           c.t.intent = "ready", c.action = "start_checkout", c.asked \in {"ready", "choice"},
           c.asked = "choice" => c.m.last = "asked_continue"
    PROVE  Goes(BuildResponse(c)) /\ BuildResponse(c).m.state = "confirmed"
<1> DEFINE r == ResolveScenario(c)
           s == Said(c.m, "asked_delivery")
           n == [s EXCEPT !.state = "confirmed"]
<1>1. OfferVariants(c) = c
  BY DEF OfferVariants
<1>2. r \in {"ask_delivery", "collect_checkout"}
  BY DEF ResolveScenario, OfIntent
<1> HIDE DEF r
<1>3. Render(c) = r
  <2>1. StageGate(c, r) = r
    BY <1>2 DEF StageGate
  <2>2. RenderScenario(c, r) = r
    BY <1>2 DEF RenderScenario, Viable
  <2> QED BY <2>1, <2>2 DEF Render, Plain, r
<1>4. BuildResponse(c) = Speak(c, r)
  BY <1>1, <1>2, <1>3 DEF BuildResponse
<1>5. Remember(c, r) = n
  BY <1>2 DEF Remember
<1>6. c.m \in Memories
  BY DEF Plain, Contexts
<1>7. s \in Memories /\ s.ordered = c.m.ordered /\ s.awaiting = "other"
  <2>1. s \in Memories /\ s.ordered = c.m.ordered
    BY <1>6, SaidIs DEF Lasts
  <2>2. s.awaiting = "other"
    BY <1>6 DEF Said, Memories
  <2> QED BY <2>1, <2>2
<1> HIDE DEF s
<1>8. n \in Memories /\ n.state = "confirmed" /\ ~n.ordered /\ n.awaiting = "other"
  BY <1>7 DEF Memories, States
<1> HIDE DEF n
<1>9. Speak(c, r).m = n
  BY <1>2, <1>5, <1>8, PlainSpeaks
<1> QED BY <1>4, <1>8, <1>9 DEF Goes

\* Who is ready has a human, or is asked for the details.
LEMMA ReadyChecksOut ==
    ASSUME Remembered, ~mem.ordered, mem.state = "cart_item_added", mem.awaiting # "broaden"
    PROVE  LET c == Process(mem, Says("ready", "confirmation", NoProduct, NoSize))
           IN c.out = "handoff" \/ (Goes(c) /\ c.m.state = "confirmed")
<1> DEFINE t == Says("ready", "confirmation", NoProduct, NoSize)
           a == ClassifyMessage(Context(mem, t))
           b == SearchAndFilter(a)
           n == [a.m EXCEPT !.state = "confirmed"]
           e == ResolveVariant(a)
<1>1. t.intent = "ready" /\ t.slot = "confirmation" /\ t.size = NoSize
  BY SaysIs
<1>2. Plain(a) /\ a.t = t /\ a.asked = "ready" /\ a.action = "start_checkout" /\ SameBut(a.m)
  <2>1. ActionOf("ready") = "start_checkout"
    BY DEF ActionOf
  <2> QED BY <2>1, AnswerIsHeard
<1>3. Process(mem, t) = LET d == ProductQuestion(VariantUnavailable(b))
                        IN IF a.out # "going" THEN a ELSE IF b.out # "going" THEN b
                           ELSE IF d.out # "going" THEN d ELSE BuildResponse(ResolveVariant(d))
  BY DEF Process, Going
<1> HIDE DEF t, a
<1>4. b = a \/ b.out = "handoff"
  BY <1>1, <1>2, AnswerFindsNothing DEF SameBut
<1>5. ProductQuestion(VariantUnavailable(a)) = a /\ a.out = "going"
  BY <1>1, <1>2, AnswerFindsNothing DEF SameBut, Plain
<1>6. Process(mem, t) = BuildResponse(e) \/ Process(mem, t).out = "handoff"
  BY <1>3, <1>4, <1>5
<1>7. CheckOut(a) \in {a, Route(Keep(a, n), "ready", "start_checkout")}
  BY DEF CheckOut
<1>8. n \in Memories /\ n.state = "confirmed" /\ ~n.ordered
  BY <1>2 DEF SameBut, Memories, States
<1> HIDE DEF n, e
<1> DEFINE Ready(d) == /\ Plain(d) /\ d.m.state \in {"cart_item_added", "confirmed"} /\ ~d.m.ordered
                       /\ d.t.intent = "ready" /\ d.t.slot = "confirmation"
                       /\ d.action = "start_checkout" /\ d.asked = "ready"
<1>9. Ready(a)
  BY <1>1, <1>2 DEF SameBut
<1>10. Ready(Route(Keep(a, n), "ready", "start_checkout"))
  <2>1. /\ Plain(Keep(a, n)) /\ Keep(a, n).m = n /\ Keep(a, n).t = a.t
        /\ Keep(a, n).asked = "ready"
    BY <1>2, <1>8, PlainKeep DEF SameSaid
  <2>2. "ready" \in Routes /\ "start_checkout" \in Actions
    BY DEF Routes, Intents, Actions
  <2> QED BY <1>1, <1>2, <1>8, <2>1, <2>2, PlainRoute DEF SameSaid
<1>11. Ready(CheckOut(a))
  BY <1>7, <1>9, <1>10
<1>12. e = CheckOut(a)
  <2>1. DeclineOffer(a) = a /\ AskedForAnother(a) = a /\ AddToCart(a) = a
    BY <1>1, <1>2 DEF DeclineOffer, AskedForAnother, AddToCart, SameBut
  <2>2. ASSUME NEW d, Ready(d) PROVE PicksVariant(FillsVariant(ConfirmsProduct(d))) = d
    <3>1. ConfirmsProduct(d) = d /\ PicksVariant(d) = d
      BY <2>2 DEF ConfirmsProduct, PicksVariant
    <3>2. FillsVariant(d) = d
      BY <2>2, PlainGuess DEF FillsVariant
    <3> QED BY <3>1, <3>2
  <2>3. a.t.intent \notin {"variant_not_available", "out_of_stock"}
    BY <1>1, <1>2
  <2> HIDE DEF Ready
  <2> QED BY <1>11, <2>1, <2>2, <2>3 DEF ResolveVariant, e
<1>13. Goes(BuildResponse(e)) /\ BuildResponse(e).m.state = "confirmed"
  BY <1>11, <1>12, CheckoutIsAsked
<1> QED BY <1>6, <1>13 DEF t

\* The yes to an offer has been put into the cart, and so it is said.
LEMMA CartIsSaid ==
    ASSUME NEW c, Plain(c), c.m.state = "cart_item_added", ~c.m.ordered,
           c.t.intent = "choice", c.asked = "choice", c.action = "ask_continue"
    PROVE  Goes(BuildResponse(c))
<1> DEFINE s == Render(c)
           n(l) == Said(c.m, l)
<1>1. OfferVariants(c) = c
  BY DEF OfferVariants
<1>2. s \in {"ask_continue", "none"}
  <2>1. ResolveScenario(c) = "ask_continue"
    BY DEF ResolveScenario
  <2>2. StageGate(c, "ask_continue") = "ask_continue"
    BY DEF StageGate
  <2>3. RenderScenario(c, "ask_continue") \in {"ask_continue", "none"}
    BY DEF RenderScenario
  <2> QED BY <2>1, <2>2, <2>3 DEF Render, Plain
<1>3. BuildResponse(c) = IF s = "none" THEN SpeakFreely(c) ELSE Speak(c, s)
  BY <1>1 DEF BuildResponse
<1> HIDE DEF s
<1>4. c.m \in Memories
  BY DEF Plain, Contexts
<1>5. ASSUME NEW l \in {"other", "asked_continue"}
      PROVE  /\ n(l) \in Memories /\ n(l).state = "cart_item_added" /\ ~n(l).ordered
             /\ n(l).awaiting = "other"
  <2>1. n(l) \in Memories /\ n(l).state = "cart_item_added" /\ ~n(l).ordered
    BY <1>4, SaidIs DEF Lasts
  <2>2. n(l).awaiting = "other"
    BY <1>4 DEF Said, Memories
  <2> QED BY <2>1, <2>2
<1>6. Remember(c, "ask_continue") = n("asked_continue") /\ Remember(c, "fallback") = n("other")
  BY DEF Remember
<1> HIDE DEF n
<1>7. CASE s = "ask_continue"
  <2>1. Speak(c, s).m = n("asked_continue")
    BY <1>5, <1>6, <1>7, PlainSpeaks
  <2> QED BY <1>3, <1>5, <1>7, <2>1 DEF Goes
<1>8. CASE s = "none"
  <2> DEFINE k == Keep(c, n("other"))
  <2>1. Plain(k) /\ k.m = n("other")
    BY <1>5, PlainKeep
  <2>2. SpeakFreely(c) = Ends(SyncProduct(k), "reply")
    BY <1>6 DEF SpeakFreely
  <2> HIDE DEF k
  <2>3. SyncProduct(k) = k /\ k \in Contexts
    BY <2>1 DEF SyncProduct, Plain
  <2>4. SpeakFreely(c).m = n("other")
    BY <2>1, <2>2, <2>3, EndsIs DEF Outs
  <2> QED BY <1>3, <1>5, <1>8, <2>4 DEF Goes
<1> QED BY <1>2, <1>7, <1>8

\* Who says yes to an offer has it in the cart.
LEMMA YesIsTaken ==
    ASSUME Remembered, Offered(mem), mem.awaiting # "broaden"
    PROVE  Goes(Process(mem, Says("choice", "confirmation", NoProduct, NoSize)))
<1> DEFINE t == Says("choice", "confirmation", NoProduct, NoSize)
           a == ClassifyMessage(Context(mem, t))
           held == \E i \in a.m.cart : i.variant = a.m.variant
           cart == IF held THEN a.m.cart ELSE a.m.cart \cup {Item(a.m)}
           m == [a.m EXCEPT !.cart = cart, !.state = "cart_item_added"]
           d == Route(Keep(a, m), "choice", "ask_continue")
           n == [d.m EXCEPT !.state = "confirmed"]
           e == Route(Keep(d, n), "ready", "start_checkout")
<1>1. t.intent = "choice" /\ t.slot = "confirmation" /\ t.size = NoSize
  BY SaysIs
<1>2. ~mem.ordered /\ mem.state = "awaiting_confirmation" /\ mem.variant # NoVariant
      /\ mem.product # NoProduct
  BY DEF Offered, Remembered, Good
<1>3. Plain(a) /\ a.t = t /\ a.asked = "choice" /\ SameBut(a.m)
  BY <1>2, AnswerIsHeard
<1>4. Process(mem, t) = LET b == SearchAndFilter(a)
                            q == ProductQuestion(VariantUnavailable(b))
                        IN IF a.out # "going" THEN a ELSE IF b.out # "going" THEN b
                           ELSE IF q.out # "going" THEN q ELSE BuildResponse(ResolveVariant(q))
  BY DEF Process, Going
<1> HIDE DEF t, a
<1>5. ~ShouldSearch(a)
  BY <1>1, <1>2, <1>3 DEF ShouldSearch, SameBut
<1>6. SearchAndFilter(a) = a /\ ProductQuestion(VariantUnavailable(a)) = a
  BY <1>1, <1>2, <1>3, <1>5, AnswerFindsNothing DEF SameBut
<1>7. Process(mem, t) = BuildResponse(ResolveVariant(a))
  BY <1>3, <1>4, <1>6 DEF Plain
<1>8. cart \in SUBSET Cartable /\ cart # {}
  <2>1. Item(a.m) \in Cartable
    BY <1>2, <1>3, ItemIs DEF SameBut
  <2> QED BY <1>3, <2>1 DEF SameBut, Memories
<1>9. AddToCart(a) = d
  BY <1>1, <1>2, <1>3 DEF AddToCart, SameBut
<1> HIDE DEF cart
<1>10. m \in Memories /\ m.state = "cart_item_added" /\ ~m.ordered /\ m.variant # NoVariant
  BY <1>2, <1>3, <1>8 DEF SameBut, Memories, States
<1> HIDE DEF m
<1>11. /\ Plain(d) /\ d.m = m /\ d.t.intent = "choice" /\ d.action = "ask_continue"
       /\ d.t.slot = "confirmation" /\ d.asked = "choice"
  <2>1. "choice" \in Routes /\ "ask_continue" \in Actions
    BY DEF Routes, Settled, Actions
  <2> QED BY <1>1, <1>3, <1>10, <2>1, PlainKeep, PlainRoute DEF SameSaid
<1> HIDE DEF d
<1>12. n \in Memories /\ n.state = "confirmed" /\ ~n.ordered /\ n.variant # NoVariant /\ n.last = m.last
  BY <1>10, <1>11 DEF Memories, States
<1> HIDE DEF n
<1>13. /\ Plain(e) /\ e.m = n /\ e.t.intent = "ready" /\ e.action = "start_checkout"
       /\ e.t.slot = "confirmation" /\ e.asked = "choice"
  <2>1. "ready" \in Routes /\ "start_checkout" \in Actions
    BY DEF Routes, Intents, Actions
  <2> QED BY <1>11, <1>12, <2>1, PlainKeep, PlainRoute DEF SameSaid
<1>14. CheckOut(d) = d \/ (CheckOut(d) = e /\ m.last = "asked_continue")
  BY <1>11 DEF CheckOut, e, n
<1> HIDE DEF e
<1>15. ResolveVariant(a) = CheckOut(d)
  <2>1. DeclineOffer(a) = a /\ AskedForAnother(a) = a
    BY <1>1, <1>3 DEF DeclineOffer, AskedForAnother
  <2>2. ASSUME NEW x \in {d, e}
        PROVE  PicksVariant(FillsVariant(ConfirmsProduct(x))) = x
    BY <1>10, <1>11, <1>12, <1>13 DEF ConfirmsProduct, FillsVariant, PicksVariant, Unchosen
  <2> QED BY <1>1, <1>3, <1>9, <1>14, <2>1, <2>2 DEF ResolveVariant
<1>16. Goes(BuildResponse(CheckOut(d)))
  <2>1. CASE CheckOut(d) = d
    BY <1>10, <1>11, <2>1, CartIsSaid
  <2>2. CASE CheckOut(d) = e /\ m.last = "asked_continue"
    BY <1>12, <1>13, <2>2, CheckoutIsAsked
  <2> QED BY <1>14, <2>1, <2>2
<1> QED BY <1>7, <1>15, <1>16 DEF t

(***************************************************************************)
(* The question whether to look wider is open only while a product is      *)
(* asked for.  A stage that has not asked it does not open it: this needs  *)
(* no types, but that a turn and its memory are records.                   *)
(***************************************************************************)
Quiet(m) == m.awaiting = "broaden" => m.state = "awaiting_product"

IsRecord(r) == r = [x \in DOMAIN r |-> r[x]]
Calm(m) == IsRecord(m) /\ "awaiting" \in DOMAIN m /\ m.awaiting # "broaden"
Rests(c) == IsRecord(c) /\ "m" \in DOMAIN c /\ Calm(c.m)

LEMMA CalmKeeps ==
    ASSUME NEW c, IsRecord(c), "m" \in DOMAIN c, NEW m, Calm(m)
    PROVE  Rests(Keep(c, m))
BY DEF Rests, Keep, IsRecord

LEMMA CalmForgets ==
    ASSUME NEW m, Calm(m)
    PROVE  Calm(NoChoice(m)) /\ Calm(ClearSelection(m))
BY DEF Calm, NoChoice, ClearSelection, IsRecord

LEMMA UpdatesRest ==
    ASSUME NEW c, Rests(c), NEW x, NEW y
    PROVE  Rests(Route(c, x, y)) /\ Rests(Hear(c, x)) /\ Rests(Ends(c, x)) /\ Rests(Found(c, x))
BY DEF Rests, Calm, Route, Hear, Ends, Found, IsRecord

LEMMA OffersRest ==
    ASSUME NEW c, Rests(c), NEW v
    PROVE  Rests(Offer(c, v)) /\ Rests(Ask(c)) /\ Rests(Unavailable(c))
<1>1. Rests(Select(c, v, TRUE)) /\ Rests(Keep(c, [c.m EXCEPT !.state = "awaiting_variant"]))
  BY DEF Rests, Calm, Select, Keep, IsRecord
<1> QED BY <1>1, UpdatesRest DEF Offer, ConfirmIntent, Ask, Unavailable

LEMMA ChooseRests ==
    ASSUME NEW c, Rests(c), NEW S
    PROVE  Rests(Choose(c, S))
BY OffersRest DEF Choose

\* The stages of ClassifyMessage, past the answers.
LEMMA RecallRests ==
    ASSUME NEW c, Rests(c)
    PROVE  /\ Rests(GreetingReset(c)) /\ Rests(PostOrder(c)) /\ Rests(CoerceRemovalCue(c))
           /\ Rests(AddsToCart(c)) /\ Rests(KeepOnly(c)) /\ Rests(Pivot(c))
<1>1. Rests(GreetingReset(c)) /\ Rests(PostOrder(c))
  <2>1. ASSUME NEW x, NEW y, NEW z, NEW w
        PROVE  /\ Calm([NoMemory EXCEPT !.pivot = x, !.removalAsked = y])
               /\ Calm([NoMemory EXCEPT !.pivot = x, !.removalAsked = y, !.broadenAsked = z,
                                        !.broaden = w])
    BY DEF Calm, IsRecord, NoMemory
  <2> QED BY <2>1, CalmKeeps, UpdatesRest DEF GreetingReset, PostOrder, Rests
<1>2. Rests(CoerceRemovalCue(c))
  BY UpdatesRest DEF CoerceRemovalCue
<1>3. Rests(AddsToCart(c))
  BY DEF Rests, Calm, IsRecord, AddsToCart, Keep, ClearSelection, NoChoice
<1>4. Rests(KeepOnly(c))
  BY DEF Rests, Calm, IsRecord, KeepOnly, Keep, ClearSelection, NoChoice
<1>5. Rests(Pivot(c))
  <2>1. ASSUME NEW m, Calm(m), NEW x PROVE Rests(Leave(c, m, x))
    <3>1. Calm([ClearSelection(m) EXCEPT !.awaiting = "other"])
      BY <2>1, CalmForgets DEF Calm, IsRecord
    <3> QED BY <3>1, CalmKeeps, UpdatesRest DEF Leave, Rests
  <2>2. Rests(AskWhichToRemove(c))
    BY DEF Rests, Calm, IsRecord, AskWhichToRemove, Keep, Ends
  <2>3. ASSUME NEW x PROVE Calm([c.m EXCEPT !.cart = x, !.removalAsked = FALSE])
    BY DEF Rests, Calm, IsRecord
  <2> QED BY <2>1, <2>2, <2>3 DEF Pivot, Rests
<1> QED BY <1>1, <1>2, <1>3, <1>4, <1>5

LEMMA MediaRests ==
    ASSUME NEW c, Rests(c)
    PROVE  Rests(Media(c))
<1> DEFINE seen == AsInquiry(SeeProduct(c, c.t.photo))
<1>1. ASSUME NEW d, Rests(d) PROVE Rests(AsInquiry(d))
  BY <1>1 DEF Rests, Calm, IsRecord, AsInquiry, Route, Hear, Keep, NoChoice
<1>2. Rests(seen)
  <2>1. Rests(SeeProduct(c, c.t.photo))
    BY DEF Rests, Calm, IsRecord, SeeProduct, Found, Hear, Keep
  <2> QED BY <1>1, <2>1
<1> HIDE DEF seen
<1>3. Rests(Keep(seen, [NoChoice(seen.m) EXCEPT !.state = "awaiting_variant"]))
  BY <1>2 DEF Rests, Calm, IsRecord, Keep, NoChoice
<1> QED BY <1>2, <1>3, OffersRest DEF Media, seen

LEMMA SearchRests ==
    ASSUME NEW c, Rests(c)
    PROVE  Rests(Search(c)) /\ Rests(FocusGate(c)) /\ Rests(NothingFound(c))
<1>1. ASSUME NEW d, Rests(d) PROVE Rests(NothingFound(d)) /\ Rests(FocusGate(d))
  BY <1>1 DEF Rests, Calm, IsRecord, NothingFound, Ends, Keep, Said, FocusGate, Found
<1>2. ASSUME NEW d, Rests(d) PROVE Rests(Sized(d)) /\ Rests(Present(d))
  BY <1>2 DEF Rests, Calm, IsRecord, Sized, Found, Present, Keep
<1>3. ASSUME NEW d, Rests(d) PROVE Rests(LockHolds(d))
  BY <1>3, OffersRest, UpdatesRest DEF LockHolds
<1>4. ASSUME NEW d, Rests(d) PROVE Rests(Lock(d))
  BY <1>2, <1>3, <1>4 DEF Lock, Rests, Calm, IsRecord, Keep
<1>5. ASSUME NEW d, Rests(d), NEW f PROVE Rests(FirstShown(d, f))
  BY <1>5 DEF Rests, Calm, IsRecord, FirstShown, Keep
<1>6. Rests(Keep(c, NoChoice(c.m)))
  BY CalmForgets, CalmKeeps DEF Rests
<1> QED BY <1>1, <1>2, <1>4, <1>5, <1>6 DEF Search

LEMMA VariantUnavailableRests ==
    ASSUME NEW c, Rests(c)
    PROVE  Rests(VariantUnavailable(c)) /\ Rests(ProductQuestion(c))
<1> DEFINE n == [NoChoice(c.m) EXCEPT !.product = c.head, !.last = "other"]
           about(m) == [Keep(c, m) EXCEPT !.first = FALSE]
           here == Available(FoundVariants(c, c.head))
           all == Available(VariantsOf(c.head))
<1>1. Rests(about([n EXCEPT !.avail = here]))
  BY DEF Rests, Calm, IsRecord, Keep, NoChoice
<1>2. Rests(about([n EXCEPT !.state = "awaiting_product"]))
  BY DEF Rests, Calm, IsRecord, Keep, NoChoice
<1>3. Rests(about([n EXCEPT !.state = "awaiting_product", !.avail = all]))
  BY DEF Rests, Calm, IsRecord, Keep, NoChoice
<1>4. Rests(ProductQuestion(c))
  BY DEF Rests, Calm, IsRecord, ProductQuestion, Keep, Ends
<1> HIDE DEF n, about
<1>5. Rests(VariantUnavailable(c))
  BY <1>1, <1>2, <1>3, OffersRest, UpdatesRest DEF VariantUnavailable, n, about
<1> QED BY <1>4, <1>5

LEMMA ResolveVariantRests ==
    ASSUME NEW c, Rests(c)
    PROVE  Rests(ResolveVariant(c))
<1>1. ASSUME NEW d, Rests(d)
      PROVE  Rests(DeclineOffer(d)) /\ Rests(AddToCart(d)) /\ Rests(CheckOut(d))
  BY <1>1 DEF Rests, Calm, IsRecord, DeclineOffer, AddToCart, CheckOut, Keep, NoChoice, Route
<1>2. ASSUME NEW d, Rests(d)
      PROVE  Rests(AskedForAnother(d)) /\ Rests(ConfirmsProduct(d)) /\ Rests(PicksVariant(d))
  BY <1>2, OffersRest, ChooseRests DEF AskedForAnother, ConfirmsProduct, PicksVariant
<1>3. ASSUME NEW d, Rests(d) PROVE Rests(FillsVariant(d))
  <2> DEFINE here == Available(FoundVariants(d, d.head))
             e == Choose(d, here)
  <2>1. Rests(e)
    BY <1>3, ChooseRests
  <2>2. Rests(Keep(e, [e.m EXCEPT !.avail = here]))
    <3> HIDE DEF e, here
    <3> QED BY <2>1 DEF Rests, Calm, IsRecord, Keep
  <2> QED BY <1>3, <2>1, <2>2 DEF FillsVariant
<1> QED BY <1>1, <1>2, <1>3 DEF ResolveVariant

LEMMA RememberRests ==
    ASSUME NEW c, Rests(c), NEW s \in Scenarios \cup {"fallback"}
    PROVE  Rests(Keep(c, Remember(c, s)))
<1>1. Calm(c.m)
  BY DEF Rests
<1>2. ASSUME NEW l PROVE Calm(Said(c.m, l))
  BY <1>1 DEF Said, Calm, IsRecord
<1>3. ASSUME NEW m, Calm(m), NEW x, NEW y
      PROVE  /\ Calm([m EXCEPT !.last = x]) /\ Calm([m EXCEPT !.state = x])
             /\ Calm([m EXCEPT !.title = x, !.named = y])
             /\ Calm([m EXCEPT !.product = x, !.title = x, !.avail = y])
  BY <1>3 DEF Calm, IsRecord
<1> DEFINE confirmed == [Said(c.m, "confirmed_product") EXCEPT !.state = "awaiting_confirmation"]
           recommended == [Said(c.m, "gave_recommendation") EXCEPT !.state = "awaiting_confirmation"]
<1>4. Calm(confirmed) /\ Calm(recommended)
  BY <1>2, <1>3
<1>5. CASE s \in {"faq", "decline", "variant_not_available", "delivery"}
  BY <1>1, <1>3, <1>5, CalmKeeps DEF Remember, Rests
<1>6. CASE s \in {"show_price", "confirm_order", "fallback", "ask_continue"}
  BY <1>2, <1>6, CalmKeeps DEF Remember, Rests
<1>7. CASE s \in {"greeting", "show_products", "ask_delivery", "collect_checkout"}
  BY <1>2, <1>3, <1>7, CalmKeeps DEF Remember, Rests
<1>8. CASE s \in {"ask_variant", "price_with_variants"}
  BY <1>2, <1>3, <1>8, CalmForgets, CalmKeeps DEF Remember, Rests
<1>9. CASE s = "confirm_variant"
  BY <1>4, <1>9, CalmKeeps DEF Remember, Rests
<1>10. CASE s = "confirm_selection"
  <2> DEFINE x == IF c.t.names \in Products THEN c.t.names ELSE confirmed.title
             y == confirmed.named \/ c.t.size # NoSize
  <2>1. Remember(c, s) = [confirmed EXCEPT !.title = x, !.named = y]
    BY <1>10 DEF Remember
  <2> HIDE DEF confirmed, x, y
  <2>2. Calm([confirmed EXCEPT !.title = x, !.named = y])
    BY <1>3, <1>4, Zenon
  <2>3. Calm(Remember(c, s))
    BY <2>1, <2>2, Zenon
  <2> QED BY <2>3, CalmKeeps DEF Rests
<1>11. CASE s \in {"recommend_product", "recommend_shown"}
  BY <1>3, <1>4, <1>11, CalmKeeps DEF Remember, Rests
<1> QED BY <1>5, <1>6, <1>7, <1>8, <1>9, <1>10, <1>11 DEF Scenarios

LEMMA ReplyRests ==
    ASSUME NEW c, Rests(c),
           c.m.state \in {"cart_item_added", "confirmed"} => c.m.cart # {} /\ c.m.product # NoProduct
    PROVE  Rests(BuildResponse(c))
<1> DEFINE d == OfferVariants(c)
           s == Render(d)
<1>1. ASSUME NEW e, Rests(e), NEW x, NEW y
      PROVE  Rests(SyncProduct(e)) /\ Rests(Latch(e, x, y)) /\ Rests(CreateOrder(e, x))
  BY <1>1 DEF Rests, Calm, IsRecord, SyncProduct, Latch, CreateOrder, Keep, Ends
<1>2. Rests(d) /\ d.m = c.m
  BY UpdatesRest DEF OfferVariants, Route, Rests, IsRecord
<1> HIDE DEF d
<1>3. s # "none" => s \in Scenarios
  BY <1>2, RenderIs
<1> HIDE DEF s
<1>4. s # "none" => Rests(Speak(d, s))
  BY <1>1, <1>2, <1>3, RememberRests DEF Speak
<1>5. Rests(SpeakFreely(d))
  BY <1>1, <1>2, UpdatesRest, SearchRests, RememberRests DEF SpeakFreely
<1> QED BY <1>4, <1>5 DEF BuildResponse, d, s

\* The answer to what to remove, or whether to look wider, leaves no question open.
LEMMA AnswersRest ==
    ASSUME NEW c, IsRecord(c), IsRecord(c.m), "m" \in DOMAIN c, "awaiting" \in DOMAIN c.m
    PROVE  Rests(AnswerBroaden(AnswerCartRemoval(c)))
<1>1. ASSUME NEW d, IsRecord(d), IsRecord(d.m), "m" \in DOMAIN d, "awaiting" \in DOMAIN d.m
      PROVE  Rests(AnswerBroaden(d))
  <2> DEFINE calm == [d.m EXCEPT !.awaiting = "other", !.broaden = NoSize]
             done == [calm EXCEPT !.broadenAsked = FALSE]
             over == [done EXCEPT !.last = "other"]
  <2>1. Rests(Keep(d, calm)) /\ Rests(Keep(d, done)) /\ Rests(Keep(d, over))
    BY <1>1 DEF Rests, Calm, IsRecord, Keep
  <2>2. d.m.awaiting # "broaden" => Rests(d)
    BY <1>1 DEF Rests, Calm
  <2> HIDE DEF calm, done, over
  <2>3. Rests(ArmBroadenSearch(Keep(d, done), d.m.broaden))
    BY <2>1 DEF Rests, Calm, IsRecord, ArmBroadenSearch, Route, Hear
  <2> QED BY <2>1, <2>2, <2>3, UpdatesRest DEF AnswerBroaden, calm, done, over
<1>2. LET d == AnswerCartRemoval(c)
      IN IsRecord(d) /\ IsRecord(d.m) /\ "m" \in DOMAIN d /\ "awaiting" \in DOMAIN d.m
  <2> DEFINE calm == [c.m EXCEPT !.awaiting = "other", !.pivot = NoProduct]
             left(x) == [calm EXCEPT !.cart = x, !.removalAsked = FALSE]
             Asks(m) == IsRecord(m) /\ "awaiting" \in DOMAIN m
  <2>1. Asks(calm)
    BY DEF IsRecord
  <2> HIDE DEF calm
  <2>2. ASSUME NEW x PROVE Asks(left(x))
    BY <2>1 DEF IsRecord
  <2> HIDE DEF left
  <2>3. ASSUME NEW x PROVE Asks(ClearSelection(left(x)))
    BY <2>2 DEF IsRecord, ClearSelection, NoChoice
  <2>4. ASSUME NEW m, Asks(m), NEW y
        PROVE  LET d == Keep(c, m)
                   h == Hear(d, y)
               IN /\ IsRecord(d) /\ "m" \in DOMAIN d /\ Asks(d.m)
                  /\ IsRecord(h) /\ "m" \in DOMAIN h /\ Asks(h.m)
    BY <2>4 DEF IsRecord, Keep, Hear
  <2> HIDE DEF Asks
  <2> QED BY <2>1, <2>3, <2>4 DEF AnswerCartRemoval, calm, left, Asks
<1> QED BY <1>1, <1>2

LEMMA ClassifyMessageRests ==
    ASSUME NEW t, t.intent # "human", mem \in Memories
    PROVE  Rests(ClassifyMessage(Context(mem, t)))
<1> DEFINE c == Context(mem, t)
           b == AnswerBroaden(AnswerCartRemoval(c))
           d == PostOrder(GreetingReset(b))
<1>1. c.m = mem /\ IsRecord(c) /\ "m" \in DOMAIN c /\ c.t.intent # "human" /\ c.out = "going"
  BY DEF Context, IsRecord
<1>2. IsRecord(mem) /\ "awaiting" \in DOMAIN mem
  BY DEF Memories, IsRecord
<1>3. Rests(b)
  BY <1>1, <1>2, AnswersRest
<1>4. Policy(c) = c
  BY <1>1 DEF Policy
<1> HIDE DEF c, b
<1>5. Rests(d)
  BY <1>3, RecallRests
<1> HIDE DEF d
<1>6. Rests(Pivot(KeepOnly(AddsToCart(CoerceRemovalCue(d)))))
  BY <1>5, RecallRests
<1> QED BY <1>1, <1>3, <1>4, <1>5, <1>6 DEF ClassifyMessage, Going, b, d, c

\* The wider search is offered to who is asked for a product.
LEMMA NarrowGateIsQuiet ==
    ASSUME NEW c \in Contexts, Rests(c)
    PROVE  LET d == NarrowGate(c)
           IN Rests(d) \/ (d.out # "going" /\ d.m.state = "awaiting_product")
<1> DEFINE m == IF c.t.slot = "correction" THEN NoChoice(c.m) ELSE c.m
           asked == [m EXCEPT !.last = "other", !.awaiting = "broaden",
                              !.broaden = c.t.size, !.broadenAsked = TRUE]
           done == [m EXCEPT !.broadenAsked = FALSE]
           pool == IF c.t.slot = "correction"
                   THEN UNION {VariantsOf(v[1]) : v \in c.m.shown} ELSE c.m.shown
           left == {v[1] : v \in {w \in pool : w[2] = c.t.size}}
           narrow == [Found(Keep(c, done), left) EXCEPT !.scope = c.t.size]
<1>1. c.m \in Memories /\ c.t \in Heard
  BY DEF Contexts
<1>2. m \in Memories /\ m.state = c.m.state /\ Calm(m)
  BY <1>1, ForgetIs, CalmForgets DEF Rests
<1> HIDE DEF m
<1>3. asked \in Memories /\ asked.state = c.m.state
  BY <1>1, <1>2 DEF Memories, Heard, Lasts
<1>4. Calm(done)
  BY <1>2 DEF Calm, IsRecord
<1> HIDE DEF asked, done, left
<1>5. Rests(narrow)
  <2>1. Rests(Keep(c, done))
    BY <1>4, CalmKeeps DEF Rests
  <2> QED BY <2>1 DEF Rests, Calm, IsRecord, Found
<1>6. Rests(ArmBroadenSearch(Keep(c, m), c.t.size))
  <2>1. Rests(Keep(c, m))
    BY <1>2, CalmKeeps DEF Rests
  <2> QED BY <2>1 DEF Rests, Calm, IsRecord, ArmBroadenSearch, Route, Hear
<1>7. /\ Ends(Keep(c, asked), "ask_broaden").out = "ask_broaden"
      /\ Ends(Keep(c, asked), "ask_broaden").m = asked
  BY <1>3, KeepIs, EndsIs DEF Outs
<1>8. Narrows(c) => c.m.state = "awaiting_product"
  BY DEF Narrows
<1> HIDE DEF narrow
<1>9. \/ NarrowGate(c) \in {c, narrow, ArmBroadenSearch(Keep(c, m), c.t.size)}
      \/ NarrowGate(c) = Ends(Keep(c, asked), "ask_broaden") /\ Narrows(c)
  BY DEF NarrowGate, narrow, left, pool, m, asked, done
<1> QED BY <1>3, <1>5, <1>6, <1>7, <1>8, <1>9

\* However a message is read, the wider search stays a question of who looks for a product.
LEMMA QuietStays ==
    ASSUME NEW t, Message(t), Remembered, Quiet(mem)
    PROVE  Quiet(Process(mem, t).m)
<1> DEFINE a == ClassifyMessage(Context(mem, t))
           g == NarrowGate(Media(a))
           b == SearchAndFilter(a)
           d == ProductQuestion(VariantUnavailable(b))
           e == ResolveVariant(d)
<1>1. Process(mem, t) = IF a.out # "going" THEN a ELSE IF b.out # "going" THEN b
                        ELSE IF d.out # "going" THEN d ELSE BuildResponse(e)
  BY DEF Process, Going
<1>5. a.out = "going" /\ b.out = "going" /\ d.out = "going" => OnTrack(e, t, Variants)
  BY ResolvesOnTrack
<1>2. ASSUME NEW c, Rests(c) PROVE Quiet(c.m)
  BY <1>2 DEF Quiet, Rests, Calm
<1>3. CASE t.intent = "human"
  <2>1. Context(mem, t).out = "going" /\ Context(mem, t).t = t /\ Context(mem, t).m = mem
        /\ Context(mem, t) \in Contexts
    BY ContextIs
  <2>2. a = Ends(Context(mem, t), "handoff")
    BY <1>3, <2>1, EndsIs DEF ClassifyMessage, Policy, Going, Outs
  <2>3. a.out = "handoff" /\ a.m = mem
    BY <2>1, <2>2, EndsIs DEF Outs
  <2> QED BY <1>1, <2>3
<1>4. CASE t.intent # "human"
  <2>1. Rests(a)
    BY <1>4, ClassifyMessageRests DEF Remembered, Good
  <2>2. (Fresh(a, t) /\ Cleared(a, t)) \/ Halted(a, t)
    BY ClassifyMessageIs
  <2> HIDE DEF a
  <2>3. CASE a.out # "going"
    BY <1>1, <1>2, <2>1, <2>3
  <2>4. CASE a.out = "going"
    <3>1. Begun(a, t, Held(t)) /\ a.found = {}
      BY <2>2, <2>4, FreshIsBegun DEF Fresh, Unsearched, Halted, Outs
    <3>2. Media(a) \in Contexts /\ Rests(Media(a))
      BY <2>1, <3>1, MediaBegins, MediaRests DEF Begun, OnTrack
    <3>3. Rests(g) \/ (g.out # "going" /\ g.m.state = "awaiting_product")
      BY <3>2, NarrowGateIsQuiet
    <3>4. b = IF g.out = "going" THEN Search(FocusGate(g)) ELSE g
      BY DEF SearchAndFilter, Going
    <3>5. OnTrack(b, t, Held(t)) \/ Over(b, t)
      BY <3>1, SearchAndFilterIs
    <3> HIDE DEF g, b
    <3>6. Rests(b) \/ (b.out # "going" /\ b.m.state = "awaiting_product")
      BY <3>3, <3>4, SearchRests
    <3>7. CASE b.out # "going"
      BY <1>1, <1>2, <2>4, <3>6, <3>7 DEF Quiet
    <3>8. CASE b.out = "going"
      <4>1. Rests(d)
        BY <3>6, <3>8, VariantUnavailableRests
      <4>2. d.out = "going" => OnTrack(d, t, Held(t))
        <5>1. OnTrack(b, t, Held(t))
          BY <3>5, <3>8 DEF Over, Outs
        <5>2. OnTrack(d, t, Held(t)) \/ Over(d, t)
          BY <5>1, VariantUnavailableOnTrack, ProductQuestionOnTrack
        <5> QED BY <5>2 DEF Over, Outs
      <4> HIDE DEF d
      <4>3. CASE d.out # "going"
        BY <1>1, <1>2, <2>4, <3>8, <4>1, <4>3
      <4>4. CASE d.out = "going"
        <5>1. Rests(e) /\ OnTrack(e, t, Variants)
          BY <1>5, <2>4, <3>8, <4>1, <4>2, <4>4, ResolveVariantRests
        <5> HIDE DEF e
        <5>2. Rests(BuildResponse(e))
          BY <5>1, ReplyRests DEF OnTrack, Good
        <5> QED BY <1>1, <1>2, <2>4, <3>8, <4>4, <5>2
      <4> QED BY <4>3, <4>4
    <3> QED BY <3>7, <3>8
  <2> QED BY <2>3, <2>4
<1> QED BY <1>3, <1>4

(***************************************************************************)
(* A product with variants is selected, and variants are available, only   *)
(* if some were shown.  Again a stage that looks for nothing needs no      *)
(* types but that a turn and its memory are records.                       *)
(***************************************************************************)
Listed(m) == m.avail # {} \/ VariantsOf(m.product) # {} => m.shown # {}

LEMMA NothingIsOfNone == VariantsOf(NoProduct) = {}
BY SomeVariant, ReplyEngineAssumption DEF VariantsOf, ReplyEngineAssumption

Lists(m) == IsRecord(m) /\ {"avail", "shown", "product"} \subseteq DOMAIN m /\ Listed(m)
Minds(c) == IsRecord(c) /\ "m" \in DOMAIN c /\ Lists(c.m)

\* What was found was shown as well, if it has variants.
Shows(c) ==
    /\ Minds(c) /\ {"found", "head", "scope"} \subseteq DOMAIN c
    /\ \A p \in c.found \cup {c.head} : VariantsOf(p) # {} => c.m.shown # {}

LEMMA ListsForgets ==
    ASSUME NEW m, Lists(m)
    PROVE  /\ Lists(NoChoice(m)) /\ Lists(ClearSelection(m))
           /\ NoChoice(m).shown = m.shown
BY NothingIsOfNone DEF Lists, Listed, NoChoice, ClearSelection, IsRecord

LEMMA MindsKeeps ==
    ASSUME NEW c, IsRecord(c), "m" \in DOMAIN c, NEW m, Lists(m)
    PROVE  Minds(Keep(c, m))
BY DEF Minds, Keep, IsRecord

LEMMA ShowsKeeps ==
    ASSUME NEW c, Shows(c), NEW m, Lists(m), c.m.shown # {} => m.shown # {}
    PROVE  Shows(Keep(c, m))
BY DEF Shows, Minds, Keep, IsRecord

LEMMA UpdatesMind ==
    ASSUME NEW c, Minds(c), NEW x, NEW y
    PROVE  Minds(Route(c, x, y)) /\ Minds(Hear(c, x)) /\ Minds(Ends(c, x))
BY DEF Minds, Lists, Route, Hear, Ends, IsRecord

LEMMA UpdatesShow ==
    ASSUME NEW c, Shows(c), NEW x, NEW y
    PROVE  Shows(Route(c, x, y)) /\ Shows(Hear(c, x)) /\ Shows(Ends(c, x))
BY DEF Shows, Minds, Lists, Route, Hear, Ends, IsRecord

LEMMA FoundShows ==
    ASSUME NEW c, Shows(c), NEW S, \A p \in S : VariantsOf(p) # {} => c.m.shown # {}
    PROVE  Shows(Found(c, S))
<1> DEFINE h == IF S = {} THEN NoProduct ELSE The(S)
<1>1. h \in S \/ h = NoProduct
  BY DEF The
<1> HIDE DEF h
<1>2. Shows([c EXCEPT !.found = S, !.head = h])
  BY <1>1, NothingIsOfNone DEF Shows, Minds, IsRecord
<1> QED BY <1>2 DEF Found, h

\* Updates of the memory that change nothing of what is listed.
LEMMA SameIsListed ==
    ASSUME NEW m, Lists(m), NEW x, NEW y, NEW z
    PROVE  /\ LET n == [m EXCEPT !.state = x] IN Lists(n) /\ n.shown = m.shown
           /\ LET n == [m EXCEPT !.last = x] IN Lists(n) /\ n.shown = m.shown
           /\ LET n == [m EXCEPT !.variant = x] IN Lists(n) /\ n.shown = m.shown
           /\ LET n == [m EXCEPT !.variant = x, !.named = y] IN Lists(n) /\ n.shown = m.shown
           /\ LET n == [m EXCEPT !.variant = x, !.named = y, !.state = z]
              IN Lists(n) /\ n.shown = m.shown
           /\ LET n == [m EXCEPT !.title = x, !.named = y] IN Lists(n) /\ n.shown = m.shown
           /\ LET n == [m EXCEPT !.cart = x, !.state = y] IN Lists(n) /\ n.shown = m.shown
           /\ LET n == [m EXCEPT !.last = x, !.awaiting = y] IN Lists(n) /\ n.shown = m.shown
BY DEF Lists, Listed, IsRecord

LEMMA OffersShow ==
    ASSUME NEW c, Shows(c), NEW v
    PROVE  Shows(Offer(c, v)) /\ Shows(Ask(c)) /\ Shows(Unavailable(c))
<1>1. Lists(c.m)
  BY DEF Shows, Minds
<1>2. Shows(Keep(c, [c.m EXCEPT !.state = "awaiting_variant"]))
  BY <1>1, SameIsListed, ShowsKeeps
<1>3. Shows(Select(c, v, TRUE))
  BY DEF Shows, Minds, Lists, Listed, IsRecord, Select, Keep
<1> QED BY <1>2, <1>3, UpdatesShow DEF Offer, ConfirmIntent, Ask, Unavailable

LEMMA ChooseShows ==
    ASSUME NEW c, Shows(c), NEW S
    PROVE  Shows(Choose(c, S))
BY OffersShow DEF Choose

\* The stages of ClassifyMessage.
LEMMA RecallMinds ==
    ASSUME NEW c, Minds(c)
    PROVE  /\ Minds(AnswerCartRemoval(c)) /\ Minds(AnswerBroaden(c))
           /\ Minds(GreetingReset(c)) /\ Minds(PostOrder(c)) /\ Minds(CoerceRemovalCue(c))
           /\ Minds(AddsToCart(c)) /\ Minds(KeepOnly(c)) /\ Minds(Pivot(c))
<1>1. IsRecord(c) /\ "m" \in DOMAIN c /\ Lists(c.m)
  BY DEF Minds
<1>2. ASSUME NEW m, Lists(m), NEW x, NEW y, NEW z
      PROVE  /\ Lists([m EXCEPT !.awaiting = x, !.pivot = y])
             /\ Lists([m EXCEPT !.cart = x, !.removalAsked = y])
             /\ Lists([m EXCEPT !.awaiting = x, !.broaden = y])
             /\ Lists([m EXCEPT !.broadenAsked = x]) /\ Lists([m EXCEPT !.last = x])
             /\ Lists([m EXCEPT !.cart = x]) /\ Lists([m EXCEPT !.state = x])
             /\ Lists([m EXCEPT !.awaiting = x]) /\ Lists([m EXCEPT !.cart = x, !.last = y])
             /\ Lists([m EXCEPT !.pivot = x, !.awaiting = y, !.removalAsked = z])
  BY <1>2 DEF Lists, Listed, IsRecord
<1>3. Minds(AnswerCartRemoval(c))
  <2> DEFINE calm == [c.m EXCEPT !.awaiting = "other", !.pivot = NoProduct]
             left(x) == [calm EXCEPT !.cart = x, !.removalAsked = FALSE]
  <2>1. Lists(calm)
    BY <1>1, <1>2
  <2> HIDE DEF calm
  <2>2. ASSUME NEW x PROVE Lists(ClearSelection(left(x)))
    BY <1>2, <2>1, ListsForgets
  <2> HIDE DEF left
  <2>3. Minds(Keep(c, calm)) /\ \A x : Minds(Keep(c, ClearSelection(left(x))))
    BY <1>1, <2>1, <2>2, MindsKeeps
  <2> QED BY <2>3, UpdatesMind DEF AnswerCartRemoval, calm, left
<1>4. Minds(AnswerBroaden(c))
  <2> DEFINE calm == [c.m EXCEPT !.awaiting = "other", !.broaden = NoSize]
             done == [calm EXCEPT !.broadenAsked = FALSE]
             over == [done EXCEPT !.last = "other"]
  <2>1. Lists(calm)
    BY <1>1, <1>2
  <2> HIDE DEF calm
  <2>2. Lists(done)
    BY <1>2, <2>1
  <2> HIDE DEF done
  <2>3. Lists(over)
    BY <1>2, <2>2
  <2> HIDE DEF over
  <2>4. Minds(Keep(c, calm)) /\ Minds(Keep(c, done)) /\ Minds(Keep(c, over))
    BY <1>1, <2>1, <2>2, <2>3, MindsKeeps
  <2>5. ASSUME NEW d, Minds(d), NEW z PROVE Minds(ArmBroadenSearch(d, z))
    BY <2>5 DEF Minds, Lists, IsRecord, ArmBroadenSearch, Route, Hear
  <2> QED BY <2>4, <2>5, UpdatesMind DEF AnswerBroaden, calm, done, over
<1>5. Minds(GreetingReset(c)) /\ Minds(PostOrder(c))
  <2>1. ASSUME NEW x, NEW y, NEW z, NEW w
        PROVE  /\ Lists([NoMemory EXCEPT !.pivot = x, !.removalAsked = y])
               /\ Lists([NoMemory EXCEPT !.pivot = x, !.removalAsked = y, !.broadenAsked = z,
                                         !.broaden = w])
    BY NothingIsOfNone DEF Lists, Listed, IsRecord, NoMemory
  <2> QED BY <1>1, <2>1, MindsKeeps, UpdatesMind DEF GreetingReset, PostOrder
<1>6. Minds(CoerceRemovalCue(c))
  BY UpdatesMind DEF CoerceRemovalCue
<1>7. Minds(AddsToCart(c))
  <2> DEFINE m == IF Pending(c.m) /\ ~(\E i \in c.m.cart : /\ i.product = c.m.product
                                                           /\ i.variant = c.m.variant)
                  THEN [c.m EXCEPT !.cart = c.m.cart \cup {Item(c.m)}] ELSE c.m
  <2>1. Lists(m)
    BY <1>1, <1>2
  <2> HIDE DEF m
  <2>2. Lists([NoChoice(m) EXCEPT !.state = "awaiting_product"]) /\ Lists(ClearSelection(m))
    BY <1>2, <2>1, ListsForgets
  <2> QED BY <1>1, <2>2, MindsKeeps DEF AddsToCart, m
<1>8. Minds(KeepOnly(c))
  BY <1>1, NothingIsOfNone
     DEF Minds, Lists, Listed, IsRecord, KeepOnly, Keep, ClearSelection, NoChoice
<1>9. Minds(Pivot(c))
  <2>1. ASSUME NEW m, Lists(m), NEW x PROVE Minds(Leave(c, m, x))
    <3>1. Lists([ClearSelection(m) EXCEPT !.awaiting = "other"])
      BY <1>2, <2>1, ListsForgets
    <3> QED BY <1>1, <3>1, MindsKeeps, UpdatesMind DEF Leave
  <2>2. Minds(AskWhichToRemove(c))
    BY <1>1, <1>2, MindsKeeps, UpdatesMind DEF AskWhichToRemove
  <2>3. ASSUME NEW x PROVE Lists([c.m EXCEPT !.cart = x, !.removalAsked = FALSE])
    BY <1>1, <1>2
  <2> QED BY <1>1, <2>1, <2>2, <2>3 DEF Pivot
<1> QED BY <1>3, <1>4, <1>5, <1>6, <1>7, <1>8, <1>9

LEMMA ClassifyMessageMinds ==
    ASSUME NEW t, t.intent # "human", mem \in Memories, Listed(mem)
    PROVE  Minds(ClassifyMessage(Context(mem, t)))
<1> DEFINE c == Context(mem, t)
           b == AnswerBroaden(AnswerCartRemoval(c))
           d == PostOrder(GreetingReset(b))
<1>1. c.m = mem /\ IsRecord(c) /\ "m" \in DOMAIN c /\ c.t.intent # "human" /\ c.out = "going"
  BY DEF Context, IsRecord
<1>2. Lists(mem)
  BY DEF Memories, IsRecord, Lists
<1>3. Minds(c) /\ Policy(c) = c
  BY <1>1, <1>2 DEF Minds, Policy
<1> HIDE DEF c
<1>4. Minds(b)
  BY <1>3, RecallMinds
<1> HIDE DEF b
<1>5. Minds(d)
  BY <1>4, RecallMinds
<1> HIDE DEF d
<1>6. Minds(Pivot(KeepOnly(AddsToCart(CoerceRemovalCue(d)))))
  BY <1>5, RecallMinds
<1> QED BY <1>1, <1>3, <1>4, <1>5, <1>6 DEF ClassifyMessage, Going, b, d, c

LEMMA MediaShows ==
    ASSUME NEW c, Shows(c)
    PROVE  Shows(Media(c))
<1> DEFINE p == c.t.photo
           seen == AsInquiry(SeeProduct(c, p))
           S == VariantsOf(p)
           offer == Available(S)
           state == IF c.m.state # "none" THEN c.m.state
                    ELSE IF Cardinality(offer) = 1 THEN "awaiting_confirmation"
                    ELSE "awaiting_variant"
           m == [c.m EXCEPT !.shown = S, !.product = p, !.title = p, !.avail = offer,
                            !.state = state]
<1>1. ASSUME NEW d, Shows(d), NEW x PROVE Shows(Keep(d, [NoChoice(d.m) EXCEPT !.state = x]))
  <2> DEFINE n == NoChoice(d.m)
  <2>1. Lists(n) /\ n.shown = d.m.shown
    BY <1>1, ListsForgets DEF Shows, Minds
  <2> HIDE DEF n
  <2>2. Lists([n EXCEPT !.state = x]) /\ [n EXCEPT !.state = x].shown = n.shown
    BY <2>1, SameIsListed
  <2> QED BY <1>1, <2>1, <2>2, ShowsKeeps DEF n
<1>2. Shows(SeeProduct(c, p))
  <2>1. offer \subseteq S
    BY DEF Available
  <2> HIDE DEF offer, state, S
  <2>2. Lists(m) /\ m.shown = S
    BY <2>1 DEF Shows, Minds, Lists, Listed, IsRecord, S
  <2> HIDE DEF m
  <2> DEFINE k == Keep(c, m)
  <2>3. IsRecord(k) /\ {"m", "found", "head", "scope"} \subseteq DOMAIN k /\ k.m = m
    BY DEF Shows, Minds, Keep, IsRecord
  <2> HIDE DEF k
  <2>4. ASSUME NEW u
        PROVE  LET h == Hear(k, u)
               IN IsRecord(h) /\ {"m", "found", "head", "scope"} \subseteq DOMAIN h /\ h.m = m
    BY <2>3 DEF Hear, IsRecord
  <2>5. ASSUME NEW h, IsRecord(h), {"m", "found", "head", "scope"} \subseteq DOMAIN h, h.m = m
        PROVE  Shows(Found(h, {p}))
    <3>1. Found(h, {p}) = [h EXCEPT !.found = {p}, !.head = p]
      <4>1. The({p}) = p
        BY DEF The
      <4> QED BY <4>1 DEF Found
    <3> DEFINE g == Found(h, {p})
    <3>2. IsRecord(g) /\ DOMAIN g = DOMAIN h
      BY <3>1 DEF IsRecord
    <3>3. g.m = m /\ g.found = {p} /\ g.head = p
      BY <2>5, <3>1
    <3> HIDE DEF g
    <3>4. Minds(g) /\ {"found", "head", "scope"} \subseteq DOMAIN g
      BY <2>2, <2>5, <3>2, <3>3 DEF Minds
    <3>5. \A q \in g.found \cup {g.head} : VariantsOf(q) # {} => g.m.shown # {}
      <4>1. \A q \in g.found \cup {g.head} : q = p
        BY <3>3
      <4> QED BY <2>2, <3>3, <4>1 DEF S
    <3>6. Shows(g)
      BY <3>4, <3>5 DEF Shows
    <3> QED BY <3>6 DEF g
  <2>6. SeeProduct(c, p) = Found(Hear(k, [c.t EXCEPT !.names = IF c.t.names \in Products THEN p
                                                               ELSE c.t.names]), {p})
    BY DEF SeeProduct, k, m, state, offer, S
  <2> QED BY <2>4, <2>5, <2>6
<1>3. Shows(seen)
  BY <1>1, <1>2, UpdatesShow DEF AsInquiry
<1> HIDE DEF seen
<1>4. Shows(Keep(seen, [NoChoice(seen.m) EXCEPT !.state = "awaiting_variant"]))
  BY <1>1, <1>3
<1> QED BY <1>3, <1>4, OffersShow DEF Media, seen

LEMMA GatesShow ==
    ASSUME NEW c, Shows(c)
    PROVE  Shows(NarrowGate(c)) /\ Shows(FocusGate(c))
<1>1. Shows(FocusGate(c))
  BY FoundShows DEF FocusGate, Shows, Minds, Lists, Listed
<1>2. CASE ~Narrows(c)
  BY <1>1, <1>2 DEF NarrowGate
<1>3. CASE Narrows(c)
  <2> DEFINE m == IF c.t.slot = "correction" THEN NoChoice(c.m) ELSE c.m
             asked == [m EXCEPT !.last = "other", !.awaiting = "broaden",
                                !.broaden = c.t.size, !.broadenAsked = TRUE]
             done == [m EXCEPT !.broadenAsked = FALSE]
             pool == IF c.t.slot = "correction"
                     THEN UNION {VariantsOf(v[1]) : v \in c.m.shown} ELSE c.m.shown
             left == {v[1] : v \in {w \in pool : w[2] = c.t.size}}
             narrow == [Found(Keep(c, done), left) EXCEPT !.scope = c.t.size]
             arm == ArmBroadenSearch(Keep(c, m), c.t.size)
  <2>1. Lists(m) /\ m.shown # {}
    BY <1>3, ListsForgets DEF Narrows, Shows, Minds
  <2> HIDE DEF m
  <2>2. Lists(asked) /\ asked.shown = m.shown /\ Lists(done) /\ done.shown = m.shown
    BY <2>1 DEF Lists, Listed, IsRecord
  <2> HIDE DEF asked, done, left
  <2>3. Shows(Ends(Keep(c, asked), "ask_broaden"))
    BY <2>1, <2>2, ShowsKeeps, UpdatesShow
  <2>4. Shows(arm)
    <3>1. Shows(Keep(c, m))
      BY <2>1, ShowsKeeps
    <3> QED BY <3>1 DEF Shows, Minds, Lists, IsRecord, ArmBroadenSearch, Route, Hear
  <2>5. Shows(narrow)
    <3>1. Shows(Keep(c, done)) /\ Keep(c, done).m = done
      <4>1. Keep(c, done).m = done
        BY DEF Keep, Shows, Minds, IsRecord
      <4> QED BY <2>1, <2>2, <4>1, ShowsKeeps
    <3>2. Shows(Found(Keep(c, done), left))
      BY <2>1, <2>2, <3>1, FoundShows
    <3> QED BY <3>2 DEF Shows, Minds, Lists, IsRecord
  <2> HIDE DEF narrow, arm
  <2>6. NarrowGate(c) \in {c, narrow, arm, Ends(Keep(c, asked), "ask_broaden")}
    BY DEF NarrowGate, narrow, arm, left, pool, m, asked, done
  <2> QED BY <1>1, <2>3, <2>4, <2>5, <2>6
<1> QED BY <1>2, <1>3

\* Without a size the search was for, all that the catalogue has of the product is found.
LEMMA AllIsFound ==
    ASSUME NEW c, c.scope = NoSize, NEW p
    PROVE  FoundVariants(c, p) = VariantsOf(p)
BY DEF FoundVariants

\* Of each product that is found, some variant is, if it has any.
LEMMA SizedIs ==
    ASSUME NEW c, Shows(c)
    PROVE  LET h == Sized(c)
           IN /\ Minds(h) /\ {"found", "head", "scope"} \subseteq DOMAIN h /\ h.m = c.m
              /\ h.head = IF h.found = {} THEN NoProduct ELSE The(h.found)
              /\ \A q \in h.found : VariantsOf(q) # {} => FoundVariants(h, q) # {}
<1> DEFINE Right(h) == /\ Minds(h) /\ {"found", "head", "scope"} \subseteq DOMAIN h /\ h.m = c.m
                       /\ h.head = IF h.found = {} THEN NoProduct ELSE The(h.found)
           carrying(s) == {p \in Hits(c) : s \in Carried[p]}
<1>1. Hits(c) \subseteq Products
  BY DEF Hits, SearchProducts, CheckAll
<1>2. ASSUME NEW S, NEW s
      PROVE  /\ Right(Found(c, S)) /\ Found(c, S).found = S /\ Found(c, S).scope = c.scope
             /\ LET h == [Found(c, S) EXCEPT !.scope = s]
                IN Right(h) /\ h.found = S /\ h.scope = s
  <2> DEFINE hd == IF S = {} THEN NoProduct ELSE The(S)
             f == [c EXCEPT !.found = S, !.head = hd]
  <2> HIDE DEF hd
  <2>1. /\ Minds(f) /\ {"found", "head", "scope"} \subseteq DOMAIN f /\ f.m = c.m
        /\ f.found = S /\ f.head = hd /\ f.scope = c.scope
    BY DEF Shows, Minds, IsRecord
  <2>2. Found(c, S) = f
    BY DEF Found, hd
  <2> HIDE DEF f
  <2>3. LET h == [f EXCEPT !.scope = s]
        IN /\ Minds(h) /\ {"found", "head", "scope"} \subseteq DOMAIN h /\ h.m = c.m
           /\ h.found = S /\ h.head = hd /\ h.scope = s
    BY <2>1 DEF Minds, IsRecord
  <2> QED BY <2>1, <2>2, <2>3 DEF hd
<1> HIDE DEF Right
<1>3. ASSUME NEW s, NEW q \in carrying(s), NEW h, h.scope = s
      PROVE  FoundVariants(h, q) # {}
  <2>1. q \in Products /\ s \in Carried[q]
    BY <1>1
  <2>2. <<q, s>> \in VariantsOf(q)
    BY <2>1 DEF Variants, VariantsOf
  <2>3. <<q, s>> \in FoundVariants(h, q)
    BY <1>3, <2>2 DEF FoundVariants
  <2> QED BY <2>3
<1>4. ASSUME NEW q, NEW h, h.scope = NoSize PROVE FoundVariants(h, q) = VariantsOf(q)
  BY <1>4, AllIsFound
<1> HIDE DEF carrying
<1> DEFINE Fitting(h) == \A q \in h.found : VariantsOf(q) # {} => FoundVariants(h, q) # {}
<1>5. CASE c.scope # NoSize
  <2>1. Sized(c) = Found(c, carrying(c.scope))
    BY <1>5 DEF Sized, carrying
  <2> DEFINE S == carrying(c.scope)
             h == Found(c, S)
  <2>2. Right(h) /\ h.found = S /\ h.scope = c.scope
    BY <1>2
  <2>3. Fitting(h)
    BY <1>3, <2>2
  <2> QED BY <2>1, <2>2, <2>3 DEF Right
<1>6. CASE c.scope = NoSize /\ c.t.size # NoSize /\ carrying(c.t.size) # {}
  <2>1. Sized(c) = [Found(c, carrying(c.t.size)) EXCEPT !.scope = c.t.size]
    BY <1>6 DEF Sized, carrying
  <2> DEFINE S == carrying(c.t.size)
             h == [Found(c, S) EXCEPT !.scope = c.t.size]
  <2>2. Right(h) /\ h.found = S /\ h.scope = c.t.size
    BY <1>2
  <2>3. Fitting(h)
    BY <1>3, <2>2
  <2> QED BY <2>1, <2>2, <2>3 DEF Right
<1>7. CASE c.scope = NoSize /\ ~(c.t.size # NoSize /\ carrying(c.t.size) # {})
  <2>1. Sized(c) = Found(c, Hits(c))
    BY <1>7 DEF Sized, carrying
  <2> DEFINE h == Found(c, Hits(c))
  <2>2. Right(h) /\ h.scope = NoSize
    BY <1>2, <1>7
  <2>3. Fitting(h)
    BY <1>4, <2>2
  <2> QED BY <2>1, <2>2, <2>3 DEF Right
<1> QED BY <1>5, <1>6, <1>7

LEMMA LockShows ==
    ASSUME NEW h, Minds(h), {"found", "head", "scope"} \subseteq DOMAIN h, h.found # {},
           h.head = The(h.found), h.m.product = NoProduct => h.m.avail = {},
           \A q \in h.found : VariantsOf(q) # {} => FoundVariants(h, q) # {}
    PROVE  Shows(Lock(h))
<1> DEFINE p == IF h.m.product \in h.found THEN h.m.product ELSE h.head
           S == UNION {FoundVariants(h, q) : q \in h.found}
           avail == Available(FoundVariants(h, p))
           shown == [h.m EXCEPT !.shown = S]
           m == [shown EXCEPT !.avail = avail, !.product = p, !.title = p]
<1>1. p \in h.found /\ h.head \in h.found
  BY DEF The
<1>2. avail \subseteq S /\ \A q \in h.found : VariantsOf(q) # {} => S # {}
  BY <1>1 DEF Available
<1>3. Shows(LockHolds(h))
  <2>1. Found(h, {}) = [h EXCEPT !.found = {}, !.head = NoProduct]
    BY DEF Found
  <2>2. Shows(Found(h, {}))
    BY <2>1, NothingIsOfNone DEF Shows, Minds, IsRecord
  <2> QED BY <2>2, OffersShow DEF LockHolds
<1>4. Present(h) = Keep(h, shown)
  BY DEF Present
<1> HIDE DEF p, S, avail
<1>5. IsRecord(shown) /\ {"avail", "shown", "product"} \subseteq DOMAIN shown /\ shown.shown = S
      /\ shown.avail = h.m.avail /\ shown.product = h.m.product
  BY DEF Minds, Lists, IsRecord
<1> HIDE DEF shown
<1>6. h.m.product = NoProduct => Shows(Present(h))
  BY <1>1, <1>2, <1>4, <1>5, NothingIsOfNone DEF Shows, Minds, Lists, Listed, IsRecord, Keep
<1>7. Lists(m) /\ m.shown = S
  BY <1>1, <1>2, <1>5 DEF Lists, Listed, IsRecord
<1>8. Present(h).m = shown
  BY <1>4 DEF Keep, Minds, IsRecord
<1> HIDE DEF m
<1>9. Shows([Keep(h, m) EXCEPT !.head = p])
  BY <1>1, <1>2, <1>7 DEF Shows, Minds, IsRecord, Keep
<1>10. \/ Lock(h) = LockHolds(h)
       \/ Lock(h) = Present(h) /\ h.m.product = NoProduct
       \/ Lock(h) = [Keep(h, m) EXCEPT !.head = p]
  BY <1>8 DEF Lock, p, avail, m
<1> QED BY <1>3, <1>6, <1>9, <1>10

LEMMA SearchShows ==
    ASSUME NEW c, Shows(c), c.m.product = NoProduct => c.m.avail = {}
    PROVE  Shows(Search(c)) /\ Shows(NothingFound(c))
<1>1. ASSUME NEW d, Shows(d) PROVE Shows(NothingFound(d))
  <2>1. Lists(d.m)
    BY <1>1 DEF Shows, Minds
  <2>2. Lists(Said(d.m, "other")) /\ Said(d.m, "other").shown = d.m.shown
    BY <2>1 DEF Said, Lists, Listed, IsRecord
  <2> QED BY <1>1, <2>2, ShowsKeeps, UpdatesShow DEF NothingFound
<1>2. ASSUME NEW d, Shows(d), NEW f PROVE Shows(FirstShown(d, f))
  <2>1. ASSUME NEW e, Shows(e), NEW x
        PROVE  Shows(Keep(e, [e.m EXCEPT !.state = x]))
    <3> DEFINE n == [e.m EXCEPT !.state = x]
    <3>1. Lists(n) /\ n.shown = e.m.shown
      BY <2>1, SameIsListed DEF Shows, Minds
    <3> HIDE DEF n
    <3> QED BY <2>1, <3>1, ShowsKeeps DEF n
  <2>2. ASSUME NEW e, Shows(e), NEW x
        PROVE  Shows([e EXCEPT !.first = x]) /\ Shows([e EXCEPT !.action = x])
    BY <2>2 DEF Shows, Minds, IsRecord
  <2> DEFINE e == IF f THEN [Keep(d, [d.m EXCEPT !.state = "awaiting_product"])
                               EXCEPT !.first = TRUE]
                  ELSE d
  <2>3. Shows(e)
    BY <1>2, <2>1, <2>2
  <2> HIDE DEF e
  <2>4. Shows([Keep(e, [e.m EXCEPT !.state = "awaiting_confirmation"])
                 EXCEPT !.action = "confirm_selection"])
    BY <2>1, <2>2, <2>3
  <2> QED BY <2>3, <2>4 DEF FirstShown, e
<1> DEFINE d == IF c.t.slot = "correction" THEN Keep(c, NoChoice(c.m)) ELSE c
<1>3. Shows(d) /\ (d.m.product = NoProduct => d.m.avail = {})
  <2>1. Lists(NoChoice(c.m)) /\ NoChoice(c.m).shown = c.m.shown
    BY ListsForgets DEF Shows, Minds
  <2>2. Shows(Keep(c, NoChoice(c.m))) /\ Keep(c, NoChoice(c.m)).m = NoChoice(c.m)
    <3>1. Keep(c, NoChoice(c.m)).m = NoChoice(c.m)
      BY DEF Keep, Shows, Minds, IsRecord
    <3> QED BY <2>1, <3>1, ShowsKeeps
  <2>3. NoChoice(c.m).product = c.m.product /\ NoChoice(c.m).avail = c.m.avail
    BY DEF NoChoice, Shows, Minds, Lists, IsRecord
  <2> QED BY <2>2, <2>3
<1> HIDE DEF d
<1>4. Sized(d).found # {} => Shows(Lock(Sized(d)))
  BY <1>3, SizedIs, LockShows
<1> QED BY <1>1, <1>2, <1>3, <1>4 DEF Search, d

LEMMA VariantUnavailableShows ==
    ASSUME NEW c, Shows(c)
    PROVE  Shows(VariantUnavailable(c)) /\ Shows(ProductQuestion(c))
<1> DEFINE k == NoChoice(c.m)
           n == [k EXCEPT !.product = c.head, !.last = "other"]
           about(m) == [Keep(c, m) EXCEPT !.first = FALSE]
           here == Available(FoundVariants(c, c.head))
           all == Available(VariantsOf(c.head))
<1>1. Lists(k) /\ k.shown = c.m.shown
  BY ListsForgets DEF Shows, Minds
<1> HIDE DEF k
<1>2. /\ IsRecord(n) /\ {"avail", "shown", "product"} \subseteq DOMAIN n /\ n.product = c.head
      /\ n.shown = c.m.shown /\ Lists(n)
  BY <1>1 DEF Lists, Listed, IsRecord, Shows
<1> HIDE DEF n
<1>3. here \subseteq VariantsOf(c.head) /\ all \subseteq VariantsOf(c.head)
  BY DEF Available, FoundVariants
<1> HIDE DEF here, all
<1>4. ASSUME NEW S, S \subseteq VariantsOf(c.head)
      PROVE  LET m == [n EXCEPT !.avail = S] IN Lists(m) /\ m.shown = c.m.shown
  BY <1>2, <1>4 DEF Lists, Listed, IsRecord, Shows
<1>5. LET m == [n EXCEPT !.state = "awaiting_product"] IN Lists(m) /\ m.shown = c.m.shown
  BY <1>2, SameIsListed
<1>6. LET m == [n EXCEPT !.state = "awaiting_product", !.avail = all]
      IN Lists(m) /\ m.shown = c.m.shown
  BY <1>2, <1>3 DEF Lists, Listed, IsRecord, Shows
<1>7. ASSUME NEW m, Lists(m), m.shown = c.m.shown PROVE Shows(about(m))
  <2>1. Shows(Keep(c, m))
    BY <1>7, ShowsKeeps
  <2> QED BY <2>1 DEF Shows, Minds, IsRecord
<1> HIDE DEF about
<1>8. Shows(VariantUnavailable(c))
  <2>1. /\ Shows(about([n EXCEPT !.avail = here]))
        /\ Shows(about([n EXCEPT !.state = "awaiting_product"]))
        /\ Shows(about([n EXCEPT !.state = "awaiting_product", !.avail = all]))
    BY <1>3, <1>4, <1>5, <1>6, <1>7
  <2> QED BY <2>1, OffersShow, UpdatesShow DEF VariantUnavailable, about, n, k, here, all
<1>9. Shows(ProductQuestion(c))
  <2>1. Lists(c.m)
    BY DEF Shows, Minds
  <2> QED BY <2>1, SameIsListed, ShowsKeeps, UpdatesShow DEF ProductQuestion
<1> QED BY <1>8, <1>9

LEMMA ResolveVariantShows ==
    ASSUME NEW c, Shows(c)
    PROVE  Shows(ResolveVariant(c))
<1>1. ASSUME NEW d, Shows(d)
      PROVE  Shows(DeclineOffer(d)) /\ Shows(AddToCart(d)) /\ Shows(CheckOut(d))
  <2>1. Lists(d.m) /\ Lists(NoChoice(d.m)) /\ NoChoice(d.m).shown = d.m.shown
    BY <1>1, ListsForgets DEF Shows, Minds
  <2>2. Shows(DeclineOffer(d))
    BY <1>1, <2>1, SameIsListed, ShowsKeeps, UpdatesShow DEF DeclineOffer
  <2>3. ASSUME NEW n, Lists(n), n.shown = d.m.shown, NEW x, NEW y
        PROVE  Shows(Route(Keep(d, n), x, y))
    BY <1>1, <2>3, ShowsKeeps, UpdatesShow
  <2>4. ASSUME NEW x, NEW y
        PROVE  /\ LET n == [d.m EXCEPT !.cart = x, !.state = y]
                  IN Lists(n) /\ n.shown = d.m.shown
               /\ LET n == [d.m EXCEPT !.state = x] IN Lists(n) /\ n.shown = d.m.shown
    BY <2>1 DEF Lists, Listed, IsRecord
  <2>5. Shows(AddToCart(d))
    BY <1>1, <2>3, <2>4 DEF AddToCart
  <2>6. Shows(CheckOut(d))
    BY <1>1, <2>3, <2>4 DEF CheckOut
  <2> QED BY <2>2, <2>5, <2>6
<1>2. ASSUME NEW d, Shows(d)
      PROVE  Shows(AskedForAnother(d)) /\ Shows(ConfirmsProduct(d)) /\ Shows(PicksVariant(d))
  BY <1>2, OffersShow, ChooseShows DEF AskedForAnother, ConfirmsProduct, PicksVariant
<1>3. ASSUME NEW d, Shows(d) PROVE Shows(FillsVariant(d))
  <2> DEFINE here == Available(FoundVariants(d, d.head))
             e == Choose(d, here)
             n == [e.m EXCEPT !.avail = here]
  <2>1. Shows(e)
    BY <1>3, ChooseShows
  <2>2. e.m.shown = d.m.shown
    BY <1>3 DEF Choose, Offer, ConfirmIntent, Ask, Select, Route, Keep, Shows, Minds, Lists, IsRecord
  <2>3. here # {} => VariantsOf(d.head) # {}
    BY DEF Available, FoundVariants
  <2> HIDE DEF e, here
  <2>4. Lists(n) /\ n.shown = e.m.shown
    BY <1>3, <2>1, <2>2, <2>3 DEF Shows, Minds, Lists, Listed, IsRecord
  <2>5. Shows(Keep(e, n))
    BY <2>1, <2>4, ShowsKeeps
  <2> QED BY <1>3, <2>1, <2>5 DEF FillsVariant, n, e, here
<1> QED BY <1>1, <1>2, <1>3 DEF ResolveVariant

LEMMA RememberShows ==
    ASSUME NEW c, Shows(c), NEW s \in Scenarios \cup {"fallback"}
    PROVE  Shows(Keep(c, Remember(c, s)))
<1> DEFINE As(m) == Lists(m) /\ m.shown = c.m.shown
           confirmed == [Said(c.m, "confirmed_product") EXCEPT !.state = "awaiting_confirmation"]
           recommended == [Said(c.m, "gave_recommendation") EXCEPT !.state = "awaiting_confirmation"]
<1>1. As(c.m)
  BY DEF Shows, Minds
<1>2. ASSUME NEW l PROVE As(Said(c.m, l))
  BY <1>1 DEF Said, Lists, Listed, IsRecord
<1>3. ASSUME NEW m, As(m), NEW x, NEW y
      PROVE  /\ As([m EXCEPT !.last = x]) /\ As([m EXCEPT !.state = x])
             /\ As([m EXCEPT !.title = x, !.named = y])
  BY <1>3 DEF Lists, Listed, IsRecord
<1>4. As(confirmed) /\ As(recommended)
  BY <1>2, <1>3
<1>5. ASSUME NEW m, As(m) PROVE As(NoChoice(m))
  BY <1>5, ListsForgets
<1>6. ASSUME NEW m, As(m) PROVE Shows(Keep(c, m))
  BY <1>6, ShowsKeeps
<1>7. As([recommended EXCEPT !.product = c.head, !.title = c.head,
                             !.avail = FoundVariants(c, c.head)])
  <2>1. FoundVariants(c, c.head) # {} => VariantsOf(c.head) # {}
    BY DEF FoundVariants
  <2>2. VariantsOf(c.head) # {} => c.m.shown # {}
    BY DEF Shows
  <2> HIDE DEF recommended
  <2> QED BY <1>4, <2>1, <2>2 DEF Lists, Listed, IsRecord
<1> HIDE DEF As
<1>8. CASE s \in {"faq", "decline", "variant_not_available", "delivery"}
  <2>1. As(Remember(c, s))
    BY <1>1, <1>3, <1>8 DEF Remember
  <2> QED BY <1>6, <2>1
<1>9. CASE s \in {"show_price", "confirm_order", "fallback", "ask_continue"}
  <2>1. As(Remember(c, s))
    BY <1>2, <1>9 DEF Remember
  <2> QED BY <1>6, <2>1
<1>10. CASE s \in {"greeting", "show_products", "ask_delivery", "collect_checkout"}
  <2>1. ASSUME NEW l, NEW x PROVE As([Said(c.m, l) EXCEPT !.state = x])
    BY <1>2, <1>3
  <2>2. As(Remember(c, s))
    BY <1>10, <2>1 DEF Remember
  <2> QED BY <1>6, <2>2
<1>11. CASE s \in {"ask_variant", "price_with_variants"}
  <2>1. As(Remember(c, s))
    BY <1>2, <1>3, <1>5, <1>11 DEF Remember
  <2> QED BY <1>6, <2>1
<1>12. CASE s = "confirm_variant"
  <2>1. Remember(c, s) = confirmed
    BY <1>12 DEF Remember
  <2> QED BY <1>4, <1>6, <2>1
<1>13. CASE s = "confirm_selection"
  <2> DEFINE x == IF c.t.names \in Products THEN c.t.names ELSE confirmed.title
             y == confirmed.named \/ c.t.size # NoSize
  <2>1. Remember(c, s) = [confirmed EXCEPT !.title = x, !.named = y]
    BY <1>13 DEF Remember
  <2> HIDE DEF confirmed, x, y
  <2>2. As([confirmed EXCEPT !.title = x, !.named = y])
    BY <1>3, <1>4
  <2> QED BY <1>6, <2>1, <2>2
<1>14. CASE s \in {"recommend_product", "recommend_shown"}
  <2>1. As(Remember(c, s))
    BY <1>4, <1>7, <1>14 DEF Remember
  <2> QED BY <1>6, <2>1
<1> QED BY <1>8, <1>9, <1>10, <1>11, <1>12, <1>13, <1>14 DEF Scenarios

LEMMA ReplyShows ==
    ASSUME NEW c, Shows(c),
           c.m.state \in {"cart_item_added", "confirmed"} => c.m.cart # {} /\ c.m.product # NoProduct
    PROVE  Shows(BuildResponse(c))
<1> DEFINE d == OfferVariants(c)
           s == Render(d)
<1>1. ASSUME NEW e, Shows(e), NEW x, NEW y
      PROVE  Shows(Latch(e, x, y)) /\ Shows(SyncProduct(e)) /\ Shows(CreateOrder(e, x))
  <2>1. Lists(e.m)
    BY <1>1 DEF Shows, Minds
  <2>2. ASSUME NEW n, Lists(n), n.shown = e.m.shown
        PROVE  Shows(Keep(e, n)) /\ Shows(Ends(Keep(e, n), "order"))
    BY <1>1, <2>2, ShowsKeeps, UpdatesShow
  <2>3. Shows(Latch(e, x, y))
    <3> DEFINE n == [e.m EXCEPT !.variant = The(y), !.named = e.m.named \/ e.t.size # NoSize]
    <3>1. Lists(n) /\ n.shown = e.m.shown
      BY <2>1 DEF Lists, Listed, IsRecord
    <3> HIDE DEF n
    <3> QED BY <1>1, <2>2, <3>1 DEF Latch, n
  <2>4. Shows(SyncProduct(e))
    <3> DEFINE v == [e.m EXCEPT !.variant = NoVariant]
               p == [e.m EXCEPT !.product = e.head,
                                !.title = IF e.m.title = NoProduct THEN e.head ELSE e.m.title]
    <3>1. Lists(v) /\ v.shown = e.m.shown
      BY <2>1 DEF Lists, Listed, IsRecord
    <3>2. Lists(p) /\ p.shown = e.m.shown
      BY <1>1, <2>1 DEF Shows, Lists, Listed, IsRecord
    <3> HIDE DEF v, p
    <3> QED BY <1>1, <2>2, <3>1, <3>2 DEF SyncProduct, v, p
  <2>5. Shows(CreateOrder(e, x))
    <3> DEFINE n == [e.m EXCEPT !.ordered = TRUE]
               o == Ends(Keep(e, n), "order")
    <3>1. Lists(n) /\ n.shown = e.m.shown
      BY <2>1 DEF Lists, Listed, IsRecord
    <3> HIDE DEF n
    <3>2. Shows(o)
      BY <2>2, <3>1
    <3> HIDE DEF o
    <3>3. Shows([o EXCEPT !.items = Payload(e.m)])
      BY <3>2 DEF Shows, Minds, IsRecord
    <3> QED BY <1>1, <3>3, UpdatesShow DEF CreateOrder, o, n
  <2> QED BY <2>3, <2>4, <2>5
<1>2. Shows(d) /\ d.m = c.m
  BY UpdatesShow DEF OfferVariants, Route, Shows, Minds, IsRecord
<1> HIDE DEF d
<1>3. s # "none" => s \in Scenarios
  BY <1>2, RenderIs
<1> HIDE DEF s
<1>4. s # "none" => Shows(Speak(d, s))
  BY <1>1, <1>2, <1>3, RememberShows DEF Speak
<1>5. Shows(SpeakFreely(d))
  <2>1. ASSUME NEW e, Shows(e) PROVE Shows(NothingFound(e))
    <3>1. Lists(Said(e.m, "other")) /\ Said(e.m, "other").shown = e.m.shown
      BY <2>1 DEF Said, Shows, Minds, Lists, Listed, IsRecord
    <3> QED BY <2>1, <3>1, ShowsKeeps, UpdatesShow DEF NothingFound
  <2> QED BY <1>1, <1>2, <2>1, UpdatesShow, RememberShows DEF SpeakFreely
<1> QED BY <1>4, <1>5 DEF BuildResponse, d, s

\* However a message is read, what is selected or available was shown.
LEMMA ListedStays ==
    ASSUME NEW t, Message(t), Remembered, Listed(mem)
    PROVE  Listed(Process(mem, t).m)
<1> DEFINE a == ClassifyMessage(Context(mem, t))
           g == NarrowGate(Media(a))
           f == FocusGate(g)
           b == SearchAndFilter(a)
           d == ProductQuestion(VariantUnavailable(b))
           e == ResolveVariant(d)
<1>1. Process(mem, t) = IF a.out # "going" THEN a ELSE IF b.out # "going" THEN b
                        ELSE IF d.out # "going" THEN d ELSE BuildResponse(e)
  BY DEF Process, Going
<1>5. a.out = "going" /\ b.out = "going" /\ d.out = "going" => OnTrack(e, t, Variants)
  BY ResolvesOnTrack
<1>2. ASSUME NEW c, Shows(c) PROVE Listed(c.m)
  BY <1>2 DEF Shows, Minds, Lists
<1>3. CASE t.intent = "human"
  <2>1. Context(mem, t).out = "going" /\ Context(mem, t).t = t /\ Context(mem, t).m = mem
        /\ Context(mem, t) \in Contexts
    BY ContextIs
  <2>2. a = Ends(Context(mem, t), "handoff")
    BY <1>3, <2>1, EndsIs DEF ClassifyMessage, Policy, Going, Outs
  <2>3. a.out = "handoff" /\ a.m = mem
    BY <2>1, <2>2, EndsIs DEF Outs
  <2> QED BY <1>1, <2>3
<1>4. CASE t.intent # "human"
  <2>1. Minds(a)
    BY <1>4, ClassifyMessageMinds DEF Remembered, Good
  <2>2. (Fresh(a, t) /\ Cleared(a, t)) \/ Halted(a, t)
    BY ClassifyMessageIs
  <2> HIDE DEF a
  <2>3. CASE a.out # "going"
    BY <1>1, <2>1, <2>3 DEF Minds, Lists
  <2>4. CASE a.out = "going"
    <3>1. Begun(a, t, Held(t)) /\ a.found = {} /\ a.head = NoProduct /\ a \in Contexts
      BY <2>2, <2>4, FreshIsBegun DEF Fresh, Unsearched, Halted, Outs
    <3>2. Shows(a)
      BY <2>1, <3>1, NothingIsOfNone DEF Shows, Contexts
    <3>3. Shows(g) /\ Shows(f)
      BY <3>2, MediaShows, GatesShow
    <3>4. Begun(g, t, Held(t)) \/ Over(g, t)
      BY <3>1, MediaBegins, NarrowGateBegins
    <3>5. g.out = "going" => (f.m.product = NoProduct => f.m.avail = {})
      <4> SUFFICES ASSUME g.out = "going" PROVE f.m.product = NoProduct => f.m.avail = {}
        OBVIOUS
      <4>1. Begun(g, t, Held(t))
        BY <3>4 DEF Over, Outs
      <4> HIDE DEF g
      <4>2. Begun(f, t, Held(t))
        BY <4>1, FocusGateBegins
      <4> QED BY <4>2 DEF Begun, OnTrack, Good
    <3>6. b = IF g.out = "going" THEN Search(f) ELSE g
      BY DEF SearchAndFilter, Going
    <3>7. OnTrack(b, t, Held(t)) \/ Over(b, t)
      BY <3>1, SearchAndFilterIs
    <3> HIDE DEF g, f, b
    <3>8. Shows(b)
      BY <3>3, <3>5, <3>6, SearchShows
    <3>9. Shows(d)
      BY <3>8, VariantUnavailableShows
    <3>10. b.out = "going" /\ d.out = "going" => OnTrack(d, t, Held(t))
      <4>1. b.out = "going" => OnTrack(b, t, Held(t))
        BY <3>7 DEF Over, Outs
      <4>2. b.out = "going" => OnTrack(d, t, Held(t)) \/ Over(d, t)
        BY <4>1, VariantUnavailableOnTrack, ProductQuestionOnTrack
      <4> QED BY <4>2 DEF Over, Outs
    <3> HIDE DEF d
    <3>11. CASE b.out = "going" /\ d.out = "going"
      <4>1. Shows(e) /\ OnTrack(e, t, Variants)
        BY <1>5, <2>4, <3>9, <3>10, <3>11, ResolveVariantShows
      <4> HIDE DEF e
      <4>2. Shows(BuildResponse(e))
        BY <4>1, ReplyShows DEF OnTrack, Good
      <4> QED BY <1>1, <1>2, <2>4, <3>11, <4>2
    <3> QED BY <1>1, <1>2, <2>4, <3>8, <3>9, <3>11
  <2> QED BY <2>3, <2>4
<1> QED BY <1>3, <1>4

(***************************************************************************)
(* An answer to a question: a product is named, or the size of the one     *)
(* that is selected, and it is the one that is found.                      *)
(***************************************************************************)
Focused(c) ==
    /\ c \in Contexts /\ c.out = "going" /\ ~c.m.ordered
    /\ c.m.product \in Products /\ c.found = {c.m.product} /\ c.head = c.m.product
    /\ c.asked \in {"choice", "browse"} /\ c.t.size # NoSize
    /\ c.t.slot \in {"fills", "confirmation", "new_inquiry"}

\* What such a turn was asked does not change.
SameTalk(c, d) ==
    /\ d.t.slot = c.t.slot /\ d.t.size = c.t.size /\ d.t.names = c.t.names
    /\ d.asked = c.asked /\ d.first = c.first /\ d.scope = c.scope

LEMMA FocusedKeep ==
    ASSUME NEW c, Focused(c), NEW m \in Memories, m.product = c.m.product, ~m.ordered
    PROVE  LET d == Keep(c, m)
           IN /\ Focused(d) /\ d.m = m /\ d.t = c.t /\ d.action = c.action /\ SameTalk(c, d)
BY DEF Focused, SameTalk, Keep, Contexts

LEMMA FocusedRoute ==
    ASSUME NEW c, Focused(c), NEW i \in Routes, NEW a \in Actions
    PROVE  LET d == Route(c, i, a)
           IN /\ Focused(d) /\ d.m = c.m /\ d.t.intent = i /\ d.action = a /\ SameTalk(c, d)
BY DEF Focused, SameTalk, Route, Contexts, Heard

\* A variant is on offer in the turn.
Offers(c) ==
    /\ Focused(c) /\ c.t.intent = "confirm_variant" /\ c.m.state = "awaiting_confirmation"
    /\ c.m.variant # NoVariant /\ c.m.named

\* d is c once it is asked which variant.
Asks(c, d) ==
    /\ Focused(d) /\ d.t.intent = "ask_variant" /\ SameTalk(c, d)
    /\ d.m = [c.m EXCEPT !.state = "awaiting_variant"]

LEMMA OfferIsMade ==
    ASSUME NEW c, Focused(c), NEW v \in Variants
    PROVE  Offers(Offer(c, v)) /\ SameTalk(c, Offer(c, v))
<1> DEFINE m == [c.m EXCEPT !.variant = v, !.named = TRUE, !.state = "awaiting_confirmation"]
           d == Keep(c, m)
<1>1. c.m \in Memories
  BY DEF Focused, Contexts
<1>2. /\ m \in Memories /\ m.product = c.m.product /\ ~m.ordered /\ m.variant = v /\ m.named
      /\ m.state = "awaiting_confirmation"
  BY <1>1 DEF Focused, Memories, MaybeVariant, States
<1> HIDE DEF m
<1>3. Focused(d) /\ d.m = m /\ d.t = c.t /\ SameTalk(c, d) /\ d.t.size # NoSize
  BY <1>2, FocusedKeep DEF Focused
<1>4. Offer(c, v) = Route(d, "confirm_variant", "confirm_variant")
  <2>1. Offer(c, v) = ConfirmIntent(d)
    BY DEF Offer, Select, d, m
  <2> HIDE DEF d
  <2> QED BY <1>3, <2>1 DEF ConfirmIntent
<1>5. "confirm_variant" \in Routes /\ "confirm_variant" \in Actions
  BY DEF Routes, Settled, Actions
<1> HIDE DEF d
<1> QED BY <1>2, <1>3, <1>4, <1>5, FocusedRoute, SomeVariant DEF Offers, SameTalk

LEMMA AskIsMade ==
    ASSUME NEW c, Focused(c)
    PROVE  Asks(c, Ask(c))
<1> DEFINE m == [c.m EXCEPT !.state = "awaiting_variant"]
           d == Keep(c, m)
<1>1. c.m \in Memories
  BY DEF Focused, Contexts
<1>2. m \in Memories /\ m.product = c.m.product /\ ~m.ordered
  BY <1>1 DEF Focused, Memories, States
<1> HIDE DEF m
<1>3. Focused(d) /\ d.m = m /\ SameTalk(c, d)
  BY <1>2, FocusedKeep
<1>4. Ask(c) = Route(d, "ask_variant", "ask_variant")
  BY DEF Ask, d, m
<1>5. "ask_variant" \in Routes /\ "ask_variant" \in Actions
  BY DEF Routes, Settled, Actions
<1> HIDE DEF d
<1> QED BY <1>3, <1>4, <1>5, FocusedRoute DEF Asks, SameTalk, m

\* A choice is settled by the size, or if there is only one; or else it is asked about.
LEMMA ChooseIs ==
    ASSUME NEW c, Focused(c), NEW S, S \subseteq Variants
    PROVE  /\ SameTalk(c, Choose(c, S))
           /\ \/ Offers(Choose(c, S))
              \/ /\ Asks(c, Choose(c, S))
                 /\ Cardinality(S) # 1 /\ \A v \in S : v[2] # c.t.size
<1> DEFINE wanted == {v \in S : v[2] = c.t.size}
<1>1. CASE Cardinality(S) = 1
  <2>1. The(S) \in Variants
    BY <1>1, OneIsSome DEF The
  <2> QED BY <1>1, <2>1, OfferIsMade DEF Choose
<1>2. CASE Cardinality(S) # 1 /\ wanted # {}
  <2>1. The(wanted) \in Variants
    BY <1>2 DEF The
  <2>2. Choose(c, S) = Offer(c, The(wanted))
    BY <1>2 DEF Choose
  <2> QED BY <2>1, <2>2, OfferIsMade
<1>3. CASE Cardinality(S) # 1 /\ wanted = {}
  <2>1. Choose(c, S) = Ask(c)
    BY <1>3 DEF Choose
  <2> QED BY <1>3, <2>1, AskIsMade DEF Asks
<1> QED BY <1>1, <1>2, <1>3

\* The product of the turn is the selected one already.
SameRest(m, n) ==
    /\ n \in Memories /\ n.state = m.state /\ n.product = m.product /\ n.variant = m.variant
    /\ n.avail = m.avail /\ n.shown = m.shown /\ n.awaiting = m.awaiting
    /\ n.ordered = m.ordered /\ n.title = IF m.title = NoProduct THEN m.product ELSE m.title

LEMMA SyncsNothing ==
    ASSUME NEW c, Focused(c)
    PROVE  /\ SyncProduct(c) \in Contexts /\ SyncProduct(c).out = "going"
           /\ SameRest(c.m, SyncProduct(c).m)
<1> DEFINE title == IF c.m.title = NoProduct THEN c.head ELSE c.m.title
           y == [c.m EXCEPT !.product = c.head, !.title = title]
<1>1. c \in Contexts /\ c.m \in Memories /\ c.head = c.m.product /\ c.m.product \in Products
  BY DEF Focused, Contexts
<1>2. Cardinality(c.found) = 1
  BY FS_Singleton DEF Focused
<1>3. SyncProduct(c) = Keep(c, y)
  BY <1>2 DEF SyncProduct, Focused, Adopts
<1>4. title \in MaybeProduct /\ title = IF c.m.title = NoProduct THEN c.m.product ELSE c.m.title
  BY <1>1 DEF MaybeProduct, Memories
<1> HIDE DEF title
<1>5. SameRest(c.m, y)
  BY <1>1, <1>4 DEF SameRest, Memories, MaybeProduct
<1> HIDE DEF y
<1> QED BY <1>1, <1>3, <1>5, KeepIs DEF Focused, SameRest, SameFinds, Besides

\* What is said leaves the memory to be as Remember has it.
LEMMA FocusedSpeaks ==
    ASSUME NEW c, Focused(c),
           NEW s \in {"show_products", "ask_variant", "variant_not_available", "confirm_variant",
                      "confirm_selection"},
           Guess(c) = {} \/ s \in {"show_products", "ask_variant", "variant_not_available"},
           Remember(c, s) \in Memories, Remember(c, s).product = c.m.product,
           ~Remember(c, s).ordered
    PROVE  SameRest(Remember(c, s), Speak(c, s).m) /\ Speak(c, s).out = "reply"
<1> DEFINE k == Keep(c, Remember(c, s))
<1>1. Focused(k) /\ k.m = Remember(c, s)
  BY FocusedKeep
<1>2. Latch(k, s, Guess(c)) = k
  BY DEF Latch
<1>3. Speak(c, s) = Ends(SyncProduct(k), "reply")
  BY <1>2 DEF Speak, CreateOrder
<1> HIDE DEF k
<1> QED BY <1>1, <1>3, SyncsNothing, EndsIs DEF Outs

LEMMA FocusedSpeaksFreely ==
    ASSUME NEW c, Focused(c), c.t.intent # "details"
    PROVE  SameRest(Said(c.m, "other"), SpeakFreely(c).m) /\ SpeakFreely(c).out = "reply"
<1> DEFINE k == Keep(c, Said(c.m, "other"))
<1>1. c.m \in Memories
  BY DEF Focused, Contexts
<1>2. Said(c.m, "other") \in Memories /\ Said(c.m, "other").product = c.m.product
      /\ Said(c.m, "other").ordered = c.m.ordered
  BY <1>1, SaidIs DEF Lasts
<1>3. Focused(k) /\ k.m = Said(c.m, "other")
  BY <1>2, FocusedKeep DEF Focused
<1>4. SpeakFreely(c) = Ends(SyncProduct(k), "reply")
  BY DEF SpeakFreely, Focused, Remember
<1> HIDE DEF k
<1> QED BY <1>3, <1>4, SyncsNothing, EndsIs DEF Outs

\* An offer is said, in one way or another.
LEMMA OfferIsSaid ==
    ASSUME NEW c, Offers(c)
    PROVE  Offered(BuildResponse(c).m) /\ BuildResponse(c).out = "reply"
<1> DEFINE s == Render(c)
           r == ResolveScenario(c)
           g == StageGate(c, r)
<1>1. /\ Focused(c) /\ c.m \in Memories /\ c.t.intent = "confirm_variant" /\ ~c.m.ordered
      /\ c.m.state = "awaiting_confirmation" /\ c.m.variant # NoVariant /\ c.m.named
  BY DEF Offers, Focused, Contexts
<1>2. OfferVariants(c) = c /\ HasVariantName(c) /\ Guess(c) = {}
  BY <1>1 DEF OfferVariants, Unchosen, HasVariantName, Guess
<1>3. r \in {"confirm_variant", "confirm_selection"}
  BY <1>1 DEF ResolveScenario, OfIntent, Focused
<1> HIDE DEF r
<1>4. g \in {"confirm_variant", "confirm_selection", "show_products"}
  BY <1>1, <1>3 DEF StageGate, Focused
<1> HIDE DEF g
<1>5. s \in {"confirm_variant", "confirm_selection", "show_products", "none"}
  <2>1. RenderScenario(c, g) \in {g, "none"}
    BY <1>2, <1>4 DEF RenderScenario, Viable
  <2>2. s = RenderScenario(c, g)
    BY <1>1 DEF Render, g, r
  <2> QED BY <1>4, <2>1, <2>2
<1>6. BuildResponse(c) = IF s = "none" THEN SpeakFreely(c) ELSE Speak(c, s)
  BY <1>2 DEF BuildResponse
<1> HIDE DEF s
<1>7. CASE s = "none"
  <2>1. /\ Said(c.m, "other").state = "awaiting_confirmation" /\ ~Said(c.m, "other").ordered
        /\ Said(c.m, "other").variant # NoVariant
    BY <1>1, SaidIs DEF Lasts
  <2> QED BY <1>1, <1>6, <1>7, <2>1, FocusedSpeaksFreely DEF Offered, SameRest
<1>8. CASE s # "none"
  <2> DEFINE n == Remember(c, s)
             q(l) == Said(c.m, l)
  <2>1. ASSUME NEW l \in {"other", "confirmed_product"}
        PROVE  /\ q(l) \in Memories /\ q(l).variant = c.m.variant /\ ~q(l).ordered
               /\ q(l).state = "awaiting_confirmation" /\ q(l).product = c.m.product
    BY <1>1, SaidIs DEF Lasts
  <2> HIDE DEF q
  <2>2. /\ n \in Memories /\ n.variant = c.m.variant /\ ~n.ordered /\ n.product = c.m.product
        /\ n.state = "awaiting_confirmation"
    <3> DEFINE x == [q("confirmed_product") EXCEPT !.state = "awaiting_confirmation"]
               title == IF c.t.names \in Products THEN c.t.names ELSE x.title
               named == x.named \/ c.t.size # NoSize
               y == [x EXCEPT !.title = title, !.named = named]
               z == [q("other") EXCEPT !.state = IF @ = "none" THEN "awaiting_product" ELSE @]
    <3>1. /\ x \in Memories /\ x.variant = c.m.variant /\ ~x.ordered /\ x.product = c.m.product
          /\ x.state = "awaiting_confirmation"
      BY <2>1 DEF Memories, States
    <3>2. z \in Memories /\ z.variant = c.m.variant /\ ~z.ordered /\ z.product = c.m.product
          /\ z.state = "awaiting_confirmation"
      BY <2>1 DEF Memories, States
    <3>3. n \in {x, y, z}
      BY <1>5, <1>8 DEF Remember, q
    <3> HIDE DEF x, z
    <3>4. title \in MaybeProduct /\ named \in BOOLEAN
      BY <3>1 DEF Memories, MaybeProduct
    <3> HIDE DEF title, named
    <3>5. /\ y \in Memories /\ y.variant = c.m.variant /\ ~y.ordered /\ y.product = c.m.product
          /\ y.state = "awaiting_confirmation"
      BY <3>1, <3>4 DEF Memories
    <3> HIDE DEF y, n
    <3> QED BY <3>1, <3>2, <3>3, <3>5
  <2> HIDE DEF n
  <2>3. SameRest(n, Speak(c, s).m) /\ Speak(c, s).out = "reply"
    BY <1>1, <1>2, <1>5, <1>8, <2>2, FocusedSpeaks DEF n
  <2> QED BY <1>1, <1>6, <1>8, <2>2, <2>3 DEF Offered, SameRest
<1> QED BY <1>7, <1>8

\* A question is asked, or the product shown, and nothing is selected.
LEMMA QuestionIsSaid ==
    ASSUME NEW c, Focused(c), c.t.intent # "details",
           Render(c) \in {"ask_variant", "show_products", "variant_not_available", "none"}
    PROVE  LET s == Render(c)
               n == BuildResponse(c).m
           IN /\ BuildResponse(c).out = "reply" /\ n \in Memories /\ ~n.ordered
              /\ n.product = c.m.product /\ n.avail = c.m.avail /\ n.shown = c.m.shown
              /\ n.title = IF c.m.title = NoProduct THEN c.m.product ELSE c.m.title
              /\ n.variant = IF s = "ask_variant" THEN NoVariant ELSE c.m.variant
              /\ n.state = CASE s = "ask_variant" -> "awaiting_variant"
                             [] s = "show_products" /\ c.m.state = "none" -> "awaiting_product"
                             [] OTHER -> c.m.state
              /\ s # "variant_not_available" => n.awaiting = "other"
<1> DEFINE s == Render(c)
           n == Remember(c, s)
           q == Said(c.m, "other")
           Right(m) == /\ m \in Memories /\ ~m.ordered /\ m.product = c.m.product
                       /\ m.avail = c.m.avail /\ m.shown = c.m.shown /\ m.title = c.m.title
<1>1. c.m \in Memories /\ ~c.m.ordered /\ OfferVariants(c) = c
  BY DEF Focused, Contexts, OfferVariants
<1>2. Right(q) /\ q.state = c.m.state /\ q.awaiting = "other" /\ q.variant = c.m.variant
  <2>1. q.awaiting = "other"
    BY <1>1 DEF Said, Memories
  <2> QED BY <1>1, <2>1, SaidIs DEF Lasts
<1>3. BuildResponse(c) = IF s = "none" THEN SpeakFreely(c) ELSE Speak(c, s)
  BY <1>1 DEF BuildResponse
<1> HIDE DEF s, q
<1>4. CASE s = "none"
  <2>1. SameRest(q, SpeakFreely(c).m) /\ SpeakFreely(c).out = "reply"
    BY FocusedSpeaksFreely DEF q
  <2> QED BY <1>2, <1>3, <1>4, <2>1 DEF SameRest, s
<1>5. CASE s = "variant_not_available"
  <2>1. n = [c.m EXCEPT !.last = "other"]
    BY <1>5 DEF Remember
  <2>2. Right(n) /\ n.state = c.m.state /\ n.variant = c.m.variant
    BY <1>1, <2>1 DEF Memories, Lasts
  <2> HIDE DEF n
  <2>3. SameRest(n, Speak(c, s).m) /\ Speak(c, s).out = "reply"
    BY <1>5, <2>2, FocusedSpeaks DEF n
  <2> QED BY <1>3, <1>5, <2>2, <2>3 DEF SameRest, s
<1>6. CASE s = "ask_variant"
  <2> DEFINE x == NoChoice(q)
  <2>1. n = [x EXCEPT !.state = "awaiting_variant"]
    BY <1>6 DEF Remember, q
  <2>2. Right(x) /\ x.awaiting = "other" /\ x.variant = NoVariant
    BY <1>2, ForgetIs DEF SameDeal
  <2> HIDE DEF x
  <2>3. Right(n) /\ n.state = "awaiting_variant" /\ n.awaiting = "other" /\ n.variant = NoVariant
    BY <2>1, <2>2 DEF Memories, States
  <2> HIDE DEF n
  <2>4. SameRest(n, Speak(c, s).m) /\ Speak(c, s).out = "reply"
    BY <1>6, <2>3, FocusedSpeaks DEF n
  <2> QED BY <1>3, <1>6, <2>3, <2>4 DEF SameRest, s
<1>7. CASE s = "show_products"
  <2> DEFINE state == IF c.m.state = "none" THEN "awaiting_product" ELSE c.m.state
  <2>1. n = [q EXCEPT !.state = state]
    BY <1>2, <1>7 DEF Remember, q
  <2>2. state \in States
    BY <1>1 DEF Memories, States
  <2> HIDE DEF state
  <2>3. Right(n) /\ n.state = state /\ n.awaiting = "other" /\ n.variant = c.m.variant
    BY <1>2, <2>1, <2>2 DEF Memories
  <2> HIDE DEF n
  <2>4. SameRest(n, Speak(c, s).m) /\ Speak(c, s).out = "reply"
    BY <1>7, <2>3, FocusedSpeaks DEF n
  <2> QED BY <1>3, <1>7, <2>3, <2>4 DEF SameRest, s, state
<1> QED BY <1>4, <1>5, <1>6, <1>7 DEF s

\* The size is said of the product that is selected.
LEMMA SizeIsHeard ==
    ASSUME Remembered, ~mem.ordered, mem.awaiting # "broaden", mem.product \in Products,
           mem.state \in {"awaiting_confirmation", "awaiting_variant"},
           NEW sl \in {"fills", "confirmation"}, NEW z \in Sizes
    PROVE  LET t == Says("choice", sl, NoProduct, z)
           IN \E d : /\ Focused(d) /\ SameBut(d.m) /\ d.t = t /\ ~d.first /\ d.scope = NoSize
                     /\ VariantUnavailable(d).t.intent # "question" =>
                          Process(mem, t) =
                            IF VariantUnavailable(d).out = "going"
                            THEN BuildResponse(ResolveVariant(VariantUnavailable(d)))
                            ELSE VariantUnavailable(d)
<1> DEFINE t == Says("choice", sl, NoProduct, z)
           a == ClassifyMessage(Context(mem, t))
           d == Found(a, {a.m.product})
           u == VariantUnavailable(d)
<1>1. z # NoSize /\ NoProduct \notin Products
  BY ReplyEngineAssumption DEF ReplyEngineAssumption
<1>2. t.intent = "choice" /\ t.slot = sl /\ t.names = NoProduct /\ t.size = z /\ t.photo = NoProduct
  BY DEF Says
<1>3. Plain(a) /\ a.t = t /\ a.asked = "choice" /\ SameBut(a.m)
  BY AnswerIsHeard
<1>4. Process(mem, t) = LET b == SearchAndFilter(a)
                            q == ProductQuestion(VariantUnavailable(b))
                        IN IF a.out # "going" THEN a ELSE IF b.out # "going" THEN b
                           ELSE IF q.out # "going" THEN q ELSE BuildResponse(ResolveVariant(q))
  BY DEF Process, Going
<1> HIDE DEF t, a
<1>5. a \in Contexts /\ a.m \in Memories /\ a.m.product = mem.product /\ a.out = "going"
  BY <1>3 DEF Plain, Contexts, SameBut
<1>6. /\ d \in Contexts /\ d.m = a.m /\ d.t = t /\ d.found = {mem.product} /\ d.out = "going"
      /\ d.head = mem.product /\ d.scope = NoSize /\ d.asked = "choice"
  <2>1. {mem.product} \in SUBSET Products
    OBVIOUS
  <2> QED BY <1>3, <1>5, <2>1, FoundIs DEF Besides, Plain
<1>7. ~d.first
  BY <1>3, <1>5 DEF Found, Plain, Contexts
<1>8. Media(a) = a /\ NarrowGate(a) = a /\ FocusGate(a) = d
  BY <1>1, <1>2, <1>3, <1>5
     DEF Plain, Media, NarrowGate, Narrows, FocusGate, VariantQuestionOnFocus, SameBut
<1> HIDE DEF d
<1>9. SearchAndFilter(a) = d
  BY <1>5, <1>6, <1>8 DEF SearchAndFilter, Going, Search
<1>10. Focused(d) /\ SameBut(d.m)
  BY <1>1, <1>2, <1>3, <1>6 DEF Focused, SameBut
<1> HIDE DEF u
<1>11. u.t.intent # "question" => ProductQuestion(u) = u
  BY DEF ProductQuestion
<1>12. u.t.intent # "question" => Process(mem, t) = IF u.out = "going" THEN BuildResponse(ResolveVariant(u))
                                                    ELSE u
  BY <1>4, <1>5, <1>6, <1>9, <1>11 DEF u
<1> QED BY <1>6, <1>7, <1>10, <1>12 DEF u, t

\* A yes to the product, with a size in which there is one, is an offer.
LEMMA ConfirmedSizeIsOffered ==
    ASSUME Remembered, ~mem.ordered, mem.awaiting # "broaden", mem.variant = NoVariant,
           mem.state = "awaiting_confirmation", Available(VariantsOf(mem.product)) # {}
    PROVE  LET c == Process(mem, Says("choice", "confirmation", NoProduct,
                                      The(Available(VariantsOf(mem.product)))[2]))
           IN Offered(c.m) /\ c.out = "reply"
<1> DEFINE p == mem.product
           here == Available(VariantsOf(p))
           w == The(here)
           z == w[2]
           t == Says("choice", "confirmation", NoProduct, z)
<1>1. w \in here /\ w \in Variants /\ w[1] = p /\ here \subseteq VariantsOf(p) /\ here \subseteq Variants
  BY StockIs DEF The, VariantsOf
<1>2. p \in Products /\ z \in Sizes /\ w = <<p, z>>
  BY <1>1, SomeVariant
<1> HIDE DEF here, w, z
<1>3. t.intent = "choice" /\ t.slot = "confirmation" /\ t.names = NoProduct /\ t.size = z /\ t.typed
  BY DEF Says
<1>4. PICK d : /\ Focused(d) /\ SameBut(d.m) /\ d.t = t /\ ~d.first /\ d.scope = NoSize
               /\ VariantUnavailable(d).t.intent # "question" =>
                    Process(mem, t) =
                      IF VariantUnavailable(d).out = "going"
                      THEN BuildResponse(ResolveVariant(VariantUnavailable(d)))
                      ELSE VariantUnavailable(d)
  BY <1>2, SizeIsHeard
<1> HIDE DEF t
<1>5. /\ d.head = p /\ d.m.product = p /\ d.m.variant = NoVariant /\ d.out = "going"
      /\ d.m.state = "awaiting_confirmation" /\ d.m.avail \subseteq Variants
      /\ FoundVariants(d, p) = VariantsOf(p)
  BY <1>4, AllIsFound DEF Focused, SameBut, Memories
<1>6. VariantUnavailable(d) = d
  BY <1>1, <1>2, <1>3, <1>4, <1>5 DEF VariantUnavailable, here
<1>7. Process(mem, t) = BuildResponse(ResolveVariant(d))
  BY <1>3, <1>4, <1>5, <1>6
<1> DEFINE e == ConfirmsProduct(d)
           f == FillsVariant(e)
<1>8. DeclineOffer(d) = d /\ AskedForAnother(d) = d /\ AddToCart(d) = d /\ CheckOut(d) = d
  BY <1>3, <1>4, <1>5 DEF DeclineOffer, AskedForAnother, AddToCart, CheckOut
<1>9. \/ Offers(e)
      \/ /\ Focused(e) /\ SameTalk(d, e) /\ e.m.product = p /\ e.m.variant = NoVariant
  <2>1. e = d \/ e = Choose(d, d.m.avail)
    BY DEF ConfirmsProduct
  <2>2. CASE e = d
    BY <1>4, <1>5, <2>2 DEF SameTalk
  <2>3. CASE e = Choose(d, d.m.avail)
    <3>1. Offers(e) \/ Asks(d, e)
      BY <1>4, <1>5, <2>3, ChooseIs
    <3>2. Asks(d, e) => e.m.product = p /\ e.m.variant = NoVariant
      <4>1. d.m \in Memories
        BY <1>4 DEF SameBut
      <4> HIDE DEF e
      <4> QED BY <1>5, <4>1 DEF Asks, Memories
    <3> QED BY <3>1, <3>2 DEF Asks
  <2> QED BY <2>1, <2>2, <2>3
<1> HIDE DEF e
<1>10. Offers(f)
  <2>1. CASE Offers(e)
    <3>1. f = e
      BY <2>1 DEF FillsVariant, Unchosen, Offers
    <3> QED BY <2>1, <3>1
  <2>2. CASE Focused(e) /\ SameTalk(d, e) /\ e.m.product = p /\ e.m.variant = NoVariant
    <3>1. e.head = p /\ FoundVariants(e, p) = VariantsOf(p) /\ Cardinality(e.found) = 1
          /\ e.t.slot = "confirmation" /\ e.t.size = z /\ z # NoSize /\ p # NoProduct
      <4>1. Cardinality({p}) = 1
        BY FS_Singleton
      <4>2. z # NoSize /\ p # NoProduct
        BY <1>2, ReplyEngineAssumption DEF ReplyEngineAssumption
      <4> QED BY <1>3, <1>4, <2>2, <4>1, <4>2, AllIsFound DEF Focused, SameTalk
    <3>2. Offers(Choose(e, here))
      BY <1>1, <1>2, <2>2, <3>1, ChooseIs
    <3>3. here # {}
      BY <1>1
    <3>4. f = Choose(e, here)
      BY <2>2, <3>1, <3>2, <3>3 DEF FillsVariant, Unchosen, Offers, here
    <3> QED BY <3>2, <3>4
  <2> QED BY <1>9, <2>1, <2>2
<1> HIDE DEF f
<1>11. ResolveVariant(d) = f
  <2>1. PicksVariant(f) = f
    BY <1>10 DEF PicksVariant, Offers
  <2> QED BY <1>3, <1>4, <1>8, <2>1 DEF ResolveVariant, e, f
<1>12. Offered(BuildResponse(f).m) /\ BuildResponse(f).out = "reply"
  BY <1>10, OfferIsSaid
<1> QED BY <1>7, <1>11, <1>12 DEF t, z, w, here

\* What the size was said of cannot be had: the memory n says so.
LEMMA AboutIs ==
    ASSUME NEW c, Focused(c), NEW n \in Memories, n.product = c.m.product, ~n.ordered,
           NEW i \in {"variant_not_available", "out_of_stock"}
    PROVE  LET d == Route([Keep(c, n) EXCEPT !.first = FALSE], i, i)
           IN /\ Focused(d) /\ d.m = n /\ d.t.intent = i /\ d.action = i /\ ~d.first
              /\ d.t.slot = c.t.slot /\ d.t.size = c.t.size /\ d.asked = c.asked
              /\ ResolveVariant(d) = d
<1> DEFINE k == Keep(c, n)
           e == [k EXCEPT !.first = FALSE]
           d == Route(e, i, i)
<1>1. Focused(k) /\ k.m = n /\ k.t = c.t /\ SameTalk(c, k)
  BY FocusedKeep
<1> HIDE DEF k
<1>2. Focused(e) /\ e.m = n /\ e.t = c.t /\ e.asked = c.asked /\ ~e.first
  BY <1>1 DEF Focused, Contexts, SameTalk
<1> HIDE DEF e
<1>3. i \in Routes /\ i \in Actions
  BY DEF Routes, Settled, Actions
<1>4. /\ Focused(d) /\ d.m = e.m /\ d.t.intent = i /\ d.action = i /\ SameTalk(e, d)
  BY <1>2, <1>3, FocusedRoute
<1> HIDE DEF d
<1>5. ResolveVariant(d) = d
  BY <1>4 DEF ResolveVariant
<1> QED BY <1>2, <1>4, <1>5 DEF SameTalk, d, e, k

\* The variants of the selected product that are in stock fit once they are on offer.
LEMMA HereFits ==
    ASSUME NEW m, m.state = "awaiting_variant", m.product \in Products,
           m.avail = Available(VariantsOf(m.product)), m.avail # {}
    PROVE  Fits(m)
<1>1. Available(m.avail) = m.avail
  BY DEF Available
<1>2. The(m.avail) \in m.avail
  BY DEF The
<1>3. The(m.avail) \in Variants /\ The(m.avail) \in Stock /\ The(m.avail)[1] = m.product
  BY <1>2, StockIs DEF VariantsOf
<1>4. The(m.avail) = <<m.product, The(m.avail)[2]>>
  BY <1>3, SomeVariant
<1> QED BY <1>1, <1>3, <1>4 DEF Fits

\* Where a variant is selected already, a size that was asked for is offered if it fits, and
\* there is a price to offer it with; if it does not fit, it is asked for again.
LEMMA SelectedIsSaid ==
    ASSUME NEW d, Focused(d), d.t.intent = "choice", d.t.slot = "fills", ~d.first,
           d.scope = NoSize, d.m.state = "awaiting_variant", d.m.variant # NoVariant,
           d.m.avail # {}, d.m.shown # {}
    PROVE  /\ ResolveVariant(d) = d
           /\ Render(d) = IF <<d.m.product, d.t.size>> \notin Stock THEN "ask_variant"
                          ELSE IF d.m.title \in {NoProduct, d.m.product} \cup {v[1] : v \in d.m.shown}
                          THEN "confirm_selection" ELSE "none"
           /\ Guess(d) = {<<d.m.product, d.t.size>>} \cap Stock
<1> DEFINE p == d.m.product
           z == d.t.size
           w == <<p, z>>
<1>1. /\ d.head = p /\ p # NoProduct /\ p \in Products /\ d.found = {p} /\ z # NoSize
      /\ d.asked \in {"choice", "browse"}
  BY ReplyEngineAssumption DEF Focused, ReplyEngineAssumption
<1>2. ResolveVariant(d) = d
  <2>1. /\ DeclineOffer(d) = d /\ AskedForAnother(d) = d /\ AddToCart(d) = d /\ CheckOut(d) = d
        /\ ConfirmsProduct(d) = d
    BY DEF DeclineOffer, AskedForAnother, AddToCart, CheckOut, ConfirmsProduct
  <2>2. FillsVariant(d) = d /\ PicksVariant(d) = d
    BY DEF FillsVariant, PicksVariant, Unchosen
  <2> QED BY <2>1, <2>2 DEF ResolveVariant
<1>3. Guess(d) = {w} \cap Stock
  <2>1. HeadVariants(d) = VariantsOf(p)
    BY <1>1, AllIsFound DEF HeadVariants
  <2>2. Guess(d) = {v \in Available(VariantsOf(p)) : v[2] = z}
    BY <1>1, <2>1 DEF Guess
  <2>3. ASSUME NEW v \in Available(VariantsOf(p)), v[2] = z PROVE v = w /\ v \in Stock
    BY <2>3, StockIs, SomeVariant DEF Available, VariantsOf
  <2>4. w \in Stock => w \in Available(VariantsOf(p))
    BY StockIs DEF Available, VariantsOf
  <2> QED BY <2>2, <2>3, <2>4
<1>4. HasName(d) /\ HasList(d) /\ (HasVariantName(d) <=> w \in Stock)
  BY <1>1, <1>3 DEF HasName, HasList, HasVariantName
<1>5. HasPrice(d) <=> d.m.title \in {NoProduct, p} \cup {v[1] : v \in d.m.shown}
  BY <1>1 DEF HasPrice
<1>6. StageGate(d, ResolveScenario(d)) = "confirm_selection"
  <2>1. ResolveScenario(d) = "confirm_selection"
    BY <1>1 DEF ResolveScenario, OfIntent
  <2> QED BY <2>1 DEF StageGate
<1>7. Render(d) = RenderScenario(d, "confirm_selection")
  BY <1>6 DEF Render
<1>8. RenderScenario(d, "confirm_selection") =
        IF w \notin Stock THEN "ask_variant" ELSE IF HasPrice(d) THEN "confirm_selection" ELSE "none"
  BY <1>4 DEF RenderScenario, Viable
<1> QED BY <1>2, <1>3, <1>5, <1>7, <1>8

LEMMA SelectedIsOffered ==
    ASSUME NEW d, Focused(d), d.t.names = NoProduct, d.m.variant # NoVariant,
           Render(d) = "confirm_selection", NEW w \in Variants, Guess(d) = {w}
    PROVE  Offered(BuildResponse(d).m) /\ BuildResponse(d).out = "reply"
<1> DEFINE q == Said(d.m, "confirmed_product")
           x == [q EXCEPT !.state = "awaiting_confirmation"]
           named == x.named \/ d.t.size # NoSize
           n == [x EXCEPT !.title = x.title, !.named = named]
           k == Keep(d, n)
           latched == n.named \/ d.t.size # NoSize
           m == [n EXCEPT !.variant = w, !.named = latched]
<1>1. d.m \in Memories /\ ~d.m.ordered /\ NoProduct \notin Products
  BY ReplyEngineAssumption DEF Focused, Contexts, ReplyEngineAssumption
<1>2. OfferVariants(d) = d
  BY DEF OfferVariants, Unchosen
<1>3. BuildResponse(d) = Speak(d, "confirm_selection")
  BY <1>2 DEF BuildResponse
<1>4. Remember(d, "confirm_selection") = n
  BY <1>1 DEF Remember
<1>5. q \in Memories /\ q.product = d.m.product /\ ~q.ordered
  BY <1>1, SaidIs DEF Lasts
<1> HIDE DEF q
<1>6. x \in Memories /\ x.product = d.m.product /\ ~x.ordered /\ x.state = "awaiting_confirmation"
  BY <1>5 DEF Memories, States
<1> HIDE DEF x
<1>7. named \in BOOLEAN
  OBVIOUS
<1> HIDE DEF named
<1>8. n \in Memories /\ n.product = d.m.product /\ ~n.ordered /\ n.state = "awaiting_confirmation"
  BY <1>6, <1>7 DEF Memories
<1> HIDE DEF n
<1>9. latched \in BOOLEAN
  OBVIOUS
<1> HIDE DEF latched
<1>10. /\ m \in Memories /\ m.product = d.m.product /\ ~m.ordered /\ m.variant = w
       /\ m.state = "awaiting_confirmation"
  BY <1>8, <1>9 DEF Memories, MaybeVariant
<1>11. Focused(k) /\ k.m = n /\ k.t = d.t
  BY <1>8, FocusedKeep
<1>12. Latch(k, "confirm_selection", {w}) = Keep(k, m)
  <2>1. The({w}) = w
    BY DEF The
  <2> QED BY <1>11, <2>1 DEF Latch, latched
<1> HIDE DEF m
<1>13. Focused(Keep(k, m)) /\ Keep(k, m).m = m
  BY <1>8, <1>10, <1>11, FocusedKeep
<1>14. Speak(d, "confirm_selection") = Ends(SyncProduct(Keep(k, m)), "reply")
  BY <1>4, <1>12 DEF Speak, CreateOrder
<1> HIDE DEF k
<1>15. w # NoVariant
  BY SomeVariant
<1> QED BY <1>3, <1>10, <1>13, <1>14, <1>15, SyncsNothing, EndsIs DEF SameRest, Offered, Outs

\* A size that was asked for is taken, or it is said which there are, or that there is none.
LEMMA FilledSizeIsTaken ==
    ASSUME Remembered, ~mem.ordered, mem.awaiting # "broaden", ~Stray(mem), mem.shown # {},
           mem.state = "awaiting_variant", Available(mem.avail) # {}
    PROVE  LET c == Process(mem, Says("choice", "fills", NoProduct, The(Available(mem.avail))[2]))
           IN /\ c.out = "reply" /\ ~c.m.ordered
              /\ \/ Offered(c.m)
                 \/ /\ c.m.variant = NoVariant /\ ~Fits(mem) /\ c.m.state = "awaiting_variant"
                    /\ Available(VariantsOf(mem.product)) # {}
                    /\ \/ Fits(c.m)
                       \/ /\ mem.variant # NoVariant
                          /\ c.m.product = mem.product /\ c.m.avail = mem.avail
                 \/ /\ c.m.variant = NoVariant /\ ~Fits(mem) /\ c.m.state = "awaiting_product"
                    /\ Available(VariantsOf(mem.product)) = {}
<1> DEFINE p == mem.product
           here == Available(VariantsOf(p))
           z == The(Available(mem.avail))[2]
           t == Says("choice", "fills", NoProduct, z)
<1>1. p \in Products /\ z \in Sizes /\ here \subseteq VariantsOf(p) /\ here \subseteq Stock
      /\ here \subseteq Variants
  <2>1. The(Available(mem.avail)) \in Variants
    BY StockIs DEF The
  <2>2. mem.avail # {}
    BY StockIs
  <2> QED BY <2>1, <2>2, StockIs, SomeVariant
          DEF Remembered, Good, Memories, MaybeProduct
<1>2. z # NoSize /\ p # NoProduct
  BY <1>1, ReplyEngineAssumption DEF ReplyEngineAssumption
<1>3. Fits(mem) <=> <<p, z>> \in Stock
  BY DEF Fits
<1>4. <<p, z>> \in Stock => <<p, z>> \in here
  BY StockIs DEF Available, VariantsOf
<1> HIDE DEF here, z
<1>5. t.intent = "choice" /\ t.slot = "fills" /\ t.names = NoProduct /\ t.size = z
  BY DEF Says
<1>6. PICK d : /\ Focused(d) /\ SameBut(d.m) /\ d.t = t /\ ~d.first /\ d.scope = NoSize
               /\ VariantUnavailable(d).t.intent # "question" =>
                    Process(mem, t) =
                      IF VariantUnavailable(d).out = "going"
                      THEN BuildResponse(ResolveVariant(VariantUnavailable(d)))
                      ELSE VariantUnavailable(d)
  BY <1>1, SizeIsHeard
<1> HIDE DEF t
<1>7. /\ d.head = p /\ d.m.product = p /\ d.m.variant = mem.variant /\ d.out = "going"
      /\ d.m.state = "awaiting_variant" /\ d.m \in Memories /\ Cardinality(d.found) = 1
      /\ FoundVariants(d, p) = VariantsOf(p)
  <2>1. Cardinality({p}) = 1
    BY FS_Singleton
  <2> QED BY <1>6, <2>1, AllIsFound DEF Focused, SameBut
<1> DEFINE n == [NoChoice(d.m) EXCEPT !.product = p, !.last = "other"]
           about(m, i) == Route([Keep(d, m) EXCEPT !.first = FALSE], i, i)
           none == [n EXCEPT !.state = "awaiting_product"]
           some == [n EXCEPT !.avail = here]
<1>8. /\ n \in Memories /\ n.product = p /\ ~n.ordered /\ n.variant = NoVariant
      /\ n.state = "awaiting_variant" /\ n.last = "other"
  <2>1. /\ NoChoice(d.m) \in Memories /\ NoChoice(d.m).variant = NoVariant
        /\ NoChoice(d.m).state = d.m.state /\ ~NoChoice(d.m).ordered
    BY <1>6, <1>7, ForgetIs DEF SameDeal, SameBut
  <2> QED BY <1>1, <1>7, <2>1 DEF Memories, MaybeProduct, Lasts
<1> HIDE DEF n
<1>9. /\ none \in Memories /\ none.product = p /\ ~none.ordered /\ none.variant = NoVariant
      /\ none.state = "awaiting_product" /\ none.last = "other"
  BY <1>8 DEF Memories, States
<1>10. /\ some \in Memories /\ some.product = p /\ ~some.ordered /\ some.variant = NoVariant
       /\ some.state = "awaiting_variant" /\ some.last = "other" /\ some.avail = here
  BY <1>1, <1>8 DEF Memories
<1> HIDE DEF none, some
<1>11. VariantUnavailable(d) = IF here = {} THEN about(none, "out_of_stock")
                               ELSE IF <<p, z>> \in VariantsOf(p) THEN d
                               ELSE about(some, "variant_not_available")
  BY <1>2, <1>5, <1>6, <1>7 DEF VariantUnavailable, Unavailable, here, none, some, n
<1> HIDE DEF about
<1>12. CASE here = {}
  <2> DEFINE u == about(none, "out_of_stock")
  <2>1. /\ Focused(u) /\ u.m = none /\ u.t.intent = "out_of_stock" /\ u.action = "out_of_stock"
        /\ ~u.first /\ u.t.slot = "fills" /\ u.asked = d.asked /\ ResolveVariant(u) = u
    BY <1>5, <1>6, <1>7, <1>9, AboutIs DEF about
  <2> HIDE DEF u
  <2>2. Process(mem, t) = BuildResponse(u)
    BY <1>6, <1>11, <1>12, <2>1 DEF Focused, u
  <2>3. Render(u) = "none"
    <3>1. ResolveScenario(u) = "none"
      BY <1>9, <2>1 DEF ResolveScenario, OfIntent, OfAction, Focused
    <3>2. StageGate(u, "none") = "none" /\ RenderScenario(u, "none") = "none"
      BY DEF StageGate, RenderScenario, Viable
    <3> QED BY <2>1, <3>1, <3>2 DEF Render
  <2>4. /\ BuildResponse(u).out = "reply" /\ BuildResponse(u).m.state = "awaiting_product"
        /\ ~BuildResponse(u).m.ordered /\ BuildResponse(u).m.variant = NoVariant
    BY <1>9, <2>1, <2>3, QuestionIsSaid
  <2>5. ~Fits(mem)
    BY <1>3, <1>4, <1>12
  <2> QED BY <1>12, <2>2, <2>4, <2>5 DEF t, z, here
<1>13. CASE here # {} /\ <<p, z>> \notin VariantsOf(p)
  <2> DEFINE u == about(some, "variant_not_available")
             s == Render(u)
             b == BuildResponse(u)
  <2>1. /\ Focused(u) /\ u.m = some /\ u.t.intent = "variant_not_available" /\ ~u.first
        /\ u.t.slot = "fills" /\ u.asked = d.asked /\ ResolveVariant(u) = u
    BY <1>5, <1>6, <1>7, <1>10, AboutIs DEF about
  <2> HIDE DEF u
  <2>2. Process(mem, t) = b
    BY <1>6, <1>11, <1>13, <2>1 DEF Focused, u
  <2>3. s \in {"variant_not_available", "none"}
    <3>1. ResolveScenario(u) = "variant_not_available"
      BY <1>10, <2>1 DEF ResolveScenario, OfIntent, Focused
    <3>2. StageGate(u, "variant_not_available") = "variant_not_available"
      BY <1>10, <2>1 DEF StageGate
    <3>3. RenderScenario(u, "variant_not_available") \in {"variant_not_available", "none"}
      BY DEF RenderScenario
    <3> QED BY <2>1, <3>1, <3>2, <3>3 DEF Render
  <2> HIDE DEF s
  <2>4. /\ b.out = "reply" /\ b.m.state = "awaiting_variant" /\ ~b.m.ordered
        /\ b.m.variant = NoVariant /\ b.m.product = p /\ b.m.avail = here
    BY <1>10, <2>1, <2>3, QuestionIsSaid DEF s
  <2> HIDE DEF b
  <2>5. Fits(b.m)
    BY <1>1, <1>13, <2>4, HereFits DEF here
  <2>6. ~Fits(mem)
    BY <1>1, <1>3, <1>4, <1>13
  <2> QED BY <1>13, <2>2, <2>4, <2>5, <2>6 DEF t, z, here
<1>14. CASE here # {} /\ <<p, z>> \in VariantsOf(p) /\ mem.variant # NoVariant
  <2> DEFINE b == BuildResponse(d)
  <2>1. VariantUnavailable(d) = d
    BY <1>5, <1>6, <1>7, <1>11, <1>14
  <2>2. d.m.avail = mem.avail /\ mem.avail # {} /\ d.m.shown = mem.shown /\ d.m.title = mem.title
    BY <1>6, StockIs DEF SameBut
  <2>3. /\ ResolveVariant(d) = d
        /\ Render(d) = IF <<p, z>> \notin Stock THEN "ask_variant"
                       ELSE IF mem.title \in {NoProduct, p} \cup {v[1] : v \in mem.shown}
                       THEN "confirm_selection" ELSE "none"
        /\ Guess(d) = {<<p, z>>} \cap Stock
    BY <1>5, <1>6, <1>7, <1>14, <2>2, SelectedIsSaid
  <2>4. Process(mem, t) = b
    BY <1>5, <1>6, <1>7, <2>1, <2>3
  <2>5. CASE <<p, z>> \in Stock
    <3>1. Render(d) = "confirm_selection"
      BY <1>3, <1>14, <2>3, <2>5 DEF Stray
    <3>2. Guess(d) = {<<p, z>>} /\ <<p, z>> \in Variants
      BY <2>3, <2>5, StockIs
    <3>3. Offered(b.m) /\ b.out = "reply"
      BY <1>5, <1>6, <1>7, <1>14, <3>1, <3>2, SelectedIsOffered
    <3> QED BY <2>4, <3>3 DEF Offered, t, z
  <2>6. CASE <<p, z>> \notin Stock
    <3>1. Render(d) = "ask_variant"
      BY <2>3, <2>6
    <3>2. /\ b.out = "reply" /\ ~b.m.ordered /\ b.m.product = p /\ b.m.avail = mem.avail
          /\ b.m.variant = NoVariant /\ b.m.state = "awaiting_variant"
      BY <1>5, <1>6, <1>7, <2>2, <3>1, QuestionIsSaid
    <3> HIDE DEF b
    <3> QED BY <1>3, <1>14, <2>4, <2>6, <3>2 DEF t, z, here
  <2> QED BY <2>5, <2>6
<1>15. CASE here # {} /\ <<p, z>> \in VariantsOf(p) /\ mem.variant = NoVariant
  <2> DEFINE x == Choose(d, here)
             y == Keep(x, [x.m EXCEPT !.avail = here])
             e == ResolveVariant(d)
  <2>1. VariantUnavailable(d) = d /\ Process(mem, t) = BuildResponse(e)
    BY <1>5, <1>6, <1>7, <1>11, <1>15
  <2>2. DeclineOffer(d) = d /\ AskedForAnother(d) = d /\ AddToCart(d) = d /\ CheckOut(d) = d
        /\ ConfirmsProduct(d) = d
    BY <1>5, <1>6, <1>7
       DEF DeclineOffer, AskedForAnother, AddToCart, CheckOut, ConfirmsProduct
  <2>3. FillsVariant(d) = IF x.m.variant = NoVariant THEN y ELSE x
    BY <1>2, <1>5, <1>6, <1>7, <1>15 DEF FillsVariant, Unchosen, here
  <2>4. e = PicksVariant(FillsVariant(d))
    BY <1>5, <1>6, <2>2 DEF ResolveVariant
  <2>5. Offers(x) \/ (Asks(d, x) /\ ~Fits(mem))
    BY <1>1, <1>3, <1>4, <1>5, <1>6, ChooseIs
  <2> HIDE DEF x, e
  <2>6. CASE Offers(x)
    <3>1. e = x
      BY <2>3, <2>4, <2>6 DEF PicksVariant, Offers
    <3>2. Offered(BuildResponse(e).m) /\ BuildResponse(e).out = "reply"
      BY <2>6, <3>1, OfferIsSaid
    <3> QED BY <2>1, <3>2 DEF Offered, t, z
  <2>7. CASE Asks(d, x) /\ ~Fits(mem)
    <3> DEFINE m == [x.m EXCEPT !.avail = here]
               b == BuildResponse(y)
    <3>1. /\ x.m \in Memories /\ x.m.product = p /\ ~x.m.ordered /\ x.m.variant = NoVariant
          /\ x.m.state = "awaiting_variant"
      BY <1>6, <1>7, <1>15, <2>7 DEF Asks, Memories, States, Focused
    <3>2. /\ m \in Memories /\ m.product = p /\ ~m.ordered /\ m.variant = NoVariant
          /\ m.state = "awaiting_variant" /\ m.avail = here /\ x.m.variant = NoVariant
      BY <1>1, <3>1 DEF Memories
    <3>3. y = Keep(x, m)
      OBVIOUS
    <3> HIDE DEF m, y
    <3>4. Focused(y) /\ y.m = m /\ y.t = x.t /\ SameTalk(x, y)
      <4>1. Focused(x)
        BY <2>7 DEF Asks
      <4> QED BY <3>1, <3>2, <3>3, <4>1, FocusedKeep
    <3>5. /\ Focused(y) /\ y.m = m /\ y.t.intent = "ask_variant" /\ y.t.slot = "fills"
          /\ y.first = d.first
      BY <1>5, <1>6, <2>7, <3>4 DEF Asks, SameTalk
    <3>6. e = y
      BY <2>3, <2>4, <3>2, <3>5 DEF PicksVariant
    <3>7. Render(y) \in {"ask_variant", "show_products", "none"}
      <4>1. ResolveScenario(y) = "ask_variant"
        BY <3>2, <3>5 DEF ResolveScenario, OfIntent, Focused
      <4>2. StageGate(y, "ask_variant") \in {"ask_variant", "show_products"}
        BY <3>2, <3>5 DEF StageGate
      <4>3. ASSUME NEW s \in {"ask_variant", "show_products"}
            PROVE  RenderScenario(y, s) \in {"ask_variant", "show_products", "none"}
        BY <4>3 DEF RenderScenario
      <4> QED BY <1>6, <3>5, <4>1, <4>2, <4>3 DEF Render
    <3>8. /\ b.out = "reply" /\ b.m.state = "awaiting_variant" /\ ~b.m.ordered
          /\ b.m.variant = NoVariant /\ b.m.product = p /\ b.m.avail = here
      BY <3>2, <3>5, <3>7, QuestionIsSaid
    <3> HIDE DEF b
    <3>9. Fits(b.m)
      BY <1>1, <1>15, <3>8, HereFits DEF here
    <3> QED BY <1>15, <2>1, <2>7, <3>6, <3>8, <3>9 DEF t, z, b, here
  <2> QED BY <2>5, <2>6, <2>7
<1> QED BY <1>12, <1>13, <1>14, <1>15

\* A size that fits is no answer where a variant without a price is selected.
LEMMA FilledSizeIsLost ==
    ASSUME Remembered, mem.awaiting # "broaden", mem.shown # {}, Stray(mem)
    PROVE  LET c == Process(mem, Says("choice", "fills", NoProduct, The(Available(mem.avail))[2]))
           IN c.out = "reply" /\ Stray(c.m)
<1> DEFINE p == mem.product
           z == The(Available(mem.avail))[2]
           t == Says("choice", "fills", NoProduct, z)
<1>1. /\ ~mem.ordered /\ mem.state = "awaiting_variant" /\ mem.variant # NoVariant
      /\ Available(mem.avail) # {} /\ <<p, z>> \in Stock
      /\ mem.title \notin {NoProduct, p} \cup {v[1] : v \in mem.shown}
  BY DEF Stray, Fits
<1>2. p \in Products /\ z \in Sizes /\ z # NoSize /\ p # NoProduct /\ mem.avail # {}
  <2>1. The(Available(mem.avail)) \in Variants
    BY <1>1, StockIs DEF The
  <2>2. mem.avail # {}
    BY <1>1, StockIs
  <2>3. p \in Products /\ z \in Sizes
    BY <2>1, <2>2, StockIs, SomeVariant DEF Remembered, Good, Memories, MaybeProduct
  <2> QED BY <2>2, <2>3, ReplyEngineAssumption DEF ReplyEngineAssumption
<1>3. <<p, z>> \in VariantsOf(p) /\ Available(VariantsOf(p)) # {}
  BY <1>1, StockIs DEF Available, VariantsOf
<1> HIDE DEF z
<1>4. t.intent = "choice" /\ t.slot = "fills" /\ t.names = NoProduct /\ t.size = z
  BY DEF Says
<1>5. PICK d : /\ Focused(d) /\ SameBut(d.m) /\ d.t = t /\ ~d.first /\ d.scope = NoSize
               /\ VariantUnavailable(d).t.intent # "question" =>
                    Process(mem, t) =
                      IF VariantUnavailable(d).out = "going"
                      THEN BuildResponse(ResolveVariant(VariantUnavailable(d)))
                      ELSE VariantUnavailable(d)
  BY <1>1, <1>2, SizeIsHeard
<1> HIDE DEF t
<1>6. /\ d.head = p /\ d.m.product = p /\ d.m.variant = mem.variant /\ d.out = "going"
      /\ d.m.state = "awaiting_variant" /\ d.m.avail = mem.avail /\ d.m.shown = mem.shown
      /\ d.m.title = mem.title
  BY <1>1, <1>5 DEF Focused, SameBut
<1>7. VariantUnavailable(d) = d
  <2>1. Cardinality({p}) = 1 /\ FoundVariants(d, p) = VariantsOf(p)
    BY <1>5, FS_Singleton, AllIsFound
  <2> QED BY <1>2, <1>3, <1>4, <1>5, <1>6, <2>1 DEF VariantUnavailable, Focused
<1>8. ResolveVariant(d) = d /\ Render(d) = "none"
  BY <1>1, <1>2, <1>4, <1>5, <1>6, SelectedIsSaid
<1> DEFINE n == BuildResponse(d).m
<1>9. Process(mem, t) = BuildResponse(d)
  BY <1>4, <1>5, <1>6, <1>7, <1>8
<1>10. /\ BuildResponse(d).out = "reply" /\ ~n.ordered /\ n.product = p /\ n.avail = mem.avail
       /\ n.shown = mem.shown /\ n.title = mem.title /\ n.variant # NoVariant
       /\ n.state = "awaiting_variant"
  BY <1>1, <1>4, <1>5, <1>6, <1>8, QuestionIsSaid
<1> HIDE DEF n
<1>11. Stray(n)
  BY <1>1, <1>10 DEF Stray, Fits, z
<1> QED BY <1>9, <1>10, <1>11 DEF t, z, n

\* Past an order, who answers what was asked before it has a human, or is asked afresh.
LEMMA AfterOrderAfresh ==
    ASSUME Remembered, mem.ordered, mem.awaiting # "broaden",
           NEW i \in {"details", "ready", "choice"}, NEW sl \in {"fills", "confirmation"},
           NEW z \in Sizes \cup {NoSize}
    PROVE  LET c == Process(mem, Says(i, sl, NoProduct, z))
           IN c.out = "handoff" \/ (c.out = "reply" /\ Afresh(c.m))
<1> DEFINE t == Says(i, sl, NoProduct, z)
           a == ClassifyMessage(Context(mem, t))
           b == SearchAndFilter(a)
           q == Said(a.m, "other")
<1>1. t.intent = i /\ t.slot = sl /\ t.names = NoProduct /\ t.size = z
  BY DEF Says
<1>2. Plain(a) /\ a.t = t /\ a.asked = i /\ a.action = ActionOf(i) /\ Afresh(a.m)
  BY AnswerIsHeard
<1>3. Process(mem, t) = LET d == ProductQuestion(VariantUnavailable(b))
                        IN IF a.out # "going" THEN a ELSE IF b.out # "going" THEN b
                           ELSE IF d.out # "going" THEN d ELSE BuildResponse(ResolveVariant(d))
  BY DEF Process, Going
<1> HIDE DEF t, a
<1>4. NoProduct \notin Products /\ a \in Contexts /\ a.out = "going" /\ a.found = {}
      /\ a.t.intent = i /\ a.t.slot = sl /\ a.t.names = NoProduct
  BY <1>1, <1>2, ReplyEngineAssumption DEF ReplyEngineAssumption, Plain
<1>5. Media(a) = a /\ NarrowGate(a) = a /\ FocusGate(a) = a
  BY <1>2 DEF Plain, Media, NarrowGate, Narrows, FocusGate, VariantQuestionOnFocus, Afresh
<1>6. b = Search(a)
  BY <1>4, <1>5 DEF SearchAndFilter, Going
<1>7. Sized(a).found = {}
  <2>1. CheckAll(NoProduct) = {}
    BY ReplyEngineAssumption DEF CheckAll, ReplyEngineAssumption
  <2>2. Hits(a) = {}
    BY <1>4, <2>1 DEF Hits, SearchProducts
  <2>3. Sized(a) = Found(a, {})
    BY <1>2, <2>2 DEF Sized, Plain
  <2> QED BY <1>4, <2>3, FoundIs
<1>8. ProductQuestion(VariantUnavailable(a)) = a
  <2>1. Cardinality(a.found) # 1
    BY <1>2, PlainGuess
  <2>2. VariantUnavailable(a) = a
    BY <2>1 DEF VariantUnavailable
  <2> QED BY <1>4, <2>2 DEF ProductQuestion
<1>9. ResolveVariant(a) = a
  <2>1. DeclineOffer(a) = a /\ AskedForAnother(a) = a /\ AddToCart(a) = a /\ CheckOut(a) = a
    BY <1>2 DEF DeclineOffer, AskedForAnother, AddToCart, CheckOut, Afresh
  <2>2. ConfirmsProduct(a) = a /\ FillsVariant(a) = a /\ PicksVariant(a) = a
    BY <1>2 DEF ConfirmsProduct, FillsVariant, PicksVariant, Unchosen, Afresh
  <2> QED BY <2>1, <2>2 DEF ResolveVariant
<1>10. OfferVariants(a) = a
  BY <1>2 DEF OfferVariants, Unchosen, Afresh
<1>11. CASE i = "ready"
  <2>1. ShouldSearch(a) /\ Unanswerable(a)
    BY <1>2, <1>4, <1>11
       DEF ShouldSearch, Afresh, Narrows, CommitsOnFullCart, Unanswerable, CanAnswerFromFocus,
           VariantQuestionOnFocus
  <2>2. b = Ends(a, "handoff")
    BY <1>2, <1>4, <1>6, <1>7, <1>11, <2>1 DEF Search, NothingFound, Plain
  <2> QED BY <1>3, <1>4, <2>2, EndsIs DEF Outs, t
<1>12. CASE i # "ready"
  <2>1. b = a
    BY <1>2, <1>4, <1>6, <1>7, <1>12 DEF Search, Plain
  <2>2. Process(mem, t) = BuildResponse(a)
    BY <1>3, <1>4, <1>8, <1>9, <2>1
  <2>3. Render(a) = "none"
    <3>1. ResolveScenario(a) \in {"collect_checkout", "confirm_selection"}
      BY <1>2, <1>4, <1>12 DEF ResolveScenario, OfIntent, Afresh
    <3>2. StageGate(a, ResolveScenario(a)) = "show_products"
      BY <1>2, <1>4, <3>1 DEF StageGate, Afresh
    <3>3. RenderScenario(a, "show_products") = "none"
      BY <1>4 DEF RenderScenario, Viable
    <3> QED BY <1>2, <1>4, <1>12, <3>2, <3>3 DEF Render, Plain
  <2>4. SpeakFreely(a) \in {Ends(SyncProduct(a), "reply"), Ends(SyncProduct(Keep(a, q)), "reply")}
    BY <1>4, <1>12 DEF SpeakFreely, Remember
  <2>5. q \in Memories /\ Afresh(q)
    BY <1>2 DEF Said, Afresh, Memories, Lasts
  <2> HIDE DEF q
  <2>6. ASSUME NEW k \in Contexts, k.found = {}, Afresh(k.m)
        PROVE  LET e == Ends(SyncProduct(k), "reply") IN e.out = "reply" /\ Afresh(e.m)
    BY <2>6, EndsIs DEF SyncProduct, Outs
  <2>7. Keep(a, q) \in Contexts /\ Keep(a, q).found = {} /\ Keep(a, q).m = q
    BY <1>4, <2>5, KeepIs DEF SameFinds
  <2>8. SpeakFreely(a).out = "reply" /\ Afresh(SpeakFreely(a).m)
    BY <1>2, <1>4, <2>4, <2>5, <2>6, <2>7
  <2> QED BY <1>10, <2>2, <2>3, <2>8 DEF BuildResponse, t
<1> QED BY <1>11, <1>12

(***************************************************************************)
(* The product a customer wants is named, with its size.                   *)
(***************************************************************************)
LEMMA ContextKeeps ==
    ASSUME NEW m, NEW t
    PROVE  /\ \A n : Keep(Context(m, t), n) = Context(n, t)
           /\ \A u : u.intent = t.intent => Hear(Context(m, t), u) = Context(m, u)
<1> DEFINE no == FALSE
           C(n, u) == [m |-> n, t |-> u, action |-> ActionOf(t.intent), found |-> {},
                       head |-> NoProduct, scope |-> NoSize, first |-> no, kept |-> no,
                       wide |-> no, asked |-> t.intent, out |-> "going", items |-> {}]
<1>1. \A n, u : u.intent = t.intent => Context(n, u) = C(n, u)
  BY DEF Context
<1> HIDE DEF no
<1>2. \A n, u : [C(m, t) EXCEPT !.m = n] = C(n, t) /\ [C(m, t) EXCEPT !.t = u] = C(m, u)
  OBVIOUS
<1> HIDE DEF C
<1>3. ASSUME NEW n PROVE Keep(Context(m, t), n) = Context(n, t)
  <2>1. Context(m, t) = C(m, t) /\ Context(n, t) = C(n, t)
    BY <1>1
  <2>2. Keep(Context(m, t), n) = [C(m, t) EXCEPT !.m = n]
    BY <2>1 DEF Keep
  <2> QED BY <1>2, <2>1, <2>2
<1>4. ASSUME NEW u, u.intent = t.intent PROVE Hear(Context(m, t), u) = Context(m, u)
  <2>1. Context(m, t) = C(m, t) /\ Context(m, u) = C(m, u)
    BY <1>1, <1>4
  <2>2. Hear(Context(m, t), u) = [C(m, t) EXCEPT !.t = u]
    BY <2>1 DEF Hear
  <2> QED BY <1>2, <2>1, <2>2
<1> QED BY <1>3, <1>4

\* The memory such a message is taken to: nothing of it that counts has changed, or what
\* was selected is forgotten.
Alike(n) ==
    /\ n \in Memories /\ n.state = mem.state /\ n.product = mem.product /\ n.title = mem.title
    /\ n.variant = mem.variant /\ n.avail = mem.avail /\ n.shown = mem.shown
    /\ n.removalAsked = mem.removalAsked /\ n.ordered = mem.ordered

Gone(n) ==
    /\ n \in Memories /\ n.state = "none" /\ n.product = NoProduct /\ n.title = NoProduct
    /\ n.variant = NoVariant /\ n.avail = {}

LEMMA BrowsesIs ==
    ASSUME NEW v \in Stock
    PROVE  LET t == Says("browse", "new_inquiry", v[1], v[2])
           IN /\ t.intent = "browse" /\ t.slot = "new_inquiry" /\ t.names = v[1] /\ t.size = v[2]
              /\ t.typed /\ t.mentions = {v[1]} /\ ~t.cue /\ t.photo = NoProduct
              /\ [t EXCEPT !.names = v[1]] = t /\ Message(t)
              /\ \A x : [t EXCEPT !.names = x, !.size = v[2]] = [t EXCEPT !.names = x]
              /\ v[1] \in Products /\ v[2] \in Sizes /\ v \in Variants /\ v = <<v[1], v[2]>>
              /\ v[1] # NoProduct /\ v[2] # NoSize /\ v[1] # Category
<1>1. v \in Variants /\ v[1] \in Products /\ v[2] \in Sizes /\ v = <<v[1], v[2]>>
  BY SomeVariant DEF Stock
<1>2. v[1] # NoProduct /\ v[2] # NoSize /\ v[1] # Category
  BY <1>1, ReplyEngineAssumption DEF ReplyEngineAssumption
<1>3. Message(Says("browse", "new_inquiry", v[1], v[2]))
  BY <1>1, <1>2, ReplyEngineAssumption
     DEF Says, Message, Readings, Intents, Slots, ReplyEngineAssumption
<1> DEFINE yes == TRUE
           no == FALSE
           T(x) == [intent |-> "browse", slot |-> "new_inquiry", names |-> x, size |-> v[2],
                    typed |-> yes, mentions |-> {v[1]} \cap Products, cue |-> no,
                    photo |-> NoProduct, caption |-> yes, details |-> no, covered |-> no]
<1>4. Says("browse", "new_inquiry", v[1], v[2]) = T(v[1])
  BY DEF Says
<1> HIDE DEF yes, no
<1>5. ASSUME NEW x
      PROVE  /\ [T(v[1]) EXCEPT !.names = x] = T(x)
             /\ [T(v[1]) EXCEPT !.names = x, !.size = v[2]] = T(x)
  <2>1. [T(v[1]) EXCEPT !.names = x] = T(x)
    OBVIOUS
  <2>2. [T(x) EXCEPT !.size = v[2]] = T(x)
    OBVIOUS
  <2> QED BY <2>1, <2>2
<1> HIDE DEF T
<1>6. \A x : /\ [Says("browse", "new_inquiry", v[1], v[2]) EXCEPT !.names = x] = T(x)
             /\ [Says("browse", "new_inquiry", v[1], v[2]) EXCEPT !.names = x, !.size = v[2]] = T(x)
  BY <1>4, <1>5
<1> QED BY <1>1, <1>2, <1>3, <1>4, <1>6 DEF Says

\* What was asked is seen to.
LEMMA BrowseIsCalm ==
    ASSUME Remembered, NEW v \in Stock
    PROVE  LET t == Says("browse", "new_inquiry", v[1], v[2])
               c == Context(mem, t)
           IN \E n : /\ PostOrder(GreetingReset(AnswerBroaden(AnswerCartRemoval(c)))) = Context(n, t)
                     /\ AnswerBroaden(AnswerCartRemoval(c)).out = "going"
                     /\ ~n.ordered
                     /\ \/ Alike(n)
                        \/ Gone(n) /\ (mem.awaiting = "cart_removal" /\ ~mem.ordered)
                        \/ Gone(n) /\ mem.ordered /\ n.shown = {}
<1> DEFINE t == Says("browse", "new_inquiry", v[1], v[2])
           c == Context(mem, t)
           calm == [mem EXCEPT !.awaiting = "other", !.pivot = NoProduct]
           named == InCart(mem, {v[1]})
           cart == Without(mem, The(named))
           left == [calm EXCEPT !.cart = cart, !.removalAsked = FALSE]
           clear == ClearSelection(left)
           rest(m) == [m EXCEPT !.awaiting = "other", !.broaden = NoSize]
           fresh(m) == [NoMemory EXCEPT !.pivot = m.pivot, !.removalAsked = m.removalAsked,
                                        !.broadenAsked = m.broadenAsked, !.broaden = m.broaden]
           Seen(n) == n \in Memories /\ n.ordered = mem.ordered /\
                        (Alike(n) \/ (Gone(n) /\ mem.awaiting = "cart_removal"))
<1>1. /\ t.intent = "browse" /\ t.slot = "new_inquiry" /\ t.names = v[1] /\ t.mentions = {v[1]}
      /\ [t EXCEPT !.names = v[1]] = t /\ v[1] \in Products
  BY BrowsesIs
<1> HIDE DEF t
<1>2. ASSUME NEW n PROVE Context(n, t).m = n /\ Context(n, t).t = t /\ Context(n, t).out = "going"
  BY DEF Context
<1>3. mem \in Memories
  BY DEF Remembered, Good
<1>4. calm \in Memories /\ Alike(calm) /\ calm.ordered = mem.ordered
  BY <1>3 DEF Memories, MaybeProduct, Alike
<1>5. cart \in SUBSET Cartable
  BY <1>3 DEF Memories, Without
<1> HIDE DEF calm, cart
<1>6. left \in Memories /\ left.ordered = mem.ordered
  BY <1>4, <1>5 DEF Memories
<1> HIDE DEF left
<1>7. clear \in Memories /\ Gone(clear) /\ clear.ordered = mem.ordered
  BY <1>6, ForgetIs DEF Gone, SameDeal
<1>8. PICK n1 : AnswerCartRemoval(c) = Context(n1, t) /\ Seen(n1)
  <2>1. CASE mem.awaiting # "cart_removal"
    BY <1>2, <1>3, <2>1 DEF AnswerCartRemoval, Alike
  <2>2. CASE mem.awaiting = "cart_removal" /\ Cardinality(named) # 1
    <3>1. AnswerCartRemoval(c) = Keep(c, calm)
      <4>1. c.m = mem /\ c.t.mentions = {v[1]}
        BY <1>1, <1>2
      <4> HIDE DEF c
      <4> QED BY <2>2, <4>1 DEF AnswerCartRemoval, calm
    <3>2. AnswerCartRemoval(c) = Context(calm, t)
      BY <3>1, ContextKeeps
    <3> QED BY <1>4, <3>2
  <2>3. CASE mem.awaiting = "cart_removal" /\ Cardinality(named) = 1
    <3>1. AnswerCartRemoval(c) = Hear(Keep(c, clear), [t EXCEPT !.names = v[1]])
      BY <1>1, <1>2, <2>3 DEF AnswerCartRemoval, clear, left, calm, cart
    <3> HIDE DEF clear
    <3>2. Hear(Context(clear, t), t) = Context(clear, t)
      BY ContextKeeps
    <3>3. AnswerCartRemoval(c) = Context(clear, t)
      BY <1>1, <3>1, <3>2, ContextKeeps
    <3> QED BY <1>7, <2>3, <3>3
  <2> QED BY <2>1, <2>2, <2>3
<1> HIDE DEF c
<1>9. ASSUME NEW n, Seen(n) PROVE Seen(rest(n))
  BY <1>9 DEF Memories, Alike, Gone
<1>10. PICK n2 : AnswerBroaden(Context(n1, t)) = Context(n2, t) /\ Seen(n2)
  <2>1. AnswerBroaden(Context(n1, t)) \in {Context(n1, t), Keep(Context(n1, t), rest(n1))}
    BY <1>1, <1>2 DEF AnswerBroaden
  <2> HIDE DEF Seen, rest
  <2> QED BY <1>8, <1>9, <2>1, ContextKeeps
<1>11. GreetingReset(Context(n2, t)) = Context(n2, t)
  BY <1>1, <1>2 DEF GreetingReset
<1>12. PostOrder(Context(n2, t)) = Context(IF n2.ordered THEN fresh(n2) ELSE n2, t)
  <2>1. PostOrder(Context(n2, t)) = IF n2.ordered THEN Keep(Context(n2, t), fresh(n2))
                                    ELSE Context(n2, t)
    BY <1>1, <1>2 DEF PostOrder
  <2> HIDE DEF fresh
  <2> QED BY <2>1, ContextKeeps
<1>13. n2.ordered => /\ fresh(n2) \in Memories /\ Gone(fresh(n2)) /\ fresh(n2).shown = {}
                     /\ ~fresh(n2).ordered
  BY <1>10, AfreshIs DEF Afresh, Gone
<1> HIDE DEF fresh
<1>14. AnswerBroaden(AnswerCartRemoval(c)).out = "going"
  BY <1>2, <1>8, <1>10
<1>15. /\ n2.ordered = mem.ordered
       /\ Alike(n2) \/ (Gone(n2) /\ mem.awaiting = "cart_removal")
  BY <1>10
<1> HIDE DEF Seen
<1>16. PICK n : n = IF n2.ordered THEN fresh(n2) ELSE n2
  OBVIOUS
<1>17. PostOrder(GreetingReset(AnswerBroaden(AnswerCartRemoval(c)))) = Context(n, t)
  BY <1>8, <1>10, <1>11, <1>12, <1>16
<1>18. mem.ordered \in BOOLEAN
  BY <1>3 DEF Memories
<1> QED BY <1>13, <1>14, <1>15, <1>16, <1>17, <1>18 DEF c, t

\* What such a message is heard as: the product may have been taken for the one that is left.
Asking(u, v) ==
    /\ u \in Heard /\ u.intent = "browse" /\ u.slot = "new_inquiry" /\ u.size = v[2]
    /\ u.photo = NoProduct /\ u.names \in {v[1], NoProduct}

LEMMA AskingIs ==
    ASSUME NEW v \in Stock, NEW x \in {v[1], NoProduct}
    PROVE  LET u == [Says("browse", "new_inquiry", v[1], v[2]) EXCEPT !.names = x]
           IN Asking(u, v) /\ u.names = x
<1> DEFINE t == Says("browse", "new_inquiry", v[1], v[2])
<1>1. /\ Message(t) /\ v[1] \in Products /\ t.intent = "browse" /\ t.slot = "new_inquiry"
      /\ t.size = v[2] /\ t.photo = NoProduct
  BY BrowsesIs
<1>2. t \in Heard
  BY <1>1, MessageParts
<1> HIDE DEF t
<1>3. Asking([t EXCEPT !.names = x], v) /\ [t EXCEPT !.names = x].names = x
  BY <1>1, <1>2 DEF Asking, Heard, MaybeProduct
<1> QED BY <1>3 DEF t

\* The turn of such a message is searched for.
LEMMA BrowseIsSearched ==
    ASSUME NEW v \in Stock, NEW n \in Memories, NEW u, Asking(u, v),
           u.names = NoProduct => n.product = NoProduct,
           n.state = "awaiting_confirmation" => n.variant = NoVariant
    PROVE  LET c == Context(n, u)
           IN /\ c \in Contexts /\ c.m = n /\ c.t = u /\ c.found = {} /\ c.head = NoProduct
              /\ c.out = "going" /\ c.asked = "browse" /\ c.scope = NoSize /\ ~c.first /\ ~c.wide
              /\ SearchAndFilter(c) = Search(c) /\ ShouldSearch(c)
<1> DEFINE c == Context(n, u)
<1>1. v[1] \in Products /\ v[1] # NoProduct
  BY BrowsesIs
<1>3. /\ u \in Heard /\ u.intent = "browse" /\ u.slot = "new_inquiry" /\ u.size = v[2]
      /\ u.names \in {v[1], NoProduct} /\ u.photo = NoProduct
  BY DEF Asking
<1>4. ActionOf(u.intent) = "show_products"
  BY <1>3 DEF ActionOf
<1>5. /\ c.m = n /\ c.t = u /\ c.found = {} /\ c.head = NoProduct /\ c.out = "going"
      /\ c.asked = "browse" /\ c.scope = NoSize /\ ~c.first /\ ~c.wide /\ c.action = "show_products"
  BY <1>3, <1>4 DEF Context
<1>6. c \in Contexts
  BY <1>3, <1>4 DEF Context, Contexts, MaybeProduct, Actions, Intents, Heard
<1> HIDE DEF c
<1>7. Media(c) = c /\ NarrowGate(c) = c /\ FocusGate(c) = c
  BY <1>1, <1>3, <1>5 DEF Media, NarrowGate, Narrows, FocusGate, VariantQuestionOnFocus
<1>8. SearchAndFilter(c) = Search(c)
  BY <1>5, <1>7 DEF SearchAndFilter, Going
<1>9. ShouldSearch(c)
  BY <1>3, <1>5 DEF ShouldSearch, Narrows, CommitsOnFullCart
<1> QED BY <1>3, <1>5, <1>6, <1>8, <1>9 DEF c

\* Where only what was taken out of the cart is named, a human takes over.
LEMMA NothingIsNamed ==
    ASSUME NEW v \in Stock, NEW n \in Memories, n.product = NoProduct, n.state = "none"
    PROVE  SearchAndFilter(Context(n, [Says("browse", "new_inquiry", v[1], v[2])
                                         EXCEPT !.names = NoProduct])).out = "handoff"
<1> DEFINE u == [Says("browse", "new_inquiry", v[1], v[2]) EXCEPT !.names = NoProduct]
           c == Context(n, u)
<1>1. v[2] # NoSize /\ NoProduct \notin Products
  BY BrowsesIs, ReplyEngineAssumption DEF ReplyEngineAssumption
<1>2. /\ c \in Contexts /\ c.m = n /\ c.found = {} /\ c.asked = "browse" /\ c.scope = NoSize
      /\ c.t.intent = "browse" /\ c.t.slot = "new_inquiry" /\ c.t.size = v[2]
      /\ c.t.names = NoProduct /\ SearchAndFilter(c) = Search(c) /\ ShouldSearch(c)
  <2>1. /\ c \in Contexts /\ c.m = n /\ c.t = u /\ c.found = {} /\ c.asked = "browse"
        /\ c.scope = NoSize /\ u.intent = "browse" /\ u.slot = "new_inquiry" /\ u.size = v[2]
        /\ u.names = NoProduct /\ SearchAndFilter(c) = Search(c) /\ ShouldSearch(c)
    <3>1. Asking(u, v) /\ u.names = NoProduct
      BY AskingIs
    <3> HIDE DEF u
    <3> QED BY <3>1, BrowseIsSearched DEF Asking
  <2> HIDE DEF u, c
  <2> QED BY <2>1
<1> HIDE DEF c
<1>3. Sized(c).found = {}
  <2>1. CheckAll(NoProduct) = {}
    BY ReplyEngineAssumption DEF CheckAll, ReplyEngineAssumption
  <2>2. Hits(c) = {}
    BY <1>2, <2>1 DEF Hits, SearchProducts
  <2>3. Sized(c) = Found(c, {})
    BY <1>2, <2>2 DEF Sized
  <2> QED BY <1>2, <2>3, FoundIs
<1>4. Unanswerable(c)
  BY <1>2 DEF Unanswerable, CanAnswerFromFocus, VariantQuestionOnFocus, CommitsOnFullCart
<1>5. Search(c) = Ends(c, "handoff")
  BY <1>1, <1>2, <1>3, <1>4 DEF Search, NothingFound
<1> QED BY <1>2, <1>5, EndsIs DEF Outs, c, u

\* What is named is found, with its size, and is the selected product from then on.
LEMMA NamedIsFound ==
    ASSUME NEW v \in Stock, NEW n \in Memories, ~n.ordered,
           n.state = "awaiting_confirmation" => n.variant = NoVariant
    PROVE  LET t == Says("browse", "new_inquiry", v[1], v[2])
               f == SearchAndFilter(Context(n, t))
               listed == n.shown = {} \/ n.state = "awaiting_product"
           IN /\ Focused(f) /\ f.t = t /\ f.asked = "browse" /\ f.scope = v[2]
              /\ f.m.product = v[1] /\ f.m.title = v[1] /\ f.m.avail = {v} /\ f.m.shown = {v}
              /\ f.m.variant = n.variant
              /\ f.m.state = IF ~listed THEN n.state
                             ELSE IF n.variant = NoVariant THEN "awaiting_product"
                             ELSE "awaiting_confirmation"
              /\ f.first => n.shown = {}
<1> DEFINE t == Says("browse", "new_inquiry", v[1], v[2])
           p == v[1]
           c == Context(n, t)
           g == Found(c, {p})
           h == [g EXCEPT !.scope = v[2]]
           m == [n EXCEPT !.shown = {v}, !.avail = {v}, !.product = p, !.title = p]
           l == [Keep(h, m) EXCEPT !.head = p]
<1>1. /\ p \in Products /\ v[2] \in Sizes /\ v[2] # NoSize /\ p # NoProduct /\ p # Category
      /\ v \in Variants /\ v = <<p, v[2]>> /\ [t EXCEPT !.names = p] = t /\ t.names = p
      /\ t.slot = "new_inquiry" /\ t.intent = "browse" /\ t.size = v[2]
  BY BrowsesIs
<1>2. /\ c \in Contexts /\ c.m = n /\ c.t = t /\ c.found = {} /\ c.out = "going"
      /\ c.asked = "browse" /\ c.scope = NoSize /\ ~c.first /\ ~c.wide
      /\ SearchAndFilter(c) = Search(c) /\ ShouldSearch(c)
  <2>1. Asking([t EXCEPT !.names = p], v)
    BY AskingIs
  <2> HIDE DEF t
  <2> QED BY <1>1, <2>1, BrowseIsSearched
<1> HIDE DEF t, c
<1>3. Cardinality({p}) = 1 /\ ~(Cardinality({p}) > 1)
  <2>1. Cardinality({p}) = 1
    BY FS_Singleton
  <2> QED BY <2>1
<1>4. {w \in VariantsOf(p) : v[2] \in {NoSize, w[2]}} = {v} /\ Available({v}) = {v}
  <2>1. ASSUME NEW w \in VariantsOf(p), w[2] = v[2] PROVE w = v
    BY <1>1, <2>1, SomeVariant DEF VariantsOf
  <2>2. v \in VariantsOf(p)
    BY <1>1 DEF VariantsOf
  <2> QED BY <1>1, <2>1, <2>2 DEF Available
<1>5. /\ g \in Contexts /\ g.m = n /\ g.t = t /\ g.found = {p} /\ g.head = p /\ g.out = "going"
      /\ g.asked = "browse" /\ ~g.first
  <2>1. {p} \in SUBSET Products
    BY <1>1
  <2>2. g.first = c.first
    BY <1>2 DEF Found, Contexts
  <2> QED BY <1>2, <2>1, <2>2, FoundIs DEF Besides
<1>6. Sized(c) = h
  <2>1. v[2] \in Carried[p]
    BY <1>1 DEF Variants
  <2>2. Hits(c) = {p}
    <3>1. CheckAll(p) = {p}
      BY <1>1 DEF CheckAll
    <3> QED BY <1>1, <1>2, <1>3, <3>1 DEF Hits, SearchProducts
  <2> HIDE DEF g
  <2>3. {q \in Hits(c) : v[2] \in Carried[q]} = {p}
    BY <2>1, <2>2
  <2> QED BY <1>1, <1>2, <2>3 DEF Sized, g
<1> HIDE DEF g
<1>7. /\ h \in Contexts /\ h.m = n /\ h.t = t /\ h.found = {p} /\ h.head = p /\ h.out = "going"
      /\ h.asked = "browse" /\ ~h.first /\ h.scope = v[2]
  BY <1>1, <1>5 DEF Contexts
<1> HIDE DEF h
<1>8. /\ m \in Memories /\ m.product = p /\ m.title = p /\ m.avail = {v} /\ m.shown = {v}
      /\ m.variant = n.variant /\ m.state = n.state /\ ~m.ordered
  BY <1>1 DEF Memories, MaybeProduct
<1>9. Lock(h) = l
  <2>1. FoundVariants(h, p) = {v}
    BY <1>4, <1>7 DEF FoundVariants
  <2>2. UNION {FoundVariants(h, q) : q \in {p}} = {v}
    BY <2>1
  <2>3. Present(h) = Keep(h, [n EXCEPT !.shown = {v}])
    BY <1>7, <2>2 DEF Present
  <2>4. [n EXCEPT !.shown = {v}] \in Memories
    BY <1>1 DEF Memories
  <2>5. Present(h).m = [n EXCEPT !.shown = {v}]
    BY <1>7, <2>3, <2>4, KeepIs
  <2>6. Adopts(h, p)
    BY <1>1, <1>7 DEF Adopts
  <2>7. Lock(h) = [Keep(h, [Present(h).m EXCEPT !.avail = {v}, !.product = p, !.title = p])
                     EXCEPT !.head = p]
    BY <1>3, <1>4, <1>7, <2>1, <2>6 DEF Lock
  <2> QED BY <2>5, <2>7
<1> HIDE DEF m
<1>10. /\ l \in Contexts /\ l.m = m /\ l.t = t /\ l.found = {p} /\ l.head = p /\ l.out = "going"
       /\ l.asked = "browse" /\ ~l.first /\ l.scope = v[2]
  <2>1. Keep(h, m).first = h.first
    BY <1>7 DEF Keep, Contexts
  <2>2. /\ Keep(h, m) \in Contexts /\ Keep(h, m).m = m /\ Keep(h, m).t = t
        /\ Keep(h, m).found = {p} /\ Keep(h, m).head = p /\ Keep(h, m).out = "going"
        /\ Keep(h, m).asked = "browse" /\ Keep(h, m).scope = v[2]
    BY <1>7, <1>8, KeepIs DEF SameFinds, Besides
  <2> HIDE DEF h
  <2> QED BY <1>1, <1>7, <2>1, <2>2 DEF Contexts, MaybeProduct
<1> HIDE DEF l
<1>11. SearchAndFilter(c) = FirstShown(l, n.shown = {})
  BY <1>1, <1>2, <1>6, <1>7, <1>9 DEF Search
<1> DEFINE k(s) == [m EXCEPT !.state = s]
           K(d, s) == Keep(d, [d.m EXCEPT !.state = s])
           First(d, s) == [K(d, s) EXCEPT !.first = TRUE]
           Choosing(d, s) == [K(d, s) EXCEPT !.action = "confirm_selection"]
           Right(d) == /\ Focused(d) /\ d.t = t /\ d.asked = "browse" /\ d.scope = v[2]
                       /\ d.m.product = p /\ d.m.title = p /\ d.m.avail = {v} /\ d.m.shown = {v}
                       /\ d.m.variant = n.variant
<1>12. Right(l) /\ l.m.state = n.state
  BY <1>1, <1>8, <1>10 DEF Focused
<1>13. ASSUME NEW d, Right(d), NEW s \in States
       PROVE  /\ Right(First(d, s)) /\ First(d, s).m.state = s
              /\ Right(Choosing(d, s)) /\ Choosing(d, s).m.state = s
              /\ Choosing(d, s).first = d.first
  <2> DEFINE y == [d.m EXCEPT !.state = s]
             e == Keep(d, y)
  <2>1. d.m \in Memories /\ d \in Contexts
    BY <1>13 DEF Focused, Contexts
  <2>2. y \in Memories /\ y.product = p /\ y.title = p /\ y.avail = {v} /\ y.shown = {v}
        /\ y.variant = n.variant /\ y.state = s /\ ~y.ordered
    BY <1>13, <2>1 DEF Memories, Focused
  <2> HIDE DEF y
  <2>3. Focused(e) /\ e.m = y /\ e.t = t /\ e.asked = "browse" /\ e.scope = v[2]
        /\ e.first = d.first /\ e \in Contexts
    BY <1>13, <2>2, FocusedKeep DEF SameTalk, Focused
  <2>4. "confirm_selection" \in Actions
    BY DEF Actions
  <2> HIDE DEF e
  <2> QED BY <2>2, <2>3, <2>4 DEF Focused, Contexts, e, y
<1> HIDE DEF Right, First, Choosing
<1> DEFINE d == IF n.shown = {} THEN First(l, "awaiting_product") ELSE l
<1>14. /\ Right(d) /\ d.m.state = (IF n.shown = {} THEN "awaiting_product" ELSE n.state)
       /\ d.first => n.shown = {}
  <2>1. CASE n.shown = {}
    <3>1. "awaiting_product" \in States
      BY DEF States
    <3> QED BY <1>12, <1>13, <2>1, <3>1
  <2>2. CASE n.shown # {}
    BY <1>10, <1>12, <2>2
  <2> QED BY <2>1, <2>2
<1> DEFINE held == d.m.state = "awaiting_product" /\ n.variant # NoVariant
           f == SearchAndFilter(c)
<1>15. f = IF held THEN Choosing(d, "awaiting_confirmation") ELSE d
  <2> HIDE DEF d
  <2>1. d.m.product # NoProduct /\ d.m.variant = n.variant
    BY <1>1, <1>14 DEF Right
  <2> QED BY <1>11, <2>1 DEF FirstShown, d, First, Choosing
<1> HIDE DEF d, f
<1>16. /\ Right(f) /\ f.m.state = (IF held THEN "awaiting_confirmation" ELSE d.m.state)
       /\ f.first => n.shown = {}
  <2>1. "awaiting_confirmation" \in States
    BY DEF States
  <2>2. CASE held
    BY <1>13, <1>14, <1>15, <2>1, <2>2
  <2>3. CASE ~held
    BY <1>14, <1>15, <2>3
  <2> QED BY <2>2, <2>3
<1> QED BY <1>14, <1>16 DEF Right, f, c, t

\* A product that is listed, and not on offer, is picked from by the next answer.
LEMMA ListedIsNext ==
    ASSUME NEW v \in Stock, NEW m, ~m.ordered, m.product = v[1], m.title = v[1], m.avail = {v},
           m.awaiting = "other",
           m.state \in {"awaiting_product", "awaiting_variant", "awaiting_confirmation"},
           m.state = "awaiting_confirmation" => m.variant = NoVariant
    PROVE  Left(m, v) = 4 /\ ~Stray(m)
<1>1. /\ Available({v}) = {v} /\ The({v}) = v /\ v = <<v[1], v[2]>> /\ v \in Variants
      /\ v \in VariantsOf(v[1])
  BY BrowsesIs DEF Available, The, VariantsOf
<1>2. v \in Available(VariantsOf(v[1]))
  BY <1>1 DEF Available
<1>3. ~Offered(m) /\ ~Stray(m)
  BY DEF Offered, Stray
<1>4. m.state # "awaiting_product" => Fits(m)
  BY <1>1, <1>2 DEF Fits
<1>5. ~Leaves(m, v)
  BY DEF Leaves
<1>6. ToOffer(m, v) = 4
  BY <1>4, <1>5 DEF ToOffer
<1> QED BY <1>3, <1>6 DEF Left

\* Then it is offered, or listed where another list was shown before.
LEMMA NamedIsSaid ==
    ASSUME NEW v \in Stock, NEW n \in Memories, ~n.ordered,
           n.state \in {"none", "awaiting_product", "awaiting_variant", "awaiting_confirmation"},
           n.state = "awaiting_confirmation" => n.variant = NoVariant
    PROVE  LET b == SearchAndFilter(Context(n, Says("browse", "new_inquiry", v[1], v[2])))
               d == ProductQuestion(VariantUnavailable(b))
               c == BuildResponse(ResolveVariant(d))
           IN /\ b.out = "going" /\ d.out = "going" /\ c.out = "reply"
              /\ \/ Offered(c.m)
                 \/ /\ n.shown # {} /\ n.state # "awaiting_product"
                    /\ Left(c.m, v) = 4 /\ ~Stray(c.m)
<1> DEFINE t == Says("browse", "new_inquiry", v[1], v[2])
           b == SearchAndFilter(Context(n, t))
           listed == n.shown = {} \/ n.state = "awaiting_product"
           r == ResolveVariant(b)
<1>1. /\ t.intent = "browse" /\ t.slot = "new_inquiry" /\ t.size = v[2] /\ t.names = v[1]
      /\ v[2] # NoSize /\ v[1] # NoProduct /\ v \in Variants /\ v = <<v[1], v[2]>>
  BY BrowsesIs
<1>2. /\ Focused(b) /\ b.t = t /\ b.asked = "browse" /\ b.scope = v[2]
      /\ b.m.product = v[1] /\ b.m.title = v[1] /\ b.m.avail = {v} /\ b.m.shown = {v}
      /\ b.m.variant = n.variant
      /\ b.m.state = IF ~listed THEN n.state
                     ELSE IF n.variant = NoVariant THEN "awaiting_product"
                     ELSE "awaiting_confirmation"
      /\ b.first => n.shown = {}
  BY NamedIsFound
<1> HIDE DEF t, b
<1>3. VariantUnavailable(b) = b /\ ProductQuestion(b) = b /\ b.out = "going"
  <2>1. b.head = v[1]
    BY <1>2 DEF Focused
  <2>2. v \in FoundVariants(b, v[1])
    BY <1>1, <1>2 DEF FoundVariants, VariantsOf
  <2>3. Available(FoundVariants(b, v[1])) # {}
    BY <2>2 DEF Available
  <2>4. VariantUnavailable(b) = b
    BY <1>1, <1>2, <2>1, <2>2, <2>3 DEF VariantUnavailable
  <2> QED BY <1>1, <1>2, <2>4 DEF ProductQuestion, Focused
<1>4. /\ DeclineOffer(b) = b /\ AskedForAnother(b) = b /\ AddToCart(b) = b /\ CheckOut(b) = b
      /\ ConfirmsProduct(b) = b /\ FillsVariant(b) = b
  <2>1. v \in b.m.avail /\ b.t.size = v[2] /\ b.t.size # NoSize
    BY <1>1, <1>2
  <2>2. AskedForAnother(b) = b
    BY <2>1 DEF AskedForAnother
  <2>3. DeclineOffer(b) = b /\ AddToCart(b) = b /\ CheckOut(b) = b
    BY <1>1, <1>2 DEF DeclineOffer, AddToCart, CheckOut
  <2> QED BY <1>1, <1>2, <2>2, <2>3 DEF ConfirmsProduct, FillsVariant
<1>5. r = PicksVariant(b)
  BY <1>1, <1>2, <1>4 DEF ResolveVariant
<1> HIDE DEF r
<1>6. CASE b.m.state = "awaiting_product" /\ n.variant = NoVariant
  <2>1. Cardinality({v}) = 1
    BY FS_Singleton
  <2>2. Offers(Choose(b, {v}))
    BY <1>1, <1>2, <2>1, ChooseIs
  <2>3. r = Choose(b, {v})
    BY <1>1, <1>2, <1>5, <1>6 DEF PicksVariant, Unchosen
  <2>4. Offered(BuildResponse(r).m) /\ BuildResponse(r).out = "reply"
    BY <2>2, <2>3, OfferIsSaid
  <2> QED BY <1>3, <2>4 DEF r, b, t
<1>7. CASE ~(b.m.state = "awaiting_product" /\ n.variant = NoVariant)
  <2> DEFINE c == BuildResponse(b)
  <2>1. r = b /\ b.m.state # "awaiting_product"
    BY <1>2, <1>5, <1>7 DEF PicksVariant
  <2>2. Render(b) = "show_products"
    <3>1. ResolveScenario(b) = "show_products"
      BY <1>1, <1>2, <2>1 DEF ResolveScenario, OfIntent
    <3>2. StageGate(b, "show_products") = "show_products"
      BY <1>1, <1>2 DEF StageGate
    <3>3. RenderScenario(b, "show_products") = "show_products"
      BY <1>2 DEF RenderScenario, Viable, Focused
    <3> QED BY <1>1, <1>2, <3>1, <3>2, <3>3 DEF Render
  <2>3. /\ c.out = "reply" /\ ~c.m.ordered /\ c.m.product = v[1] /\ c.m.title = v[1]
        /\ c.m.avail = {v} /\ c.m.variant = n.variant /\ c.m.awaiting = "other"
        /\ c.m.state = IF b.m.state = "none" THEN "awaiting_product" ELSE b.m.state
    BY <1>1, <1>2, <2>2, QuestionIsSaid
  <2> HIDE DEF c
  <2>4. CASE listed
    <3>1. Offered(c.m)
      BY <1>2, <1>7, <2>3, <2>4 DEF Offered
    <3> QED BY <1>3, <2>1, <2>3, <3>1 DEF c, r, b, t
  <2>5. CASE ~listed
    <3>1. Left(c.m, v) = 4 /\ ~Stray(c.m)
      BY <1>2, <2>1, <2>3, <2>5, ListedIsNext
    <3> QED BY <1>3, <2>1, <2>3, <2>5, <3>1 DEF c, r, b, t
  <2> QED BY <2>4, <2>5
<1> QED BY <1>6, <1>7

\* Leaving the selected product behind.
LEMMA LeaveIs ==
    ASSUME NEW v \in Stock, NEW n, NEW m \in Memories, ~m.ordered, NEW x \in {v[1], NoProduct}
    PROVE  LET t == Says("browse", "new_inquiry", v[1], v[2])
           IN \E k : /\ Leave(Context(n, t), m, x) = Context(k, [t EXCEPT !.names = x])
                     /\ Gone(k) /\ ~k.ordered
<1> DEFINE t == Says("browse", "new_inquiry", v[1], v[2])
           clear == ClearSelection(m)
           k == [clear EXCEPT !.awaiting = "other"]
           u == [t EXCEPT !.names = x]
<1>1. t.typed /\ t.size = v[2] /\ t.intent = "browse" /\ [t EXCEPT !.names = x, !.size = v[2]] = u
  BY BrowsesIs
<1>2. u.intent = "browse"
  BY AskingIs DEF Asking
<1> HIDE DEF t
<1>3. clear \in Memories /\ Gone(clear) /\ ~clear.ordered
  BY ForgetIs DEF Gone, SameDeal
<1> HIDE DEF clear
<1>4. Gone(k) /\ ~k.ordered
  BY <1>3 DEF Gone, Memories
<1>5. Context(n, t).t = t
  BY DEF Context
<1>6. Leave(Context(n, t), m, x) = Hear(Keep(Context(n, t), k), u)
  BY <1>1, <1>5 DEF Leave, k, clear
<1> HIDE DEF k, u
<1>7. Hear(Keep(Context(n, t), k), u) = Context(k, u)
  <2>1. Keep(Context(n, t), k) = Context(k, t)
    BY ContextKeeps
  <2>2. Hear(Context(k, t), u) = Context(k, u)
    <3>1. u.intent = t.intent
      BY <1>1, <1>2
    <3> QED BY <3>1, ContextKeeps
  <2> QED BY <2>1, <2>2
<1> QED BY <1>4, <1>6, <1>7 DEF u, t

\* Another product than the selected one is wanted: that one is left behind, or it is asked
\* which item of the cart to remove.
LEMMA BrowsePivots ==
    ASSUME NEW v \in Stock, NEW n \in Memories, ~n.ordered
    PROVE  LET t == Says("browse", "new_inquiry", v[1], v[2])
               c == Context(n, t)
               d == Pivot(c)
           IN /\ ~Leaves(n, v) => d = c
              /\ Leaves(n, v) =>
                   \/ \E k, x : /\ x \in {v[1], NoProduct} /\ d = Context(k, [t EXCEPT !.names = x])
                                /\ Gone(k) /\ ~k.ordered
                   \/ d = AskWhichToRemove(c) /\ ~n.removalAsked
<1> DEFINE t == Says("browse", "new_inquiry", v[1], v[2])
           c == Context(n, t)
           d == Pivot(c)
           named == InCart(n, {v[1]})
           gone == The(named)
           alone == \E i \in n.cart : n.cart = {i} /\ i.product = n.product
           with(cart) == [n EXCEPT !.cart = cart, !.removalAsked = FALSE]
           kept == Without(n, gone)
           left == IF v[1] = gone.title THEN NoProduct ELSE v[1]
           Left2(e) == \E k, x : /\ x \in {v[1], NoProduct} /\ e = Context(k, [t EXCEPT !.names = x])
                                 /\ Gone(k) /\ ~k.ordered
<1>1. /\ t.slot = "new_inquiry" /\ t.names = v[1] /\ t.photo = NoProduct /\ t.mentions = {v[1]}
      /\ v[1] \in Products
  BY BrowsesIs
<1>2. ASSUME NEW m \in Memories, ~m.ordered, NEW x \in {v[1], NoProduct}
      PROVE  Left2(Leave(c, m, x))
  BY <1>2, LeaveIs
<1> HIDE DEF t
<1>3. c.m = n /\ c.t = t /\ ~c.kept
  BY DEF Context
<1> HIDE DEF c, Left2
<1>4. IsPivot(c) /\ n.product # NoProduct <=> Leaves(n, v)
  BY <1>1, <1>3 DEF IsPivot, Leaves
<1>5. CASE ~Leaves(n, v)
  BY <1>1, <1>3, <1>4, <1>5 DEF Pivot, c, t
<1>6. CASE Leaves(n, v)
  <2>1. d = IF Cardinality(named) = 1 THEN Leave(c, with(kept), left)
            ELSE IF alone THEN Leave(c, with({}), v[1])
            ELSE IF n.cart = {} \/ n.removalAsked THEN Leave(c, n, v[1])
            ELSE AskWhichToRemove(c)
    BY <1>1, <1>3, <1>4, <1>6 DEF Pivot
  <2>2. kept \in SUBSET Cartable /\ {} \in SUBSET Cartable
    BY DEF Memories, Without
  <2> HIDE DEF d, kept, named, gone, alone
  <2>3. ASSUME NEW cart \in SUBSET Cartable PROVE with(cart) \in Memories /\ ~with(cart).ordered
    BY DEF Memories
  <2> HIDE DEF with
  <2>4. Left2(d) \/ (d = AskWhichToRemove(c) /\ ~n.removalAsked)
    BY <1>2, <2>1, <2>2, <2>3
  <2> QED BY <1>6, <2>4 DEF Left2, d, c, t
<1> QED BY <1>5, <1>6

\* What is asked leaves all else as it was.
LEMMA RemovalIsAsked ==
    ASSUME NEW v \in Stock, NEW n \in Memories,
           n.state = "awaiting_confirmation" => n.variant = NoVariant
    PROVE  LET d == AskWhichToRemove(Context(n, Says("browse", "new_inquiry", v[1], v[2])))
           IN /\ d.out = "ask_removal" /\ d.m.removalAsked /\ d.m.awaiting = "cart_removal"
              /\ d.m.state = n.state /\ d.m.product = n.product /\ d.m.title = n.title
              /\ d.m.variant = n.variant /\ d.m.avail = n.avail /\ d.m.shown = n.shown
              /\ d.m.ordered = n.ordered
<1> DEFINE t == Says("browse", "new_inquiry", v[1], v[2])
           c == Context(n, t)
           asked == IF InCart(n, {v[1]}) # {} THEN NoProduct ELSE v[1]
           m == [n EXCEPT !.pivot = asked, !.awaiting = "cart_removal", !.removalAsked = TRUE]
<1>1. t.names = v[1] /\ v[1] \in Products /\ v[1] # NoProduct /\ [t EXCEPT !.names = v[1]] = t
  BY BrowsesIs
<1>2. Asking(t, v)
  <2>1. Asking([t EXCEPT !.names = v[1]], v)
    BY AskingIs
  <2> HIDE DEF t
  <2> QED BY <1>1, <2>1
<1> HIDE DEF t
<1>3. c \in Contexts /\ c.m = n /\ c.t = t
  BY <1>1, <1>2, BrowseIsSearched
<1> HIDE DEF c
<1>4. asked \in MaybeProduct
  BY <1>1 DEF MaybeProduct
<1>5. AskWhichToRemove(c) = Ends(Keep(c, m), "ask_removal")
  BY <1>1, <1>3 DEF AskWhichToRemove
<1> HIDE DEF asked
<1>6. /\ m \in Memories /\ m.removalAsked /\ m.awaiting = "cart_removal" /\ m.state = n.state
      /\ m.product = n.product /\ m.title = n.title /\ m.variant = n.variant /\ m.avail = n.avail
      /\ m.shown = n.shown /\ m.ordered = n.ordered
  BY <1>4 DEF Memories
<1> HIDE DEF m
<1> QED BY <1>3, <1>5, <1>6, KeepIs, EndsIs DEF Outs, c, t

LEMMA OfferedIsLeft ==
    ASSUME NEW m, NEW v, Offered(m)
    PROVE  Left(m, v) = 3 /\ ~Stray(m)
BY DEF Offered, Left, Stray

\* The memory to which the product is named.
Browses(m) ==
    /\ m.state \notin {"confirmed", "cart_item_added"} /\ ~Offered(m)
    /\ m.state = "awaiting_confirmation" => Available(VariantsOf(m.product)) = {}
    /\ m.state = "awaiting_variant" => Available(m.avail) = {}

LEMMA BrowsesLeft ==
    ASSUME NEW m, NEW v, Browses(m), ~m.ordered
    PROVE  Left(m, v) = IF Leaves(m, v) /\ ~m.removalAsked THEN 6
                        ELSE IF Leaves(m, v) \/ m.awaiting = "cart_removal" THEN 5
                        ELSE IF m.state = "awaiting_product" \/ m.shown = {} THEN 4 ELSE 5
<1>1. Left(m, v) = ToOffer(m, v)
  BY DEF Left, Browses
<1>2. ~Fits(m) /\ ~(m.state = "awaiting_variant" /\ Available(m.avail) # {})
  BY DEF Browses, Fits
<1> QED BY <1>1, <1>2 DEF ToOffer

\* To name the product is a step to an offer, or to a human.
LEMMA BrowseCloses ==
    ASSUME Remembered, NEW v \in Stock, mem.ordered \/ Browses(mem)
    PROVE  LET c == Process(mem, Says("browse", "new_inquiry", v[1], v[2]))
           IN c.out = "handoff" \/ (~Stray(c.m) /\ Left(c.m, v) < Left(mem, v))
<1> DEFINE t == Says("browse", "new_inquiry", v[1], v[2])
           c == Process(mem, t)
           a == ClassifyMessage(Context(mem, t))
           Searched(e) == LET b == SearchAndFilter(e)
                              d == ProductQuestion(VariantUnavailable(b))
                          IN IF b.out # "going" THEN b ELSE IF d.out # "going" THEN d
                             ELSE BuildResponse(ResolveVariant(d))
           Closes(e) == e.out = "handoff" \/ (~Stray(e.m) /\ Left(e.m, v) < Left(mem, v))
<1>1. t.intent = "browse" /\ t.slot = "new_inquiry" /\ ~t.cue /\ t = [t EXCEPT !.names = v[1]]
  BY BrowsesIs
<1>2. PICK n : /\ PostOrder(GreetingReset(AnswerBroaden(AnswerCartRemoval(Context(mem, t))))) = Context(n, t)
               /\ AnswerBroaden(AnswerCartRemoval(Context(mem, t))).out = "going"
               /\ ~n.ordered
               /\ \/ Alike(n)
                  \/ Gone(n) /\ (mem.awaiting = "cart_removal" /\ ~mem.ordered)
                  \/ Gone(n) /\ mem.ordered /\ n.shown = {}
  BY BrowseIsCalm
<1> HIDE DEF t
<1>3. a = Pivot(Context(n, t))
  <2>1. ASSUME NEW m PROVE Context(m, t).t = t /\ Context(m, t).out = "going"
    BY DEF Context
  <2>2. Policy(Context(mem, t)) = Context(mem, t)
    BY <1>1, <2>1 DEF Policy
  <2>3. KeepOnly(AddsToCart(CoerceRemovalCue(Context(n, t)))) = Context(n, t)
    BY <1>1, <2>1 DEF KeepOnly, AddsToCart, CoerceRemovalCue
  <2> QED BY <1>2, <2>1, <2>2, <2>3 DEF ClassifyMessage, Going
<1>4. c = IF a.out # "going" THEN a ELSE Searched(a)
  BY DEF Process, Going
<1>5. ASSUME NEW k, NEW u PROVE Context(k, u).out = "going"
  BY DEF Context
<1> HIDE DEF c, a
<1>6. mem \in Memories /\ n \in Memories
  BY <1>2 DEF Remembered, Good, Alike, Gone
<1>7. ASSUME NEW k \in Memories, ~k.ordered,
             k.state \in {"none", "awaiting_product", "awaiting_variant", "awaiting_confirmation"},
             k.state = "awaiting_confirmation" => k.variant = NoVariant,
             a = Context(k, t)
      PROVE  /\ c.out = "reply"
             /\ \/ Left(c.m, v) = 3 /\ ~Stray(c.m)
                \/ /\ k.shown # {} /\ k.state # "awaiting_product"
                   /\ Left(c.m, v) = 4 /\ ~Stray(c.m)
  <2> DEFINE b == SearchAndFilter(Context(k, t))
             d == ProductQuestion(VariantUnavailable(b))
             e == BuildResponse(ResolveVariant(d))
  <2>1. /\ b.out = "going" /\ d.out = "going" /\ e.out = "reply"
        /\ \/ Offered(e.m)
           \/ k.shown # {} /\ k.state # "awaiting_product" /\ Left(e.m, v) = 4 /\ ~Stray(e.m)
    BY <1>7, NamedIsSaid DEF t
  <2>2. c = e
    BY <1>4, <1>5, <1>7, <2>1
  <2> HIDE DEF e
  <2> QED BY <2>1, <2>2, OfferedIsLeft
<1>8. ASSUME NEW k, Gone(k)
      PROVE  /\ k \in Memories /\ k.state = "none" /\ k.product = NoProduct
             /\ k.variant = NoVariant /\ ~Leaves(k, v)
  BY <1>8 DEF Gone, Leaves
<1>9. CASE mem.ordered
  <2>1. Gone(n) /\ n.shown = {}
    BY <1>2, <1>9 DEF Alike
  <2>2. a = Context(n, t)
    BY <1>2, <1>3, <1>6, <1>8, <2>1, BrowsePivots DEF t
  <2>3. Left(c.m, v) = 3 /\ ~Stray(c.m)
    BY <1>2, <1>7, <1>8, <2>1, <2>2
  <2>4. Left(mem, v) = 5
    BY <1>9 DEF Left, Offered
  <2> QED BY <2>3, <2>4 DEF c, t
<1>10. CASE ~mem.ordered
  <2>1. /\ mem.state \in {"none", "awaiting_product", "awaiting_variant", "awaiting_confirmation"}
        /\ mem.state = "awaiting_confirmation" => mem.variant = NoVariant
    BY <1>6, <1>10 DEF Browses, Offered, Memories, States
  <2>2. Left(mem, v) = IF Leaves(mem, v) /\ ~mem.removalAsked THEN 6
                       ELSE IF Leaves(mem, v) \/ mem.awaiting = "cart_removal" THEN 5
                       ELSE IF mem.state = "awaiting_product" \/ mem.shown = {} THEN 4 ELSE 5
    BY <1>10, BrowsesLeft
  <2>3. /\ n.state \in {"none", "awaiting_product", "awaiting_variant", "awaiting_confirmation"}
        /\ n.state = "awaiting_confirmation" => n.variant = NoVariant
    BY <1>2, <1>8, <2>1 DEF Alike
  <2>4. CASE ~Leaves(n, v)
    <3>1. a = Context(n, t)
      BY <1>2, <1>3, <1>6, <2>4, BrowsePivots DEF t
    <3>2. \/ Left(c.m, v) = 3 /\ ~Stray(c.m)
          \/ /\ n.shown # {} /\ n.state # "awaiting_product"
             /\ Left(c.m, v) = 4 /\ ~Stray(c.m)
      BY <1>2, <1>6, <1>7, <2>3, <3>1
    <3>3. n.shown # {} /\ n.state # "awaiting_product" => Left(mem, v) > 4
      BY <1>2, <1>10, <2>2 DEF Alike
    <3>4. Left(mem, v) > 3
      BY <2>2
    <3>5. ~Stray(c.m) /\ Left(c.m, v) < Left(mem, v)
      BY <3>2, <3>3, <3>4
    <3> QED BY <3>5 DEF c, t
  <2>5. CASE Leaves(n, v)
    <3>1. Alike(n) /\ Leaves(mem, v)
      BY <1>2, <1>8, <1>10, <2>5 DEF Alike, Leaves
    <3>2. Left(mem, v) = IF mem.removalAsked THEN 5 ELSE 6
      BY <2>2, <3>1
    <3>3. \/ \E k, x : /\ x \in {v[1], NoProduct} /\ a = Context(k, [t EXCEPT !.names = x])
                       /\ Gone(k) /\ ~k.ordered
          \/ a = AskWhichToRemove(Context(n, t)) /\ ~n.removalAsked
      BY <1>2, <1>3, <1>6, <2>5, BrowsePivots DEF t
    <3>4. CASE a = AskWhichToRemove(Context(n, t)) /\ ~n.removalAsked
      <4>1. /\ a.out = "ask_removal" /\ a.m.removalAsked /\ a.m.awaiting = "cart_removal"
            /\ a.m.state = n.state /\ a.m.product = n.product /\ a.m.title = n.title
            /\ a.m.variant = n.variant /\ a.m.avail = n.avail /\ a.m.ordered = n.ordered
        BY <1>6, <2>3, <3>4, RemovalIsAsked DEF t
      <4>2. c = a
        BY <1>4, <4>1
      <4>3. Left(mem, v) = 6
        BY <3>1, <3>2, <3>4 DEF Alike
      <4>4. Browses(a.m) /\ ~a.m.ordered /\ Leaves(a.m, v) /\ ~Stray(a.m)
        BY <1>10, <3>1, <4>1 DEF Alike, Browses, Offered, Leaves, Stray, Fits
      <4>5. Left(a.m, v) = 5
        BY <4>1, <4>4, BrowsesLeft
      <4> QED BY <4>2, <4>3, <4>4, <4>5 DEF c, t
    <3>5. ASSUME NEW k, NEW x, x \in {v[1], NoProduct}, a = Context(k, [t EXCEPT !.names = x]),
                 Gone(k), ~k.ordered
          PROVE  Closes(c)
      <4>1. CASE x = v[1]
        <5>1. a = Context(k, t)
          BY <1>1, <3>5, <4>1
        <5>2. (Left(c.m, v) = 3 \/ Left(c.m, v) = 4) /\ ~Stray(c.m)
          BY <1>7, <1>8, <3>5, <5>1
        <5> QED BY <3>2, <5>2
      <4>2. CASE x = NoProduct
        <5>1. SearchAndFilter(a).out = "handoff"
          BY <1>8, <3>5, <4>2, NothingIsNamed DEF t
        <5>2. a.out = "going"
          BY <1>5, <3>5
        <5>3. c = SearchAndFilter(a)
          BY <1>4, <5>1, <5>2
        <5> QED BY <5>1, <5>3
      <4> QED BY <3>5, <4>1, <4>2
    <3>6. CASE \E k, x : /\ x \in {v[1], NoProduct} /\ a = Context(k, [t EXCEPT !.names = x])
                         /\ Gone(k) /\ ~k.ordered
      <4> HIDE DEF Closes
      <4>1. Closes(c)
        BY <3>5, <3>6
      <4> QED BY <4>1 DEF Closes, c, t
    <3> QED BY <3>3, <3>4, <3>6
  <2> QED BY <2>4, <2>5
<1> QED BY <1>9, <1>10

(***************************************************************************)
(* The conversation                                                        *)
(***************************************************************************)
\* What holds between two messages.
Agreed == (agreed \ swapped) \cup presumed
CartWasAgreed == ~mem.ordered => \A i \in mem.cart : i.variant \in Agreed \/ Mixed(i)
OrderWasAgreed == \A i \in items : i.variant \in Agreed \/ Mixed(i)

DialogueInv ==
    /\ Remembered /\ CartWasAgreed /\ OrderWasAgreed /\ DeclinedReturnsOnlyAlone
    /\ out \in Outs /\ want \in Stock /\ Quiet(mem) /\ Listed(mem)

LEMMA InitHolds == Init => DialogueInv
<1> SUFFICES ASSUME Init PROVE DialogueInv
  OBVIOUS
<1>1. mem = NoMemory
  BY DEF Init
<1>2. Remembered
  BY <1>1, NoMemoryIs DEF Remembered, Good, Unpicked
<1>3. CartWasAgreed /\ OrderWasAgreed /\ DeclinedReturnsOnlyAlone
  BY <1>1, NoMemoryIs DEF Init, CartWasAgreed, OrderWasAgreed, DeclinedReturnsOnlyAlone
<1>4. want \in Stock /\ out \in Outs
  BY SalesDialogueAssumption DEF SalesDialogueAssumption, Init, The, Outs
<1>5. Quiet(mem) /\ Listed(mem)
  <2>1. VariantsOf(NoProduct) = {}
    BY NothingIsOfNone
  <2> QED BY <1>1, <2>1 DEF Quiet, Listed, NoMemory
<1> QED BY <1>2, <1>3, <1>4, <1>5 DEF DialogueInv

\* What a customer who answers says is a message like any other.
LEMMA AnswerIsMessage ==
    ASSUME Remembered, NEW v \in Stock
    PROVE  Message(Answer(v))
<1>1. NoProduct \notin Products /\ Category \notin Products \cup {NoProduct}
  BY ReplyEngineAssumption DEF ReplyEngineAssumption
<1>2. ASSUME NEW w \in Variants PROVE w[1] \in Products /\ w[2] \in Sizes
  BY ReplyEngineAssumption DEF ReplyEngineAssumption, Variants
<1>3. ASSUME NEW i \in Intents, NEW sl \in Slots, NEW p \in MaybeProduct,
             NEW s \in Sizes \cup {NoSize}
      PROVE  Message(Says(i, sl, p, s))
  <2>1. {p} \cap Products \in SUBSET Products /\ (i = "details") \in BOOLEAN
    OBVIOUS
  <2>2. Says(i, sl, p, s) \in Readings /\ Says(i, sl, p, s).names = p
    BY <2>1 DEF Says, Readings, MaybeProduct
  <2> QED BY <1>1, <2>2 DEF Message, MaybeProduct
<1>4. /\ "details" \in Intents /\ "ready" \in Intents /\ "choice" \in Intents /\ "browse" \in Intents
      /\ "fills" \in Slots /\ "confirmation" \in Slots /\ "new_inquiry" \in Slots
  BY DEF Intents, Slots
<1>5. ASSUME NEW S, S \subseteq Variants, Available(S) # {}
      PROVE  The(Available(S))[2] \in Sizes
  <2>1. The(Available(S)) \in Variants
    BY <1>5, StockIs DEF The
  <2> QED BY <1>2, <2>1
<1>6. mem.avail \subseteq Variants /\ VariantsOf(mem.product) \subseteq Variants /\ v \in Variants
  BY DEF Remembered, Good, Memories, VariantsOf, Stock
<1> DEFINE s1 == The(Available(VariantsOf(mem.product)))[2]
           s2 == The(Available(mem.avail))[2]
<1>7. \/ Answer(v) = Says("details", "fills", NoProduct, NoSize)
      \/ Answer(v) = Says("ready", "confirmation", NoProduct, NoSize)
      \/ Answer(v) = Says("choice", "confirmation", NoProduct, NoSize)
      \/ Answer(v) = Says("choice", "confirmation", NoProduct, s1) /\ s1 \in Sizes
      \/ Answer(v) = Says("choice", "fills", NoProduct, s2) /\ s2 \in Sizes
      \/ Answer(v) = Says("browse", "new_inquiry", v[1], v[2])
  <2>1. Available(VariantsOf(mem.product)) # {} => s1 \in Sizes
    BY <1>5, <1>6
  <2>2. Available(mem.avail) # {} => s2 \in Sizes
    BY <1>5, <1>6
  <2> HIDE DEF s1, s2
  <2> QED BY <2>1, <2>2 DEF Answer, s1, s2
<1>8. NoProduct \in MaybeProduct /\ v[1] \in MaybeProduct /\ v[2] \in Sizes
  BY <1>2, <1>6 DEF MaybeProduct
<1> HIDE DEF s1, s2
<1> QED BY <1>3, <1>4, <1>7, <1>8

\* What the customer wants of the cart by the end of the turn has been agreed to.
LEMMA AfterIsAgreed ==
    ASSUME NEW t, NEW c, CartWasAgreed, Becomes(c, t)
    PROVE  After(t) \subseteq Agreed'
BY DEF After, Becomes, CartWasAgreed, Agreed

\* A turn preserves what holds of memory, cart and order.
LEMMA TurnHolds ==
    ASSUME NEW t, Message(t), DialogueInv, Turn(t)
    PROVE  (Remembered /\ CartWasAgreed /\ OrderWasAgreed /\ DeclinedReturnsOnlyAlone
              /\ out \in Outs /\ Quiet(mem) /\ Listed(mem))'
<1> DEFINE c == Process(mem, t)
<1>1. Becomes(c, t)
  BY DEF Turn
<1>2. Remembered /\ CartWasAgreed /\ Quiet(mem) /\ Listed(mem)
  BY DEF DialogueInv
<1>3. Answered(c, t) /\ Quiet(c.m) /\ Listed(c.m)
  BY <1>2, ProcessIsAnswered, QuietStays, ListedStays
<1>4. Refusal(t) # {} => Alone(c.m)
  BY <1>2, RefusalLeavesAlone
<1> HIDE DEF c
<1>5. mem' = c.m /\ items' = c.items /\ out' = c.out /\ refused' = Refusal(t)
  BY <1>1 DEF Becomes
<1>6. c.m \in Memories /\ Answers(c.m, Variants) /\ Unpicked(c.m)
  BY <1>3 DEF Answered, Answers
<1>7. After(t) \subseteq Agreed'
  BY <1>1, <1>2, AfterIsAgreed
<1>8. Remembered'
  <2>1. (\A i \in mem.cart : i.variant \in Variants)'
    BY <1>5, <1>6 DEF Memories, Cartable
  <2>2. /\ (mem \in Memories)'
        /\ (mem.product = NoProduct => mem.avail = {} /\ mem.variant = NoVariant)'
        /\ (mem.state \in {"cart_item_added", "confirmed"} => mem.cart # {} /\ mem.product # NoProduct)'
    BY <1>5, <1>6 DEF Answers
  <2>3. (mem.variant \in Variants \cup {NoVariant})'
    BY <1>5, <1>6 DEF Memories, MaybeVariant
  <2>4. Unpicked(mem)'
    BY <1>5, <1>6 DEF Unpicked
  <2> QED BY <2>1, <2>2, <2>3, <2>4 DEF Remembered, Good
<1>9. CartWasAgreed'
  BY <1>3, <1>5, <1>7 DEF CartWasAgreed, Answered, Cleared, Mixed
<1>10. OrderWasAgreed'
  BY <1>3, <1>5, <1>7 DEF OrderWasAgreed, Answered, Mixed
<1>11. DeclinedReturnsOnlyAlone'
  BY <1>4, <1>5 DEF DeclinedReturnsOnlyAlone, Offered, Alone
<1>12. (out \in Outs)'
  BY <1>3, <1>5 DEF Answered, Outs
<1>13. Quiet(mem)' /\ Listed(mem)'
  BY <1>3, <1>5 DEF Quiet, Listed, VariantsOf
<1> QED BY <1>8, <1>9, <1>10, <1>11, <1>12, <1>13

LEMMA StepHolds == DialogueInv /\ [Next]_vars => DialogueInv'
<1> SUFFICES ASSUME DialogueInv, [Next]_vars PROVE DialogueInv'
  OBVIOUS
<1>1. Stock' = Stock /\ Outs' = Outs
  BY DEF Outs
<1>2. CASE Wander
  <2>1. PICK t \in Messages : Turn(t)
    BY <1>2 DEF Wander
  <2>2. Message(t)
    BY SalesDialogueAssumption DEF SalesDialogueAssumption, Message
  <2>3. want' \in Stock'
    BY <1>2, SalesDialogueAssumption DEF Wander, The, SalesDialogueAssumption
  <2> QED BY <2>1, <2>2, <2>3, TurnHolds DEF DialogueInv
<1>3. CASE Buy
  <2>1. want' \in Stock /\ Turn(Answer(want'))
    BY <1>3 DEF Buy, DialogueInv
  <2>2. PICK t : Message(t) /\ Turn(t)
    BY <2>1, AnswerIsMessage DEF DialogueInv
  <2> QED BY <1>1, <2>1, <2>2, TurnHolds DEF DialogueInv
<1>4. CASE UNCHANGED vars
  <2> USE <1>4 DEF vars
  <2>1. Remembered' /\ CartWasAgreed' /\ OrderWasAgreed' /\ DeclinedReturnsOnlyAlone'
        /\ Quiet(mem)' /\ Listed(mem)'
    BY DEF DialogueInv, Remembered, CartWasAgreed, OrderWasAgreed, DeclinedReturnsOnlyAlone, Good,
           Unpicked, Agreed, Mixed, Offered, Quiet, Listed, VariantsOf
  <2> QED BY <1>1, <2>1 DEF DialogueInv
<1> QED BY <1>2, <1>3, <1>4 DEF Next

LEMMA InvHolds == Spec => []DialogueInv
<1> QED BY InitHolds, StepHolds, PTL DEF Spec

\* The memory keeps its types, however the messages are read.
THEOREM DialogueTypes == Spec => []DialogueTypeOK
<1>1. DialogueInv => DialogueTypeOK
  BY DEF DialogueInv, Remembered, Good, Memories, States, MaybeProduct, MaybeVariant, Outs,
         DialogueTypeOK
<1> QED BY <1>1, InvHolds, PTL

\* However the messages are read, nothing is ordered that was not agreed to, but what a yes to
\* another question was taken for (presumed) and what goes by the name of another product
\* (Mixed): whatever is in the cart was (CartWasAgreed), and a variant without a cart is the
\* one the details name.
THEOREM OrdersAreAgreed == Spec => []ShippedWasAgreed
<1>1. DialogueInv => ShippedWasAgreed
  BY DEF DialogueInv, OrderWasAgreed, Agreed, ShippedWasAgreed
<1> QED BY <1>1, InvHolds, PTL

\* An item given up for another product is in no order, the item in focus included, unless
\* agreed to again, presumed, or under the name of another product.
THEOREM SwapsStayOut == Spec => []SwappedNeverShips
<1>1. DialogueInv => SwappedNeverShips
  BY DEF DialogueInv, OrderWasAgreed, Agreed, SwappedNeverShips
<1> QED BY <1>1, InvHolds, PTL

\* What was refused is offered again only when there is nothing else to offer.
THEOREM RefusedReturnsAlone == Spec => []DeclinedReturnsOnlyAlone
<1>1. DialogueInv => DeclinedReturnsOnlyAlone
  BY DEF DialogueInv
<1> QED BY <1>1, InvHolds, PTL

\* Which answer is given.
LEMMA AnswerIs ==
    ASSUME NEW v
    PROVE  /\ mem.state = "confirmed" =>
                Answer(v) = Says("details", "fills", NoProduct, NoSize)
           /\ mem.state = "cart_item_added" =>
                Answer(v) = Says("ready", "confirmation", NoProduct, NoSize)
           /\ Offered(mem) => Answer(v) = Says("choice", "confirmation", NoProduct, NoSize)
           /\ /\ mem.state = "awaiting_confirmation" /\ ~Offered(mem)
              /\ Available(VariantsOf(mem.product)) # {}
              => Answer(v) = Says("choice", "confirmation", NoProduct,
                                  The(Available(VariantsOf(mem.product)))[2])
           /\ mem.state = "awaiting_variant" /\ Available(mem.avail) # {} =>
                Answer(v) = Says("choice", "fills", NoProduct, The(Available(mem.avail))[2])
           /\ Browses(mem) => Answer(v) = Says("browse", "new_inquiry", v[1], v[2])
<1> DEFINE s1 == The(Available(VariantsOf(mem.product)))[2]
           s2 == The(Available(mem.avail))[2]
           b1 == /\ mem.state = "awaiting_confirmation" /\ ~Offered(mem)
                 /\ Available(VariantsOf(mem.product)) # {}
           b2 == mem.state = "awaiting_variant" /\ Available(mem.avail) # {}
<1>1. Answer(v) =
        CASE mem.state = "confirmed" -> Says("details", "fills", NoProduct, NoSize)
          [] mem.state = "cart_item_added" -> Says("ready", "confirmation", NoProduct, NoSize)
          [] Offered(mem) -> Says("choice", "confirmation", NoProduct, NoSize)
          [] b1 -> Says("choice", "confirmation", NoProduct, s1)
          [] b2 -> Says("choice", "fills", NoProduct, s2)
          [] OTHER -> Says("browse", "new_inquiry", v[1], v[2])
  BY DEF Answer
<1>2. /\ Offered(mem) => mem.state = "awaiting_confirmation"
      /\ b1 => mem.state = "awaiting_confirmation" /\ ~Offered(mem)
      /\ b2 => mem.state = "awaiting_variant"
  BY DEF Offered
<1>3. Browses(mem) => /\ mem.state # "confirmed" /\ mem.state # "cart_item_added"
                      /\ ~Offered(mem) /\ ~b1 /\ ~b2
  BY DEF Browses
<1> HIDE DEF s1, s2, b1, b2
<1>4. /\ mem.state = "confirmed" =>
           Answer(v) = Says("details", "fills", NoProduct, NoSize)
      /\ mem.state = "cart_item_added" =>
           Answer(v) = Says("ready", "confirmation", NoProduct, NoSize)
      /\ Offered(mem) => Answer(v) = Says("choice", "confirmation", NoProduct, NoSize)
      /\ b1 => Answer(v) = Says("choice", "confirmation", NoProduct, s1)
      /\ b2 => Answer(v) = Says("choice", "fills", NoProduct, s2)
      /\ Browses(mem) => Answer(v) = Says("browse", "new_inquiry", v[1], v[2])
  BY <1>1, <1>2, <1>3
<1> QED BY <1>4 DEF s1, s2, b1, b2

\* Every memory is answered in one of these ways.
LEMMA AnswersAre ==
    ASSUME Remembered
    PROVE  \/ mem.state \in {"confirmed", "cart_item_added"} \/ Offered(mem) \/ Browses(mem)
           \/ /\ mem.state = "awaiting_confirmation" /\ ~Offered(mem)
              /\ Available(VariantsOf(mem.product)) # {}
           \/ mem.state = "awaiting_variant" /\ Available(mem.avail) # {}
BY DEF Browses

\* An order is done: whatever was answered is asked afresh, or the next product offered.
LEMMA OrderedCloses ==
    ASSUME Remembered, Quiet(mem), mem.ordered, NEW v \in Stock
    PROVE  LET c == Process(mem, Answer(v))
           IN c.out = "handoff" \/ (~Stray(c.m) /\ Left(c.m, v) < Left(mem, v))
<1>1. Left(mem, v) = 5
  BY DEF Left, Offered
<1>2. CASE Browses(mem)
  <2>1. Answer(v) = Says("browse", "new_inquiry", v[1], v[2])
    BY <1>2, AnswerIs
  <2> QED BY <2>1, BrowseCloses
<1>3. CASE ~Browses(mem)
  <2>1. PICK i \in {"details", "ready", "choice"}, sl \in {"fills", "confirmation"},
             z \in Sizes \cup {NoSize} : Answer(v) = Says(i, sl, NoProduct, z)
    <3>1. ASSUME NEW S, S \subseteq Variants, Available(S) # {}
          PROVE  The(Available(S))[2] \in Sizes
      <4>1. The(Available(S)) \in Variants
        BY <3>1, StockIs DEF The
      <4> QED BY <4>1, SomeVariant
    <3>2. mem.avail \subseteq Variants /\ VariantsOf(mem.product) \subseteq Variants
      BY DEF Remembered, Good, Memories, VariantsOf
    <3> QED BY <1>3, <3>1, <3>2, AnswerIs, AnswersAre
  <2>2. mem.awaiting # "broaden"
    BY <1>3 DEF Quiet, Browses, Offered
  <2> DEFINE c == Process(mem, Answer(v))
  <2>3. c.out = "handoff" \/ (c.out = "reply" /\ Afresh(c.m))
    BY <2>1, <2>2, AfterOrderAfresh
  <2> HIDE DEF c
  <2>4. Afresh(c.m) => ~Stray(c.m) /\ Browses(c.m) /\ ~c.m.ordered /\ ~Leaves(c.m, v)
                       /\ c.m.awaiting = "other" /\ c.m.shown = {}
    BY DEF Afresh, Stray, Browses, Offered, Leaves
  <2>5. Afresh(c.m) => Left(c.m, v) = 4
    BY <2>4, BrowsesLeft
  <2> QED BY <1>1, <2>3, <2>4, <2>5 DEF c
<1> QED BY <1>2, <1>3

\* A size is answered with: it is on offer, or will be by the next one or two answers.
LEMMA SizeCloses ==
    ASSUME Remembered, Quiet(mem), Listed(mem), ~mem.ordered, ~Stray(mem), NEW v,
           \/ /\ mem.state = "awaiting_confirmation" /\ ~Offered(mem)
              /\ Available(VariantsOf(mem.product)) # {}
           \/ mem.state = "awaiting_variant" /\ Available(mem.avail) # {}
    PROVE  LET c == Process(mem, Answer(v)) IN ~Stray(c.m) /\ Left(c.m, v) < Left(mem, v)
<1> DEFINE c == Process(mem, Answer(v))
<1>1. /\ mem.awaiting # "broaden" /\ ~Offered(mem)
      /\ mem.state \notin {"confirmed", "cart_item_added"}
  BY DEF Quiet, Offered
<1>2. Left(mem, v) = ToOffer(mem, v)
  BY <1>1 DEF Left
<1>3. CASE /\ mem.state = "awaiting_confirmation"
           /\ Available(VariantsOf(mem.product)) # {}
  <2>1. Offered(c.m)
    <3>1. mem.variant = NoVariant
      BY <1>1, <1>3 DEF Offered
    <3> QED BY <1>1, <1>3, <3>1, AnswerIs, ConfirmedSizeIsOffered
  <2> HIDE DEF c
  <2>2. Left(mem, v) = 4
    BY <1>2, <1>3 DEF ToOffer, Fits
  <2> QED BY <2>1, <2>2, OfferedIsLeft DEF c
<1>4. CASE mem.state = "awaiting_variant" /\ Available(mem.avail) # {}
  <2>1. /\ c.out = "reply" /\ ~c.m.ordered
        /\ \/ Offered(c.m)
           \/ /\ c.m.variant = NoVariant /\ ~Fits(mem) /\ c.m.state = "awaiting_variant"
              /\ Available(VariantsOf(mem.product)) # {}
              /\ \/ Fits(c.m)
                 \/ mem.variant # NoVariant /\ c.m.product = mem.product /\ c.m.avail = mem.avail
           \/ /\ c.m.variant = NoVariant /\ ~Fits(mem) /\ c.m.state = "awaiting_product"
              /\ Available(VariantsOf(mem.product)) = {}
    <3>1. mem.shown # {}
      BY <1>4, StockIs DEF Listed
    <3> QED BY <1>1, <1>4, <3>1, AnswerIs, FilledSizeIsTaken
  <2> HIDE DEF c
  <2>2. Left(mem, v) = IF Fits(mem) THEN 4
                       ELSE IF Available(VariantsOf(mem.product)) = {} THEN 7
                       ELSE IF mem.variant # NoVariant THEN 6 ELSE 5
    BY <1>2, <1>4 DEF ToOffer
  <2>3. CASE Offered(c.m)
    BY <2>2, <2>3, OfferedIsLeft DEF c
  <2>4. CASE /\ c.m.variant = NoVariant /\ ~Fits(mem) /\ c.m.state = "awaiting_variant"
             /\ Available(VariantsOf(mem.product)) # {}
             /\ \/ Fits(c.m)
                \/ mem.variant # NoVariant /\ c.m.product = mem.product /\ c.m.avail = mem.avail
    <3>1. Left(c.m, v) = IF Fits(c.m) THEN 4 ELSE 5
      BY <1>4, <2>1, <2>4 DEF Left, ToOffer, Offered
    <3> QED BY <2>2, <2>4, <3>1 DEF Stray, c
  <2>5. CASE /\ c.m.variant = NoVariant /\ ~Fits(mem) /\ c.m.state = "awaiting_product"
             /\ Available(VariantsOf(mem.product)) = {}
    <3>1. Browses(c.m)
      BY <2>5 DEF Browses, Offered
    <3>2. Left(c.m, v) < 7
      BY <2>1, <3>1, BrowsesLeft
    <3> QED BY <2>2, <2>5, <3>2 DEF Stray, c
  <2> QED BY <2>1, <2>3, <2>4, <2>5
<1> QED BY <1>3, <1>4

\* Once something is on offer the yes puts it into the cart (YesIsTaken), whoever is ready is
\* asked for the details of the delivery (ReadyChecksOut), and the details make an order of
\* the cart (DetailsAreOrdered), which DialogueInv says is not empty by then.
LEMMA OfferCloses ==
    ASSUME Remembered, Quiet(mem), ~mem.ordered, NEW v,
           mem.state \in {"confirmed", "cart_item_added"} \/ Offered(mem)
    PROVE  LET c == Process(mem, Answer(v))
           IN \/ c.out = "handoff" \/ (c.out = "order" /\ c.items # {})
              \/ ~Stray(c.m) /\ Left(c.m, v) < Left(mem, v)
<1> DEFINE c == Process(mem, Answer(v))
<1>1. mem.awaiting # "broaden"
  BY DEF Quiet, Offered
<1>2. Goes(c) => /\ ~Stray(c.m) /\ Left(c.m, v) \in {1, 2}
                 /\ c.m.state = "confirmed" => Left(c.m, v) = 1
  <2> HIDE DEF c
  <2> QED BY DEF Goes, Stray, Left, Offered
<1>3. CASE mem.state = "confirmed"
  <2>1. c.out = "order" /\ c.items = mem.cart
    BY <1>1, <1>3, AnswerIs, DetailsAreOrdered
  <2>2. mem.cart # {}
    BY <1>3 DEF Remembered, Good
  <2> QED BY <2>1, <2>2
<1>4. CASE mem.state = "cart_item_added"
  <2>1. c.out = "handoff" \/ (Goes(c) /\ c.m.state = "confirmed")
    BY <1>1, <1>4, AnswerIs, ReadyChecksOut
  <2>2. Left(mem, v) = 2
    BY <1>4 DEF Left, Offered
  <2> HIDE DEF c
  <2> QED BY <1>2, <2>1, <2>2 DEF c
<1>5. CASE Offered(mem)
  <2>1. Goes(c)
    BY <1>1, <1>5, AnswerIs, YesIsTaken
  <2>2. Left(mem, v) = 3
    BY <1>5, OfferedIsLeft
  <2> HIDE DEF c
  <2> QED BY <1>2, <2>1, <2>2 DEF c
<1> QED BY <1>3, <1>4, <1>5

\* An answer to a memory that is not stray leaves fewer to be given, or none.
LEMMA AnswerCloses ==
    DialogueInv /\ Buy /\ ~Stray(mem) =>
        Served' \/ (~Stray(mem') /\ Left(mem', want') < Left(mem, want'))
<1> SUFFICES ASSUME DialogueInv, Buy, ~Stray(mem)
             PROVE  Served' \/ (~Stray(mem') /\ Left(mem', want') < Left(mem, want'))
  OBVIOUS
<1> DEFINE c == Process(mem, Answer(want'))
<1>1. Remembered /\ Quiet(mem) /\ Listed(mem) /\ want' \in Stock
  BY DEF DialogueInv, Buy
<1>2. Becomes(c, Answer(want'))
  BY DEF Buy, Turn
<1>3. \/ c.out = "handoff" \/ (c.out = "order" /\ c.items # {})
      \/ ~Stray(c.m) /\ Left(c.m, want') < Left(mem, want')
  <2>1. CASE mem.ordered
    BY <1>1, <2>1, OrderedCloses
  <2>2. CASE ~mem.ordered /\ Browses(mem)
    <3>1. Answer(want') = Says("browse", "new_inquiry", want'[1], want'[2])
      BY <2>2, AnswerIs
    <3> QED BY <1>1, <2>2, <3>1, BrowseCloses
  <2>3. CASE ~mem.ordered /\ ~Browses(mem)
    BY <1>1, <2>3, AnswersAre, OfferCloses, SizeCloses
  <2> QED BY <2>1, <2>2, <2>3
<1> HIDE DEF c
<1>4. mem' = c.m /\ out' = c.out /\ items' = c.items
  BY <1>2 DEF Becomes
<1> QED BY <1>3, <1>4 DEF Served

\* However the messages before were read, every answer to a memory that is not stray is a
\* step to an order of something, or to a human: Left, which counts the answers that are left
\* to give, falls with each of them.
THEOREM AnswersAreClosed == Spec => AnswersClose
<1>1. DialogueInv /\ [Next]_vars => [Buy /\ ~Stray(mem) =>
        Served' \/ (~Stray(mem') /\ Left(mem', want') < Left(mem, want'))]_vars
  BY AnswerCloses
<1> QED BY <1>1, InvHolds, PTL DEF Spec, AnswersClose

\* And of a stray memory there is no way out but to stop answering: the size that fits is
\* heard, and what is asked is asked again.  So AnswersClose leaves out no memory it need not.
THEOREM StrayIsHeld == Spec => [][Buy /\ Stray(mem) => out' = "reply" /\ Stray(mem')]_vars
<1>1. DialogueInv /\ [Next]_vars => [Buy /\ Stray(mem) => out' = "reply" /\ Stray(mem')]_vars
  <2> SUFFICES ASSUME DialogueInv, Buy, Stray(mem) PROVE out' = "reply" /\ Stray(mem')
    OBVIOUS
  <2> DEFINE t == Says("choice", "fills", NoProduct, The(Available(mem.avail))[2])
             c == Process(mem, t)
  <2>1. /\ Remembered /\ mem.state = "awaiting_variant" /\ Available(mem.avail) # {}
        /\ mem.awaiting # "broaden" /\ mem.shown # {}
    <3>1. Remembered /\ Quiet(mem) /\ Listed(mem)
      BY DEF DialogueInv
    <3>2. mem.state = "awaiting_variant" /\ Available(mem.avail) # {}
      BY DEF Stray, Fits
    <3> QED BY <3>1, <3>2, StockIs DEF Quiet, Listed
  <2>2. Answer(want') = t
    BY <2>1 DEF Answer, Offered
  <2>3. c.out = "reply" /\ Stray(c.m)
    BY <2>1, FilledSizeIsLost
  <2> HIDE DEF t
  <2>4. mem' = c.m /\ out' = c.out
    BY <2>2 DEF Buy, Turn, Becomes
  <2> HIDE DEF c
  <2> QED BY <2>3, <2>4
<1> QED BY <1>1, InvHolds, PTL DEF Spec

LEMMA LeftIs ==
    ASSUME NEW m, NEW v
    PROVE  Left(m, v) \in 1..7
<1>1. ToOffer(m, v) \in 1..7
  BY DEF ToOffer
<1> QED BY <1>1 DEF Left, Offered

\* What the customer who answers has come to: the answers given, and those that are left.
Answering ==
    /\ answers \in Nat
    /\ answers > 0 => Served \/ (~Stray(mem) /\ answers + Left(mem, want) <= 7)

\* Whatever a conversation has come to, a customer who answers what is asked has an order of
\* something, or a human, within seven answers: a first answer leaves six at most (LeftIs),
\* and each that follows one less (AnswerCloses).
THEOREM BuyersAreServed == Patience >= 7 => (Spec => []BuyerIsServed)
<1> SUFFICES ASSUME Patience >= 7 PROVE Spec => []BuyerIsServed
  OBVIOUS
<1>1. Init => Answering
  BY DEF Init, Answering
<1>2. DialogueInv /\ Answering /\ [Next]_vars => Answering'
  <2> SUFFICES ASSUME DialogueInv, Answering, [Next]_vars PROVE Answering'
    OBVIOUS
  <2>1. CASE Wander
    BY <2>1 DEF Wander, Answering
  <2>2. CASE Buy
    <3>1. CASE Stray(mem)
      BY <2>2, <3>1 DEF Buy, Answering
    <3>2. CASE ~Stray(mem)
      <4>1. Served' \/ (~Stray(mem') /\ Left(mem', want') < Left(mem, want'))
        BY <2>2, <3>2, AnswerCloses
      <4>2. answers' = answers + 1 /\ answers \in Nat /\ ~Served
        BY <2>2, <3>2 DEF Buy, Answering
      <4>3. Left(mem, want') \in 1..7 /\ Left(mem', want') \in 1..7
        BY LeftIs
      <4>4. answers > 0 => want' = want /\ answers + Left(mem, want) <= 7
        BY <2>2, <4>2 DEF Buy, Answering
      <4>5. answers + Left(mem, want') <= 7 \/ answers = 0
        BY <4>2, <4>4
      <4>6. Served' \/ (~Stray(mem') /\ answers' + Left(mem', want') <= 7)
        BY <4>1, <4>2, <4>3, <4>5
      <4> QED BY <4>2, <4>6 DEF Answering
    <3> QED BY <3>1, <3>2
  <2>3. CASE UNCHANGED vars
    BY <2>3 DEF vars, Answering, Served
  <2> QED BY <2>1, <2>2, <2>3 DEF Next
<1>3. Answering => BuyerIsServed
  BY LeftIs, SalesDialogueAssumption DEF Answering, BuyerIsServed, SalesDialogueAssumption
<1> QED BY <1>1, <1>2, <1>3, InvHolds, PTL DEF Spec

=============================================================================
