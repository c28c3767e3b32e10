--------------------------- MODULE SalesDialogue ---------------------------
(***************************************************************************)
(* A conversation with the reply engine, message after message: what the   *)
(* customer agreed to and took back, beside what the engine remembers.     *)
(* The customer says anything at all a few times (Wander), and answers     *)
(* what is asked at any other (Buy).                                       *)
(***************************************************************************)
EXTENDS ReplyEngine

CONSTANTS
    Messages,   \* how the classifier may read a message
    Whims,      \* bound on the messages that answer nothing
    Patience    \* answers in a row a customer gives

Intents == {"browse", "price", "ready", "choice", "recommend", "details", "question",
            "ask_variant", "delivery", "greeting", "passive", "human", "other"}
Slots == {"asks", "adds", "new_inquiry", "correction", "confirmation", "rejection", "fills"}

\* What the classifier reads out of a message.
Readings ==
    [intent : Intents, slot : Slots, names : Products \cup {NoProduct, Category},
     size : Sizes \cup {NoSize},
     typed : BOOLEAN,             \* the size is in this text, not carried over from earlier ones
     mentions : SUBSET Products,  \* whose titles the text contains
     cue : BOOLEAN,               \* a word that takes something away
     photo : Products \cup {NoProduct}, caption : BOOLEAN,
     details : BOOLEAN,           \* name and address for the delivery are there
     covered : BOOLEAN]           \* the question can be answered from the data

ASSUME SalesDialogueAssumption ==
    /\ Messages \subseteq Readings
    /\ \A t \in Messages : t.names = Category => t.intent = "browse" /\ t.size = NoSize
    /\ Stock # {}
    /\ Patience \in Nat

VARIABLES
    mem,      \* conversation_state.contextJson
    out,      \* how the last turn ended
    items,    \* what its order is of
    agreed,   \* variants the customer said yes to
    presumed, \* variants a yes to another question was taken for
    swapped,  \* variants of the cart given up for another product
    want,     \* what a customer who answers is after
    refused,  \* what the last message turned down
    whims,    \* free messages so far
    answers   \* answers since the last of them, or since the memory was last stray

vars == <<mem, out, items, agreed, presumed, swapped, refused, want, whims, answers>>

Init ==
    /\ mem = NoMemory /\ out = "reply" /\ items = {}
    /\ agreed = {} /\ presumed = {} /\ refused = {} /\ swapped = {}
    /\ want = The(Stock)
    /\ whims = 0 /\ answers = 0

\* An order leaves nothing on offer.
Offered(m) == ~m.ordered /\ m.state = "awaiting_confirmation" /\ m.variant # NoVariant

\* Products the conversation is about.
Discussed == {mem.product} \cup {v[1] : v \in mem.avail \cup mem.shown}

\* What a message itself asks for: a product it names or shows, or named before it was
\* asked what to remove, or the size it says of a product under discussion.
Chosen(t) ==
    {v \in Variants : \/ v[1] \in {t.names, t.photo}
                      \/ v[1] = mem.pivot /\ mem.awaiting = "cart_removal"
                      \/ v[2] = t.size /\ v[1] \in Discussed}

\* The variant the engine has asked about, where it is one of the product it shows.
OnOffer == IF Offered(mem) /\ mem.variant[1] = mem.product THEN {mem.variant} ELSE {}

\* A yes is to what is on offer, but under the photo of another product, and to what the
\* message asks for itself.  Who wants something more takes what is on offer, but with a
\* word that takes something away.  Who answers with the details of the delivery means what
\* that message asks for.
Yes(t) ==
    {v \in Variants :
        \/ /\ v \in Chosen(t)
           /\ t.slot = "confirmation" \/ (t.intent = "details" /\ t.details)
        \/ /\ v \in OnOffer
           /\ \/ t.slot = "confirmation" /\ t.photo \in {NoProduct, mem.product}
              \/ t.slot = "adds" /\ ~t.cue}

\* A yes to another question, while nothing is on offer: where it is searched for, what was
\* selected before is put on offer, and the same yes is taken for it (FirstShown).
Presumed(t) ==
    IF /\ t.slot = "confirmation" /\ ~mem.ordered
       /\ (~Offered(mem) /\ t.names # NoProduct) \/ mem.awaiting = "broaden"
    THEN {mem.variant} \cap Variants ELSE {}

\* A no to what is on offer, and to nothing else: no question of another kind is open,
\* and it comes with no question, product or size of its own.
Refusal(t) ==
    IF /\ t.slot = "rejection" /\ t.intent \notin {"human", "question"}
       /\ t.names = NoProduct /\ t.photo = NoProduct /\ t.size = NoSize
       /\ Offered(mem) /\ mem.awaiting = "other"
    THEN {mem.variant} ELSE {}

Removal(t) == IF t.cue THEN InCart(mem, t.mentions) ELSE {}
Removed(t) == {i.variant : i \in Removal(t)}

\* A removal that names one item, and another product to have instead.
Swap(t) ==
    IF /\ t.slot \in {"new_inquiry", "correction", "adds"} /\ t.intent # "human"
       /\ t.names \in Products /\ mem.title \notin {NoProduct, t.names} /\ mem.product # NoProduct
       /\ t.photo = NoProduct /\ Cardinality(Removal(t)) = 1
    THEN Removed(t) ELSE {}

\* What a turn that ends in c leaves: the memory, written back whole, and what the
\* customer has agreed to and given up by then.
Becomes(c, t) ==
    /\ mem' = c.m /\ out' = c.out /\ items' = c.items
    /\ refused' = Refusal(t)
    /\ agreed' = (IF mem.ordered THEN {} ELSE agreed) \cup Yes(t)
    /\ presumed' = (IF mem.ordered THEN {} ELSE presumed) \cup Presumed(t)
    /\ swapped' = ((IF mem.ordered THEN {} ELSE swapped) \cup Swap(t)) \ Yes(t)

Turn(t) == \E c \in {Process(mem, t)} : Becomes(c, t)

\* The customer says anything at all.
Wander ==
    /\ whims < Whims /\ whims' = whims + 1 /\ answers' = 0
    /\ want' = The(Stock)
    /\ \E t \in Messages : Turn(t)

Says(intent, slot, p, s) ==
    [intent |-> intent, slot |-> slot, names |-> p, size |-> s, typed |-> TRUE,
     mentions |-> {p} \cap Products, cue |-> FALSE, photo |-> NoProduct, caption |-> TRUE,
     details |-> intent = "details", covered |-> FALSE]

\* What a customer says who wants v, or whatever is on offer by now.
Answer(v) ==
    CASE mem.state = "confirmed" -> Says("details", "fills", NoProduct, NoSize)
      [] mem.state = "cart_item_added" -> Says("ready", "confirmation", NoProduct, NoSize)
      [] Offered(mem) -> Says("choice", "confirmation", NoProduct, NoSize)
      [] /\ mem.state = "awaiting_confirmation" /\ ~Offered(mem)
         /\ Available(VariantsOf(mem.product)) # {} ->
           Says("choice", "confirmation", NoProduct, The(Available(VariantsOf(mem.product)))[2])
      [] mem.state = "awaiting_variant" /\ Available(mem.avail) # {} ->
           Says("choice", "fills", NoProduct, The(Available(mem.avail))[2])
      [] OTHER -> Says("browse", "new_inquiry", v[1], v[2])

\* Told that the order is placed, with nothing in it, nobody is served: buildOrderPayload
\* has no order then, and none is saved.
Served == out = "handoff" \/ (out = "order" /\ items # {})

\* The answer names a size in which the selected product is in stock (5.5b, 5.5c).
Fits(m) ==
    \/ m.state = "awaiting_confirmation" /\ Available(VariantsOf(m.product)) # {}
    \/ /\ m.state = "awaiting_variant" /\ Available(m.avail) # {}
       /\ <<m.product, The(Available(m.avail))[2]>> \in Stock

\* A variant is selected already while the engine asks for one (the size in a question about
\* the delivery was latched, buildResponse), and the title the product goes by is of none
\* that was shown.  A size that fits is no answer then: 5.5b to 5.5d select where nothing is
\* selected, and without a price (buildVariableMap) no template offers it once more.
Stray(m) ==
    /\ ~m.ordered /\ m.state = "awaiting_variant" /\ m.variant # NoVariant /\ Fits(m)
    /\ m.title \notin {NoProduct, m.product} \cup {v[1] : v \in m.shown}

Buy ==
    /\ ~Served /\ answers < Patience /\ UNCHANGED whims
    /\ answers' = IF Stray(mem) THEN 0 ELSE answers + 1
    /\ want' \in IF answers = 0 THEN Stock ELSE {want}
    /\ Turn(Answer(want'))

Next == Wander \/ Buy
Spec == Init /\ [][Next]_vars
-----------------------------------------------------------------------------
\* Type correctness of the memory; and without a product nothing is on offer.
DialogueTypeOK ==
    /\ mem.state \in {"none", "awaiting_product", "awaiting_variant", "awaiting_confirmation",
                      "cart_item_added", "confirmed"}
    /\ mem.product \in Products \cup {NoProduct}
    /\ mem.title \in Products \cup {NoProduct}
    /\ mem.variant \in Variants \cup {NoVariant}
    /\ mem.avail \subseteq Variants /\ mem.shown \subseteq Variants
    /\ mem.product = NoProduct => mem.avail = {}
    /\ out \in {"reply", "handoff", "order", "ask_removal", "ask_broaden"}

\* The photo of another product, or a search for one, can leave the selected variant in the
\* memory: it is then on offer, and ordered, under the name of that other product.
Mixed(i) == i.product # i.variant[1]

\* However the messages are read, nothing is ordered that the customer did not say yes to
\* since the last order while it was on offer, or name with the yes or with the delivery
\* details (buildOrderPayload takes the cart, which the stages 4.6 and 5.5a fill, or else
\* the one variant that is selected).  Two exceptions are named: a selection that is stale
\* beside the product it goes by (Mixed), which the comments on photos call a bug (1002-1010,
\* 2045-2047) and which is still ordered after a yes under a photo; and one for which a yes to
\* another question was taken (Presumed).
ShippedWasAgreed == \A i \in items : i.variant \in (agreed \cup presumed) \/ Mixed(i)

\* An item that was named as unwanted in a message that asks for another product
\* stays out of every order, whether or not it is the item in focus (stage 4.6c, and the
\* comment at 817-823), unless it is agreed to again, a yes to another question is taken for
\* it (Presumed), or it comes back under the name of another product (Mixed).
SwappedNeverShips == \A i \in items : i.variant \notin (swapped \ presumed) \/ Mixed(i)

\* After a no the same variant is offered again only if it is the only one
\* there is to offer (stage 5.5d takes back what stage 5.5a-rej cleared).
DeclinedReturnsOnlyAlone ==
    Offered(mem) /\ mem.variant \in refused => mem.avail = {mem.variant}

\* Whatever a conversation has come to, a customer who from then on answers what is asked
\* has an order, or a human, within Patience answers: no memory holds a customer in a
\* circle of questions, but one that is stray.
BuyerIsServed == answers = Patience => Served

\* The answer names another product than the selected one (4.6c).
Leaves(m, v) == m.product # NoProduct /\ m.title \notin {NoProduct, v[1]}

\* Answers left to a customer who wants v, and has nothing on offer: the size is taken, or
\* corrected, once the variant selected before is given up, or of a product that is sold
\* out; what to remove is asked, the product is looked for, and picked from what was shown.
ToOffer(m, v) ==
    IF Fits(m) THEN 4
    ELSE IF m.state = "awaiting_variant" /\ Available(m.avail) # {}
    THEN IF Available(VariantsOf(m.product)) = {} THEN 7
         ELSE IF m.variant # NoVariant THEN 6 ELSE 5
    ELSE IF Leaves(m, v) /\ ~m.removalAsked THEN 6
    ELSE IF Leaves(m, v) \/ m.awaiting = "cart_removal" THEN 5
    ELSE IF m.state = "awaiting_product" \/ m.shown = {} THEN 4 ELSE 5

\* Answers left to a customer who wants v: the last three are a yes to what is on offer, a
\* yes to the checkout, and the details of the delivery.  Past an order all starts afresh.
Left(m, v) ==
    CASE m.ordered -> 5
      [] ~m.ordered /\ m.state = "confirmed" -> 1
      [] ~m.ordered /\ m.state = "cart_item_added" -> 2
      [] Offered(m) -> 3
      [] OTHER -> ToOffer(m, v)

\* Every answer to a memory that is not stray is a step to an order of something, or to a
\* human: no question is asked twice, and none leads back (the stages from 4.6c to 10).
AnswersClose ==
    [][Buy /\ ~Stray(mem) =>
         Served' \/ (~Stray(mem') /\ Left(mem', want') < Left(mem, want'))]_vars
=============================================================================
