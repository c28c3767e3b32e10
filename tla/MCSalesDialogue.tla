-------------------------- MODULE MCSalesDialogue --------------------------
(***************************************************************************)
(* Two products in two sizes, one of the four variants sold out, and the   *)
(* readings of a message that differ in what the engine makes of them.     *)
(***************************************************************************)
EXTENDS SalesDialogue

CONSTANTS p1, p2, M, L

MCProducts == {p1, p2}
MCCarried == [p \in MCProducts |-> {M, L}]
MCInStock == [p \in MCProducts |-> IF p = p1 THEN {M, L} ELSE {M}]

\* A message that says nothing: others are given by what they change in it.
Blank ==
    [intent |-> "other", slot |-> "asks", names |-> NoProduct, size |-> NoSize, typed |-> TRUE,
     mentions |-> {}, cue |-> FALSE, photo |-> NoProduct, caption |-> TRUE, details |-> FALSE,
     covered |-> FALSE]

MCSizes == {M, L}
AnySize == MCSizes \cup {NoSize}
Named == MCProducts
Some == {NoProduct} \cup MCProducts

About(p) == [Blank EXCEPT !.names = p, !.mentions = {p}]
Inquiries ==
    {[About(p) EXCEPT !.intent = "browse", !.slot = "new_inquiry", !.size = s] :
        p \in Named, s \in AnySize}
    \cup {[Blank EXCEPT !.intent = "browse", !.slot = "new_inquiry", !.names = n] :
            n \in {NoProduct, Category}}
    \cup {[About(p) EXCEPT !.intent = i, !.slot = "new_inquiry"] :
            p \in Named, i \in {"price", "recommend"}}
Additions == {[About(p) EXCEPT !.intent = "browse", !.slot = "adds"] : p \in Named}
Corrections ==
    {[About(p) EXCEPT !.intent = i, !.slot = "correction", !.mentions = b, !.cue = cue,
                      !.details = (i = "details")] :
        p \in Named, i \in {"browse", "details"}, b \in {{p1}, {p2}, {p1, p2}}, cue \in BOOLEAN}
    \cup {[Blank EXCEPT !.intent = "choice", !.slot = "correction", !.size = s] : s \in {M, L}}
Removals ==
    {[Blank EXCEPT !.slot = sl, !.cue = TRUE, !.mentions = {p}, !.names = n] :
        p \in Named, n \in Some, sl \in {"correction", "adds"}}
    \cup {[About(p2) EXCEPT !.intent = "human", !.slot = "correction", !.cue = TRUE,
                            !.mentions = {p1}]}
Answers ==
    {[Blank EXCEPT !.intent = "choice", !.slot = "confirmation", !.size = s, !.typed = y] :
        s \in AnySize, y \in BOOLEAN}
    \cup {[Blank EXCEPT !.intent = "browse", !.slot = "confirmation", !.names = n] :
            n \in Named \cup {Category}}
    \cup {[Blank EXCEPT !.slot = "rejection", !.intent = i] : i \in {"other", "question"}}
    \cup {[Blank EXCEPT !.slot = "rejection", !.size = M]}
    \cup {[Blank EXCEPT !.intent = "choice", !.slot = "fills", !.size = s] : s \in {M, L}}
    \cup {[Blank EXCEPT !.intent = "ready", !.slot = sl] : sl \in {"confirmation", "asks"}}
    \cup {[Blank EXCEPT !.intent = "details", !.slot = "fills", !.details = d] : d \in BOOLEAN}
    \cup {[About(p) EXCEPT !.intent = "details", !.slot = "new_inquiry", !.size = s,
                           !.details = TRUE] : p \in Named, s \in {NoSize, M}}
Others ==
    {[Blank EXCEPT !.intent = i] :
        i \in {"recommend", "delivery", "greeting", "passive", "human", "other"}}
    \cup {[Blank EXCEPT !.intent = "question", !.covered = k] : k \in BOOLEAN}
    \cup {[Blank EXCEPT !.intent = i, !.size = M] : i \in {"ask_variant", "delivery"}}
    \cup {[Blank EXCEPT !.intent = "ask_variant"], [About(p1) EXCEPT !.intent = "greeting"]}
Photos ==
    {[Blank EXCEPT !.photo = p, !.caption = FALSE] : p \in Named}
    \cup {[Blank EXCEPT !.photo = p, !.intent = i] : p \in Named, i \in {"price", "browse"}}
    \cup {[Blank EXCEPT !.photo = p, !.intent = "choice", !.slot = "confirmation"] : p \in Named}

MCMessages ==
    Inquiries \cup Additions \cup Corrections \cup Removals \cup Answers \cup Others \cup Photos
=============================================================================
