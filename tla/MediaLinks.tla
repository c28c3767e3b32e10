----------------------------- MODULE MediaLinks -----------------------------
(***************************************************************************)
(* Which product a post or story of the store shows: the table             *)
(* instagram_media_mappings, filled by a job that fetches the account's    *)
(* media, recognises article numbers in captions and asks a model to       *)
(* recognise stories, and edited by the store's staff.                     *)
(*                                                                         *)
(* Everybody reads rows, waits, and writes what they have decided: the     *)
(* staff and the caption pass write the whole row they read, the picture   *)
(* pass the columns of the link.  The saves of the caption pass are not    *)
(* awaited: they reach the table while the job is already in its next pass.*)
(***************************************************************************)
EXTENDS Integers, Sequences, Functions

CONSTANTS
    Media, Stories,
    Feed,               \* the media of the account, posts first
    Products, Variants,
    ProductOf,          \* ProductOf[v]
    Captions,           \* what the captions may name
    Fetches,            \* calls of fetchContent, numbered as they come
    Editors,            \* requests of the staff, numbered as they come
    Patches,            \* what updateMapping may be asked for
    None, Kept,         \* no product or variant; a field a request leaves out
    MaxRows             \* bound on rows ever inserted

ASSUME LinksAssumption ==
    /\ Stories \subseteq Media /\ Feed \in Seq(Media)
    /\ DOMAIN ProductOf = Variants /\ \A v \in Variants : ProductOf[v] \in Products
    /\ Captions \subseteq [Media -> Variants \cup {None}]
    /\ Fetches \subseteq Nat /\ Editors \subseteq Nat /\ MaxRows \in Nat
    /\ Patches \subseteq [product : Products \cup {None, Kept}, variant : Variants \cup {None, Kept},
                           confirmed : BOOLEAN \cup {Kept}]
    /\ None \notin Products \cup Variants \cup Media
    /\ Kept \notin Products \cup Variants \cup BOOLEAN \cup {None}

VARIABLES
    caption, \* caption[m]: the variant whose SKU the caption of m names
    rows,    \* the rows, by media
    ids,     \* the rows inserted so far
    job,     \* job[f]: where fetch f is and what it has read
    saving,  \* the rows the caption pass has sent to be saved
    edit,    \* edit[e]: where request e is, what it asks for and the row it has read
    restarts,
    asked,   \* asked[m]: the product the last request for m that succeeded gave it
    staffed, \* media of a request
    crossed, \* those of a request that was answered while somebody held their row
    vouched, \* those the last such request left confirmed, with no product or a guess
    removed  \* the ids of the rows the staff removed

histVars == <<asked, staffed, crossed, vouched, removed>>
vars == <<caption, rows, ids, job, saving, edit, histVars, restarts>>

(***************************************************************************)
(* Rows                                                                    *)
(***************************************************************************)
Methods == {"none", "bulk_import", "sku_from_caption", "ai_vision_match", "manual"}
Row == [id : 1 .. MaxRows, product : Products \cup {None}, variant : Variants \cup {None},
        method : Methods, confirmed : BOOLEAN, fetched : BOOLEAN]

ASSUME NoneIsNoRow == None \notin Row

Exists(m) == m \in DOMAIN rows
IsRow(m, id) == Exists(m) /\ rows[m].id = id
IsLinked(m) == Exists(m) /\ rows[m].product # None

NewRow(method, product, confirmed, fetched) ==
    [id |-> ids + 1, product |-> product, variant |-> None, method |-> method,
     confirmed |-> confirmed, fetched |-> fetched]

Put(m, row) == rows' = [n \in DOMAIN rows \cup {m} |-> IF n = m THEN row ELSE rows[n]]
Insert(m, row) == ids < MaxRows /\ ids' = ids + 1 /\ Put(m, row)

\* save of an entity: it is inserted again when its row is gone, and refused
\* when the media has another row by now.
CanSave(m, row) == Exists(m) => rows[m].id = row.id
Save(m, row) == Put(m, row) /\ UNCHANGED ids

\* Somebody is to write what it makes of an earlier read of m.
IsHeld(m, editors) ==
    \/ \E s \in saving : s.media = m
    \/ \E f \in Fetches : m \in DOMAIN job[f].read
    \/ \E e \in editors : edit[e].media = m

(***************************************************************************)
(* fetchContent                                                            *)
(***************************************************************************)
NoRows == [m \in {} |-> None]
NoJob(where) == [at |-> where, item |-> 1, new |-> {}, read |-> NoRows, posts |-> {}]
Nothing == [product |-> Kept, variant |-> Kept, confirmed |-> Kept]
NoEdit(where) == [at |-> where, media |-> None, row |-> None, data |-> Nothing]

Init ==
    /\ caption \in Captions
    /\ rows = NoRows /\ ids = 0
    /\ job = [f \in Fetches |-> NoJob("idle")]
    /\ saving = {}
    /\ edit = [e \in Editors |-> NoEdit("idle")]
    /\ restarts = 0
    /\ asked = [m \in Media |-> None]
    /\ staffed = {} /\ crossed = {} /\ vouched = {} /\ removed = {}

Item(f) == Feed[job[f].item]

StartFetch(f) ==
    /\ job[f].at = "idle" /\ \A g \in Fetches : g < f => job[g].at # "idle"
    /\ job' = [job EXCEPT ![f].at = IF Feed = << >> THEN "captions" ELSE "look"]
    /\ UNCHANGED <<rows, ids, saving, edit, histVars, restarts>>

\* upsertMedia: is there a row, for the list of new stories.
LookForMedia(f) ==
    /\ job[f].at = "look"
    /\ job' = [job EXCEPT ![f] = [@ EXCEPT !.at = "upsert",
                  !.new = IF Item(f) \in Stories /\ ~Exists(Item(f))
                          THEN job[f].new \cup {Item(f)} ELSE job[f].new]]
    /\ UNCHANGED <<rows, ids, saving, edit, histVars, restarts>>

\* Mutant: an update of the whole row.
UpsertAnew(f) ==
    /\ job[f].at = "upsert"
    /\ IF Exists(Item(f))
       THEN Put(Item(f), [NewRow("bulk_import", None, FALSE, TRUE) EXCEPT !.id = rows[Item(f)].id])
            /\ UNCHANGED ids
       ELSE Insert(Item(f), NewRow("bulk_import", None, FALSE, TRUE))
    /\ job' = [job EXCEPT ![f] = IF @.item < Len(Feed)
                                 THEN [@ EXCEPT !.at = "look", !.item = job[f].item + 1]
                                 ELSE [@ EXCEPT !.at = "captions", !.item = 1]]
    /\ UNCHANGED <<saving, edit, histVars, restarts>>

\* The row is inserted, or caption and addresses updated.
UpsertMedia(f) ==
    /\ job[f].at = "upsert"
    /\ IF Exists(Item(f))
       THEN rows' = [rows EXCEPT ![Item(f)].fetched = TRUE] /\ UNCHANGED ids
       ELSE Insert(Item(f), NewRow("bulk_import", None, FALSE, TRUE))
    /\ job' = [job EXCEPT ![f] = IF @.item < Len(Feed)
                                 THEN [@ EXCEPT !.at = "look", !.item = job[f].item + 1]
                                 ELSE [@ EXCEPT !.at = "captions", !.item = 1]]
    /\ UNCHANGED <<saving, edit, histVars, restarts>>

\* matchSkusInCaptions: productId: undefined in a find is no condition.
WithCaption == {m \in DOMAIN rows : rows[m].fetched /\ caption[m] # None}

ReadCaptions(f) ==
    /\ job[f].at = "captions"
    /\ job' = [job EXCEPT ![f] = [@ EXCEPT !.at = "skus", !.read = [m \in WithCaption |-> rows[m]]]]
    /\ UNCHANGED <<rows, ids, saving, edit, histVars, restarts>>

\* A request or a statement fails: what is left of the stories is skipped, of
\* any other pass everything that follows.
FetchFails(f) ==
    /\ job[f].at \in {"look", "upsert", "captions", "skus", "stories", "posts"}
    /\ job' = [job EXCEPT ![f] = IF @.at \in {"look", "upsert"} /\ Item(f) \in Stories
                                 THEN [@ EXCEPT !.at = "captions", !.item = 1] ELSE NoJob("over")]
    /\ UNCHANGED <<rows, ids, saving, edit, histVars, restarts>>

\* Mutant: the product is left as it is.
MatchedAlone(m, row) ==
    [row EXCEPT !.variant = caption[m], !.method = "sku_from_caption", !.confirmed = TRUE]

Matched(m, row) ==
    [row EXCEPT !.product = ProductOf[caption[m]], !.variant = caption[m],
                !.method = "sku_from_caption", !.confirmed = TRUE]

\* applySkuMatch, called for every row and not awaited.
MatchCaptions(f) ==
    /\ job[f].at = "skus"
    /\ saving' = saving \cup {[media |-> m, row |-> Matched(m, job[f].read[m])] : m \in DOMAIN job[f].read}
    /\ job' = [job EXCEPT ![f] = IF @.new = {} THEN NoJob("over")
                                 ELSE [@ EXCEPT !.at = "stories", !.read = NoRows]]
    /\ UNCHANGED <<rows, ids, edit, histVars, restarts>>

SaveMatch(s) ==
    /\ s \in saving /\ CanSave(s.media, s.row)
    /\ Save(s.media, s.row)
    /\ saving' = saving \ {s}
    /\ UNCHANGED <<job, edit, histVars, restarts>>

\* Everything in the memory of the process is gone.
Gone ==
    /\ job' = [f \in Fetches |-> NoJob(IF job[f].at = "idle" THEN "idle" ELSE "over")]
    /\ edit' = [e \in Editors |-> NoEdit(IF edit[e].at = "idle" THEN "idle" ELSE "over")]
    /\ saving' = {}
    /\ restarts' = restarts + 1
    /\ UNCHANGED <<rows, ids, histVars>>

\* Nobody handles the rejection of a save that is refused: the process ends.
SaveMatchFails(s) == s \in saving /\ ~CanSave(s.media, s.row) /\ Gone

Unlinked(f) == {m \in job[f].new : Exists(m) /\ rows[m].product = None /\ rows[m].fetched}

\* matchStoriesByVision: the new stories without a product, then the media
\* with one.
ReadStories(f) ==
    /\ job[f].at = "stories"
    /\ job' = [job EXCEPT ![f] = IF Unlinked(f) = {} THEN NoJob("over")
                  ELSE [@ EXCEPT !.at = "posts", !.read = [m \in Unlinked(f) |-> rows[m]]]]
    /\ UNCHANGED <<rows, ids, saving, edit, histVars, restarts>>

ReadPosts(f) ==
    /\ job[f].at = "posts"
    /\ LET linked == {[product |-> rows[m].product, variant |-> rows[m].variant] :
                        m \in {m \in DOMAIN rows : IsLinked(m) /\ rows[m].fetched}}
       IN job' = [job EXCEPT ![f] = IF linked = {} THEN NoJob("over")
                     ELSE [@ EXCEPT !.at = "vision", !.posts = linked]]
    /\ UNCHANGED <<rows, ids, saving, edit, histVars, restarts>>

Seen(f, m) ==
    job' = [job EXCEPT ![f] = IF DOMAIN @.read = {m} THEN NoJob("over")
                              ELSE [@ EXCEPT !.read = Restrict(job[f].read, DOMAIN job[f].read \ {m})]]

\* Mutant: a guess is confirmed.
LinkAsConfirmed(row, post) ==
    [row EXCEPT !.product = post.product, !.variant = post.variant,
                !.method = "ai_vision_match", !.confirmed = TRUE]

LinkAs(row, post) == [row EXCEPT !.product = post.product, !.variant = post.variant,
                                 !.method = "ai_vision_match"]

\* The model recognises the product of a post: an update by id, whatever the
\* row has become.
Recognise(f, m) ==
    /\ job[f].at = "vision" /\ m \in DOMAIN job[f].read
    /\ \E post \in job[f].posts :
          rows' = IF IsRow(m, job[f].read[m].id) THEN [rows EXCEPT ![m] = LinkAs(@, post)] ELSE rows
    /\ Seen(f, m)
    /\ UNCHANGED <<ids, saving, edit, histVars, restarts>>

\* No match, or a request that failed.
RecogniseNothing(f, m) ==
    /\ job[f].at = "vision" /\ m \in DOMAIN job[f].read
    /\ Seen(f, m)
    /\ UNCHANGED <<rows, ids, saving, edit, histVars, restarts>>

(***************************************************************************)
(* The staff, and customers                                                *)
(***************************************************************************)
\* The value of a field after a request that may leave it out.
Given(field, old) == IF field = Kept THEN old ELSE field

\* A request has written what it was asked to: p for m.
Answered(e, m, p) ==
    /\ edit' = [edit EXCEPT ![e] = NoEdit("over")]
    /\ asked' = [asked EXCEPT ![m] = Given(p, asked[m])]
    /\ crossed' = IF IsHeld(m, Editors \ {e}) THEN crossed \cup {m} ELSE crossed
    /\ UNCHANGED <<job, saving, restarts, staffed>>

Vouches(m, row) ==
    vouched' = IF row.confirmed /\ (row.product = None \/ row.method = "ai_vision_match")
               THEN vouched \cup {m} ELSE vouched \ {m}

Fails(e) ==
    /\ edit' = [edit EXCEPT ![e] = NoEdit("over")]
    /\ UNCHANGED <<rows, ids, job, saving, histVars, restarts>>

\* createManualMapping is given a product or none.
Additions == {[Nothing EXCEPT !.product = p] : p \in Products \cup {Kept}}

DataOf(kind) == CASE kind = "patch" -> Patches [] kind = "add" -> Additions [] OTHER -> {Nothing}

\* The find of each kind of request; all but "add" end without a row.
Find(e, kind, m, d) ==
    /\ edit[e].at = "idle" /\ \A c \in Editors : c < e => edit[c].at # "idle"
    /\ kind = "add" \/ Exists(m)
    /\ edit' = [edit EXCEPT ![e] = [at |-> kind, media |-> m, data |-> d,
                                    row |-> IF Exists(m) THEN rows[m] ELSE None]]
    /\ staffed' = staffed \cup {m}
    /\ UNCHANGED <<rows, ids, job, saving, asked, crossed, vouched, removed, restarts>>

\* updateMapping: each field by itself; a product makes the link a manual one, whose
\* variant may be that of the product before.
Patched(row, d) ==
    [row EXCEPT !.product = Given(d.product, row.product), !.variant = Given(d.variant, row.variant),
                !.confirmed = Given(d.confirmed, row.confirmed),
                !.method = IF d.product \in Products THEN "manual" ELSE row.method]

\* createManualMapping of media that has a row.
Added(row, d) ==
    [row EXCEPT !.product = Given(d.product, row.product), !.confirmed = d.product \in Products,
                !.method = "manual"]

Edited(e) ==
    IF edit[e].at = "add" THEN Added(edit[e].row, edit[e].data) ELSE Patched(edit[e].row, edit[e].data)

SaveEdit(e) ==
    /\ edit[e].at \in {"patch", "add"} /\ edit[e].row # None
    /\ LET m == edit[e].media IN
          IF CanSave(m, edit[e].row)
          THEN /\ Save(m, Edited(e)) /\ Answered(e, m, edit[e].data.product)
               /\ Vouches(m, Edited(e)) /\ UNCHANGED removed
          ELSE Fails(e)

\* createManualMapping of media that had none: refused when it has one now.
SaveNew(e) ==
    /\ edit[e].at = "add" /\ edit[e].row = None
    /\ LET m == edit[e].media
           p == edit[e].data.product
       IN IF Exists(m) THEN Fails(e)
          ELSE /\ \E fetched \in BOOLEAN : Insert(m, NewRow("manual", Given(p, None), p # Kept, fetched))
               /\ Answered(e, m, p) /\ UNCHANGED <<vouched, removed>>

\* Mutant: nothing is deleted.
RemoveNothing(e) ==
    /\ edit[e].at = "remove"
    /\ Answered(e, edit[e].media, None)
    /\ removed' = removed \cup {edit[e].row.id}
    /\ UNCHANGED <<rows, ids, vouched>>

\* deleteMapping, by id.
Remove(e) ==
    /\ edit[e].at = "remove"
    /\ LET m == edit[e].media IN
          /\ rows' = IF IsRow(m, edit[e].row.id) THEN Restrict(rows, DOMAIN rows \ {m}) ELSE rows
          /\ Answered(e, m, None)
    /\ removed' = removed \cup {edit[e].row.id}
    /\ UNCHANGED <<ids, vouched>>

\* A customer writes about media that has no row: saveUnlinkedMedia.
SaveUnlinkedMedia(m) ==
    /\ ~Exists(m) /\ Insert(m, NewRow("none", None, FALSE, FALSE))
    /\ UNCHANGED <<job, saving, edit, histVars, restarts>>

Restart == restarts = 0 /\ Gone

(***************************************************************************)
(* Next                                                                    *)
(***************************************************************************)
Fetch(f) ==
    \/ LookForMedia(f) \/ UpsertMedia(f) \/ FetchFails(f)
    \/ ReadCaptions(f) \/ MatchCaptions(f)
    \/ ReadStories(f) \/ ReadPosts(f)
    \/ \E m \in Media : Recognise(f, m) \/ RecogniseNothing(f, m)

Saves == \E s \in saving : SaveMatch(s) \/ SaveMatchFails(s)

Edit(e) ==
    \/ \E kind \in {"patch", "add", "remove"}, m \in Media : \E d \in DataOf(kind) : Find(e, kind, m, d)
    \/ SaveEdit(e) \/ SaveNew(e) \/ Remove(e)

Next ==
    /\ \/ \E f \in Fetches : StartFetch(f) \/ Fetch(f)
       \/ Saves
       \/ \E e \in Editors : Edit(e)
       \/ \E m \in Media : SaveUnlinkedMedia(m)
       \/ Restart
    /\ UNCHANGED caption

Spec == Init /\ [][Next]_vars

(***************************************************************************)
(* Properties                                                              *)
(***************************************************************************)
Places == {"idle", "look", "upsert", "captions", "skus", "stories", "posts", "vision", "over"}
Kinds == {"idle", "patch", "add", "remove", "over"}
Post == [product : Products, variant : Variants \cup {None}]

Tables == UNION {[D -> Row] : D \in SUBSET Media}
Job == [at : Places, item : Nat \ {0}, new : SUBSET Media, read : Tables, posts : SUBSET Post]
Request == [at : Kinds, media : Media \cup {None}, row : Row \cup {None},
            data : Patches \cup Additions \cup {Nothing}]

LinksTypeOK ==
    /\ caption \in Captions
    /\ rows \in Tables /\ ids \in 0 .. MaxRows
    /\ job \in [Fetches -> Job] /\ edit \in [Editors -> Request]
    /\ \A f \in Fetches :
          /\ job[f].at = "idle" => job[f].item = 1
          /\ job[f].at \in {"look", "upsert"} => job[f].item <= Len(Feed)
    /\ saving \subseteq [media : Media, row : Row]
    /\ asked \in [Media -> Products \cup {None}]
    /\ staffed \subseteq Media /\ crossed \subseteq Media /\ vouched \subseteq Media
    /\ removed \subseteq 1 .. MaxRows /\ restarts \in Nat

\* A product the staff gave a post while nobody else was at work on it is lost
\* only to a later fetch, which links the media whose caption names an article
\* anew, linked or not.
StaffLinkLostOnlyToCaption ==
    \A m \in Media : asked[m] # None /\ m \notin crossed =>
        /\ Exists(m)
        /\ \/ rows[m].product = asked[m]
           \/ caption[m] # None /\ rows[m].product = ProductOf[caption[m]]

\* What a model has guessed passes for confirmed only when the staff confirmed the
\* guess, or confirmed the row before it had a product, or when a save of the caption
\* pass, or a request of the staff, came in between: never by fetching alone.
GuessConfirmedOnlyByRace ==
    \A m \in DOMAIN rows : rows[m].confirmed /\ rows[m].method = "ai_vision_match" =>
        m \in crossed \cup vouched \/ caption[m] # None

\* A row points to a variant of another product only after the staff gave it a new
\* product or a new variant, or where it was copied from such a row.
MixedOnlyByStaff ==
    \A m \in DOMAIN rows : rows[m].variant # None /\ ProductOf[rows[m].variant] # rows[m].product =>
        \/ m \in staffed
        \/ rows[m].method = "ai_vision_match" /\ staffed # {}

\* A row the staff removed comes back only when somebody had read it before.
RemovedReturnsOnlyByRace ==
    \A m \in DOMAIN rows : rows[m].id \in removed => m \in crossed

=============================================================================
