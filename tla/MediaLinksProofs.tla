--------------------------- MODULE MediaLinksProofs ---------------------------
(***************************************************************************)
(* The table of media and products, for any number of media, fetches,      *)
(* requests and products.                                                  *)
(*                                                                         *)
(* What a row may become depends on copies of it that others still hold:   *)
(* the invariant says of every holder what its copy may differ in          *)
(* (HoldersOK), and of every id whose copies there are (IdsOK, CopiesOK).  *)
(***************************************************************************)
EXTENDS MediaLinks, TLAPS

(***************************************************************************)
(* The inductive invariant                                                 *)
(***************************************************************************)
\* The product of media m is what the last request gave it, or its caption.
IsAsked(m, product) ==
    \/ product = asked[m]
    \/ caption[m] # None /\ product = ProductOf[caption[m]]

\* A request under way has read the row it works on, and its media counts as staffed;
\* the product it has read is the one asked for, unless somebody came in between.
EditOK(e) ==
    IF edit[e].at \in {"idle", "over"} THEN edit[e].media = None
    ELSE /\ edit[e].media \in staffed
         /\ edit[e].at # "add" => edit[e].row \in Row
         /\ edit[e].at = "add" => edit[e].data \in Additions
         /\ edit[e].row \in Row /\ asked[edit[e].media] # None /\ edit[e].media \notin crossed =>
               IsAsked(edit[e].media, edit[e].row.product)

\* What the caption pass has sent follows from the caption alone.
SavingOK(s) ==
    /\ caption[s.media] # None
    /\ s.row.product = ProductOf[caption[s.media]] /\ s.row.variant = caption[s.media]
    /\ s.row.method = "sku_from_caption"

\* The caption pass works on media with a caption.  Media the picture pass works on
\* had no product when it was read: a product or a confirmation since is crossed,
\* unless it is of the caption pass.
JobOK(f) ==
    /\ job[f].at = "skus" => \A m \in DOMAIN job[f].read : caption[m] # None
    /\ job[f].at \in {"posts", "vision"} => \A m \in DOMAIN job[f].read :
          /\ asked[m] # None => m \in crossed
          /\ m \in DOMAIN rows /\ rows[m].confirmed => m \in crossed \cup vouched \/ caption[m] # None

Mixed(row) == row.variant # None /\ ProductOf[row.variant] # row.product

PostsOK == \A f \in Fetches : \A shown \in job[f].posts : Mixed(shown) => staffed # {}

ConfirmedIsLinked ==
    \A m \in DOMAIN rows : rows[m].confirmed /\ rows[m].product = None => m \in vouched

\* The row of media m with this id is in the table, or somebody has read it.
HasCopy(m, id) ==
    \/ m \in DOMAIN rows /\ rows[m].id = id
    \/ \E s \in saving : s.media = m /\ s.row.id = id
    \/ \E f \in Fetches : m \in DOMAIN job[f].read /\ job[f].read[m].id = id
    \/ \E e \in Editors : edit[e].media = m /\ edit[e].row \in Row /\ edit[e].row.id = id

\* An id is given once, and to one media.
IdsOK ==
    /\ \A m \in Media, id \in 1 .. MaxRows : HasCopy(m, id) => id <= ids
    /\ \A m, n \in Media, id \in 1 .. MaxRows : HasCopy(m, id) /\ HasCopy(n, id) => m = n
    /\ \A id \in removed : id <= ids

\* Of a row that was removed there are copies only where somebody held one then.
CopiesOK == \A m \in Media, id \in 1 .. MaxRows : HasCopy(m, id) /\ id \in removed => m \in crossed

HoldersOK ==
    /\ \A e \in Editors : EditOK(e)
    /\ \A s \in saving : SavingOK(s)
    /\ \A f \in Fetches : JobOK(f)

LinksInv ==
    /\ LinksTypeOK /\ HoldersOK
    /\ PostsOK /\ MixedOnlyByStaff
    /\ ConfirmedIsLinked /\ GuessConfirmedOnlyByRace
    /\ StaffLinkLostOnlyToCaption
    /\ IdsOK /\ CopiesOK

LEMMA LinksInitially == Init => LinksInv
<1> SUFFICES ASSUME Init PROVE LinksInv
    OBVIOUS
<1> USE LinksAssumption DEF LinksAssumption, Init, NoRows, NoJob, NoEdit
<1>1. LinksTypeOK
  <2>1. rows \in Tables
    <3>1. rows \in [{} -> Row]
      OBVIOUS
    <3> QED BY <3>1 DEF Tables
  <2>2. NoJob("idle") \in Job /\ NoEdit("idle") \in Request
    BY <2>1 DEF Job, Request, Places, Kinds
  <2>3. 0 \in 0 .. MaxRows
    OBVIOUS
  <2> QED BY <2>1, <2>2, <2>3 DEF LinksTypeOK
<1>2. HoldersOK
  BY DEF HoldersOK, EditOK, JobOK
<1>3. PostsOK /\ MixedOnlyByStaff /\ ConfirmedIsLinked /\ GuessConfirmedOnlyByRace /\ StaffLinkLostOnlyToCaption
  BY DEF PostsOK, MixedOnlyByStaff, ConfirmedIsLinked, GuessConfirmedOnlyByRace, StaffLinkLostOnlyToCaption
<1>4. IdsOK /\ CopiesOK
  <2>1. \A m \in Media, id \in 1 .. MaxRows : ~HasCopy(m, id)
    BY DEF HasCopy
  <2> QED BY <2>1 DEF IdsOK, CopiesOK
<1> QED BY <1>1, <1>2, <1>3, <1>4 DEF LinksInv

(***************************************************************************)
(* Tables, and the steps of a fetch                                        *)
(***************************************************************************)
LEMMA TablesAre ==
    ASSUME NEW t \in Tables
    PROVE  /\ DOMAIN t \subseteq Media /\ \A m \in DOMAIN t : t[m] \in Row
           /\ t \in [DOMAIN t -> Row]
BY DEF Tables

LEMMA IsTable ==
    ASSUME NEW D \in SUBSET Media, NEW t \in [D -> Row]
    PROVE  t \in Tables
BY DEF Tables

\* What a step of fetch f makes of its memory.
FetchMoves(f) ==
    /\ job' \in [Fetches -> Job]
    /\ \A g \in Fetches \ {f} : job'[g] = job[g]
    /\ job'[f].at = "idle" => job'[f].item = 1
    /\ job'[f].at \in {"look", "upsert"} => job'[f].item <= Len(Feed)
    /\ \A m \in DOMAIN job'[f].read :
          \/ m \in DOMAIN job[f].read /\ job'[f].read[m] = job[f].read[m]
          \/ m \in DOMAIN rows /\ job'[f].read[m] = rows[m]
    /\ \A shown \in job'[f].posts :
          \/ shown \in job[f].posts
          \/ \E m \in DOMAIN rows :
                IsLinked(m) /\ shown = [product |-> rows[m].product, variant |-> rows[m].variant]
    /\ job'[f].at = "skus" => \A m \in DOMAIN job'[f].read : caption[m] # None
    /\ job'[f].at \in {"posts", "vision"} =>
          \/ job[f].at \in {"posts", "vision"} /\ DOMAIN job'[f].read \subseteq DOMAIN job[f].read
          \/ /\ UNCHANGED rows
             /\ \A m \in DOMAIN job'[f].read : m \in DOMAIN rows /\ rows[m].product = None

\* A fetch that is over, or has not read anything, remembers nothing.
LEMMA NoJobMoves ==
    ASSUME LinksTypeOK, NEW f \in Fetches, NEW where \in {"idle", "over"},
           job' = [job EXCEPT ![f] = NoJob(where)]
    PROVE  FetchMoves(f)
<1>1. NoRows \in [{} -> Row] /\ DOMAIN NoRows = {}
  BY DEF NoRows
<1>2. NoRows \in Tables
  BY <1>1, IsTable
<1>3. NoJob(where) \in Job
  BY <1>2 DEF NoJob, Job, Places
<1>4. job'[f] = NoJob(where) /\ job' \in [Fetches -> Job] /\ \A g \in Fetches \ {f} : job'[g] = job[g]
  BY <1>3 DEF LinksTypeOK
<1>5. job'[f].at = where /\ job'[f].item = 1 /\ DOMAIN job'[f].read = {} /\ job'[f].posts = {}
  BY <1>1, <1>4 DEF NoJob
<1> QED BY <1>4, <1>5 DEF FetchMoves

LEMMA FetchSteps ==
    ASSUME LinksTypeOK, NEW f \in Fetches, StartFetch(f) \/ Fetch(f)
    PROVE  FetchMoves(f)
<1>1. job[f] \in Job /\ f \in DOMAIN job
  BY DEF LinksTypeOK
<1>2. rows \in Tables /\ DOMAIN rows \subseteq Media /\ \A m \in DOMAIN rows : rows[m] \in Row
  BY TablesAre DEF LinksTypeOK
<1>3. job[f].read \in Tables /\ DOMAIN job[f].read \subseteq Media /\ \A m \in DOMAIN job[f].read : job[f].read[m] \in Row
  BY <1>1, TablesAre DEF Job
<1>4. CASE StartFetch(f)
  <2> DEFINE where == IF Feed = << >> THEN "captions" ELSE "look"
             j == [job[f] EXCEPT !.at = where]
  <2>1. j \in Job /\ j.at = where /\ j.item = job[f].item /\ j.read = job[f].read /\ j.posts = job[f].posts
    BY <1>1 DEF Job, Places
  <2>2. job' = [job EXCEPT ![f] = j]
    BY <1>4 DEF StartFetch
  <2>3. Feed # << >> => 1 <= Len(Feed)
    BY LinksAssumption DEF LinksAssumption
  <2>4. j.at \in {"look", "upsert"} => j.item <= Len(Feed)
    BY <1>4, <2>1, <2>3 DEF StartFetch, LinksTypeOK
  <2> HIDE DEF j, where
  <2>5. where # "idle" /\ where # "skus" /\ where \notin {"posts", "vision"}
    BY DEF where
  <2>6. job'[f] = j /\ job' \in [Fetches -> Job] /\ \A g \in Fetches \ {f} : job'[g] = job[g]
    BY <2>1, <2>2 DEF LinksTypeOK
  <2> QED BY <2>1, <2>4, <2>5, <2>6 DEF FetchMoves
<1>5. CASE LookForMedia(f)
  <2>1. PICK new \in SUBSET Media : job' = [job EXCEPT ![f] = [@ EXCEPT !.at = "upsert", !.new = new]]
    <3>2. job[f].new \in SUBSET Media
      BY <1>1 DEF Job
    <3>3. Item(f) \in Media
      <4>1. job[f].item \in Nat \ {0} /\ job[f].item <= Len(Feed)
        BY <1>1, <1>5 DEF LookForMedia, LinksTypeOK, Job
      <4>2. Feed \in Seq(Media)
        BY LinksAssumption DEF LinksAssumption
      <4> QED BY <4>1, <4>2 DEF Item
    <3>4. CASE Item(f) \in Stories /\ ~Exists(Item(f))
      <4>1. job' = [job EXCEPT ![f] = [@ EXCEPT !.at = "upsert", !.new = job[f].new \cup {Item(f)}]]
        BY <1>1, <1>5, <3>4 DEF LookForMedia, Job
      <4> QED BY <3>2, <3>3, <4>1
    <3>5. CASE ~(Item(f) \in Stories /\ ~Exists(Item(f)))
      <4>1. job' = [job EXCEPT ![f] = [@ EXCEPT !.at = "upsert", !.new = job[f].new]]
        BY <1>1, <1>5, <3>5 DEF LookForMedia, Job
      <4> QED BY <3>2, <4>1
    <3> QED BY <3>4, <3>5
  <2> DEFINE j == [job[f] EXCEPT !.at = "upsert", !.new = new]
  <2>2. j \in Job /\ j.at = "upsert" /\ j.item = job[f].item /\ j.read = job[f].read /\ j.posts = job[f].posts
    BY <1>1 DEF Job, Places
  <2>3. job' = [job EXCEPT ![f] = j]
    BY <2>1
  <2>4. j.item <= Len(Feed)
    BY <1>5, <2>2 DEF LookForMedia, LinksTypeOK
  <2> HIDE DEF j
  <2>5. job'[f] = j /\ job' \in [Fetches -> Job] /\ \A g \in Fetches \ {f} : job'[g] = job[g]
    BY <2>2, <2>3 DEF LinksTypeOK
  <2> QED BY <2>2, <2>4, <2>5 DEF FetchMoves
<1>6. CASE UpsertMedia(f)
  <2>1. CASE job[f].item < Len(Feed)
    <3> DEFINE j == [job[f] EXCEPT !.at = "look", !.item = job[f].item + 1]
    <3>1. job[f].item + 1 \in Nat \ {0} /\ job[f].item + 1 <= Len(Feed)
      BY <1>1, <2>1, LinksAssumption DEF Job, LinksAssumption
    <3>2. j \in Job /\ j.at = "look" /\ j.item = job[f].item + 1 /\ j.read = job[f].read /\ j.posts = job[f].posts
      BY <1>1, <3>1 DEF Job, Places
    <3>3. job' = [job EXCEPT ![f] = j]
      BY <1>1, <1>6, <2>1 DEF UpsertMedia
    <3> HIDE DEF j
    <3>4. job'[f] = j /\ job' \in [Fetches -> Job] /\ \A g \in Fetches \ {f} : job'[g] = job[g]
      BY <3>2, <3>3 DEF LinksTypeOK
    <3> QED BY <3>1, <3>2, <3>4 DEF FetchMoves
  <2>2. CASE ~(job[f].item < Len(Feed))
    <3> DEFINE j == [job[f] EXCEPT !.at = "captions", !.item = 1]
    <3>1. j \in Job /\ j.at = "captions" /\ j.read = job[f].read /\ j.posts = job[f].posts
      <4>1. 1 \in Nat \ {0} /\ "captions" \in Places
        BY DEF Places
      <4> QED BY <1>1, <4>1 DEF Job
    <3>2. job' = [job EXCEPT ![f] = j]
      BY <1>6, <2>2 DEF UpsertMedia
    <3> HIDE DEF j
    <3>3. job'[f] = j /\ job' \in [Fetches -> Job] /\ \A g \in Fetches \ {f} : job'[g] = job[g]
      BY <3>1, <3>2 DEF LinksTypeOK
    <3> QED BY <3>1, <3>3 DEF FetchMoves
  <2> QED BY <2>1, <2>2
<1>7. CASE FetchFails(f)
  <2>1. CASE job' = [job EXCEPT ![f] = NoJob("over")]
    BY <2>1, NoJobMoves
  <2>2. CASE job' = [job EXCEPT ![f] = [@ EXCEPT !.at = "captions", !.item = 1]]
    <3> DEFINE j == [job[f] EXCEPT !.at = "captions", !.item = 1]
    <3>1. j \in Job /\ j.at = "captions" /\ j.read = job[f].read /\ j.posts = job[f].posts
      <4>1. 1 \in Nat \ {0} /\ "captions" \in Places
        BY DEF Places
      <4> QED BY <1>1, <4>1 DEF Job
    <3>2. job' = [job EXCEPT ![f] = j]
      BY <2>2
    <3> HIDE DEF j
    <3>3. job'[f] = j /\ job' \in [Fetches -> Job] /\ \A g \in Fetches \ {f} : job'[g] = job[g]
      BY <3>1, <3>2 DEF LinksTypeOK
    <3> QED BY <3>1, <3>3 DEF FetchMoves
  <2> QED BY <1>7, <2>1, <2>2 DEF FetchFails
<1>8. CASE ReadCaptions(f)
  <2> DEFINE t == [m \in WithCaption |-> rows[m]]
             j == [job[f] EXCEPT !.at = "skus", !.read = t]
  <2>1. WithCaption \subseteq DOMAIN rows /\ \A m \in WithCaption : caption[m] # None
    BY DEF WithCaption
  <2>2. t \in [WithCaption -> Row]
    BY <1>2, <2>1
  <2>3. t \in Tables
    BY <1>2, <2>1, <2>2, IsTable
  <2>4. j \in Job /\ j.at = "skus" /\ j.read = t /\ j.posts = job[f].posts
    BY <1>1, <2>3 DEF Job, Places
  <2>5. job' = [job EXCEPT ![f] = j]
    BY <1>8 DEF ReadCaptions
  <2> HIDE DEF j
  <2>6. job'[f] = j /\ job' \in [Fetches -> Job] /\ \A g \in Fetches \ {f} : job'[g] = job[g]
    BY <2>4, <2>5 DEF LinksTypeOK
  <2>7. DOMAIN t = WithCaption /\ \A m \in WithCaption : t[m] = rows[m]
    OBVIOUS
  <2> HIDE DEF t
  <2> QED BY <2>1, <2>4, <2>6, <2>7 DEF FetchMoves
<1>9. CASE MatchCaptions(f)
  <2>1. CASE job' = [job EXCEPT ![f] = NoJob("over")]
    BY <2>1, NoJobMoves
  <2>2. CASE job' = [job EXCEPT ![f] = [@ EXCEPT !.at = "stories", !.read = NoRows]]
    <3> DEFINE j == [job[f] EXCEPT !.at = "stories", !.read = NoRows]
    <3>1. NoRows \in Tables /\ DOMAIN NoRows = {}
      <4>1. NoRows \in [{} -> Row] /\ DOMAIN NoRows = {}
        BY DEF NoRows
      <4> QED BY <4>1, IsTable
    <3>2. j \in Job /\ j.at = "stories" /\ j.read = NoRows /\ j.posts = job[f].posts
      BY <1>1, <3>1 DEF Job, Places
    <3>3. job' = [job EXCEPT ![f] = j]
      BY <2>2
    <3> HIDE DEF j
    <3>4. job'[f] = j /\ job' \in [Fetches -> Job] /\ \A g \in Fetches \ {f} : job'[g] = job[g]
      BY <3>2, <3>3 DEF LinksTypeOK
    <3> QED BY <3>1, <3>2, <3>4 DEF FetchMoves
  <2> QED BY <1>9, <2>1, <2>2 DEF MatchCaptions
<1>10. CASE ReadStories(f)
  <2> DEFINE t == [m \in Unlinked(f) |-> rows[m]]
             j == [job[f] EXCEPT !.at = "posts", !.read = t]
  <2>1. CASE job' = [job EXCEPT ![f] = NoJob("over")]
    BY <2>1, NoJobMoves
  <2>2. CASE job' = [job EXCEPT ![f] = j]
    <3>1. Unlinked(f) \subseteq DOMAIN rows /\ \A m \in Unlinked(f) : rows[m].product = None
      BY DEF Unlinked, Exists
    <3>2. t \in [Unlinked(f) -> Row]
      BY <1>2, <3>1
    <3>3. t \in Tables
      BY <1>2, <3>1, <3>2, IsTable
    <3>4. j \in Job /\ j.at = "posts" /\ j.read = t /\ j.posts = job[f].posts
      BY <1>1, <3>3 DEF Job, Places
    <3>5. UNCHANGED rows
      BY <1>10 DEF ReadStories
    <3> HIDE DEF j
    <3>6. job'[f] = j /\ job' \in [Fetches -> Job] /\ \A g \in Fetches \ {f} : job'[g] = job[g]
      BY <2>2, <3>4 DEF LinksTypeOK
    <3>7. DOMAIN t = Unlinked(f) /\ \A m \in Unlinked(f) : t[m] = rows[m]
      OBVIOUS
    <3> HIDE DEF t
    <3> QED BY <3>1, <3>4, <3>5, <3>6, <3>7 DEF FetchMoves
  <2> QED BY <1>10, <2>1, <2>2 DEF ReadStories
<1>11. CASE ReadPosts(f)
  <2> DEFINE linked == {[product |-> rows[m].product, variant |-> rows[m].variant] :
                           m \in {m \in DOMAIN rows : IsLinked(m) /\ rows[m].fetched}}
             j == [job[f] EXCEPT !.at = "vision", !.posts = linked]
  <2>1. CASE job' = [job EXCEPT ![f] = NoJob("over")]
    BY <2>1, NoJobMoves
  <2>2. CASE job' = [job EXCEPT ![f] = j]
    <3>1. \A shown \in linked : \E m \in DOMAIN rows :
              IsLinked(m) /\ shown = [product |-> rows[m].product, variant |-> rows[m].variant]
      OBVIOUS
    <3>2. linked \subseteq Post
      BY <1>2 DEF IsLinked, Exists, Post, Row
    <3> HIDE DEF linked
    <3>3. j \in Job /\ j.at = "vision" /\ j.read = job[f].read /\ j.posts = linked
      BY <1>1, <3>2 DEF Job, Places
    <3>4. job[f].at = "posts" 
      BY <1>11 DEF ReadPosts
    <3> HIDE DEF j
    <3>5. job'[f] = j /\ job' \in [Fetches -> Job] /\ \A g \in Fetches \ {f} : job'[g] = job[g]
      BY <2>2, <3>3 DEF LinksTypeOK
    <3> QED BY <3>1, <3>3, <3>4, <3>5 DEF FetchMoves
  <2> QED BY <1>11, <2>1, <2>2 DEF ReadPosts
<1>12. ASSUME NEW m \in Media, Recognise(f, m) \/ RecogniseNothing(f, m)
       PROVE  FetchMoves(f)
  <2> DEFINE rest == DOMAIN job[f].read \ {m}
             t == Restrict(job[f].read, rest)
             j == [job[f] EXCEPT !.read = t]
  <2>1. CASE job' = [job EXCEPT ![f] = NoJob("over")]
    BY <2>1, NoJobMoves
  <2>2. CASE job' = [job EXCEPT ![f] = j]
    <3>1. t \in [rest -> Row]
      BY <1>3 DEF Restrict
    <3>2. t \in Tables
      BY <1>3, <3>1, IsTable
    <3>3. DOMAIN t = rest /\ \A n \in rest : t[n] = job[f].read[n]
      BY DEF Restrict
    <3>4. job[f].at = "vision"
      BY <1>12 DEF Recognise, RecogniseNothing
    <3> HIDE DEF t
    <3>5. j \in Job /\ j.at = "vision" /\ j.read = t /\ j.posts = job[f].posts
      BY <1>1, <3>2, <3>4 DEF Job, Places
    <3> HIDE DEF j
    <3>6. job'[f] = j /\ job' \in [Fetches -> Job] /\ \A g \in Fetches \ {f} : job'[g] = job[g]
      BY <2>2, <3>5 DEF LinksTypeOK
    <3> QED BY <3>3, <3>4, <3>5, <3>6 DEF FetchMoves
  <2> QED BY <1>12, <2>1, <2>2 DEF Recognise, RecogniseNothing, Seen
<1> QED BY <1>4, <1>5, <1>6, <1>7, <1>8, <1>9, <1>10, <1>11, <1>12 DEF Fetch

(***************************************************************************)
(* What the steps do to a row                                              *)
(***************************************************************************)
RowsBecome(m, row) ==
    /\ row \in Row /\ m \in Media
    /\ rows' \in Tables /\ DOMAIN rows' = DOMAIN rows \cup {m}
    /\ rows'[m] = row /\ \A n \in DOMAIN rows \ {m} : rows'[n] = rows[n]

IsNew(m, row) ==
    /\ m \notin DOMAIN rows /\ RowsBecome(m, row)
    /\ row.id = ids + 1 /\ ids' = ids + 1 /\ ids < MaxRows
    /\ row.variant = None

LEMMA PutRow ==
    ASSUME LinksTypeOK, NEW m \in Media, NEW row \in Row, Put(m, row)
    PROVE  RowsBecome(m, row)
<1>1. DOMAIN rows \subseteq Media /\ \A n \in DOMAIN rows : rows[n] \in Row
  BY TablesAre DEF LinksTypeOK
<1>2. rows' \in [DOMAIN rows \cup {m} -> Row]
  BY <1>1 DEF Put
<1>3. rows' \in Tables
  BY <1>1, <1>2, IsTable
<1> QED BY <1>1, <1>2, <1>3 DEF RowsBecome, Put

LEMMA ChangeRow ==
    ASSUME LinksTypeOK, NEW m \in DOMAIN rows, NEW row \in Row, rows' = [rows EXCEPT ![m] = row]
    PROVE  RowsBecome(m, row)
<1>1. DOMAIN rows \subseteq Media /\ rows \in [DOMAIN rows -> Row]
  BY TablesAre DEF LinksTypeOK
<1>2. rows' \in [DOMAIN rows -> Row]
  BY <1>1
<1>3. rows' \in Tables
  BY <1>1, <1>2, IsTable
<1> QED BY <1>1, <1>2, <1>3 DEF RowsBecome

LEMMA InsertRow ==
    ASSUME LinksTypeOK, NEW m \in Media, m \notin DOMAIN rows, NEW method \in Methods,
           NEW product \in Products \cup {None}, NEW confirmed \in BOOLEAN, NEW fetched \in BOOLEAN,
           Insert(m, NewRow(method, product, confirmed, fetched))
    PROVE  IsNew(m, NewRow(method, product, confirmed, fetched))
<1>1. ids + 1 \in 1 .. MaxRows /\ ids < MaxRows /\ ids' = ids + 1
  BY LinksAssumption DEF LinksTypeOK, LinksAssumption, Insert
<1>2. NewRow(method, product, confirmed, fetched) \in Row
  BY <1>1 DEF NewRow, Row
<1>3. RowsBecome(m, NewRow(method, product, confirmed, fetched))
  BY <1>2, PutRow DEF Insert
<1>4. NewRow(method, product, confirmed, fetched).id = ids + 1 /\ NewRow(method, product, confirmed, fetched).variant = None
  BY DEF NewRow
<1> QED BY <1>1, <1>3, <1>4 DEF IsNew

LEMMA UpsertRow ==
    ASSUME LinksTypeOK, NEW f \in Fetches, UpsertMedia(f)
    PROVE  \E m \in Media, row \in Row :
              \/ /\ m \in DOMAIN rows /\ RowsBecome(m, row) /\ UNCHANGED ids
                 /\ row.id = rows[m].id /\ row.product = rows[m].product /\ row.variant = rows[m].variant
                 /\ row.method = rows[m].method /\ row.confirmed = rows[m].confirmed
              \/ IsNew(m, row) /\ row.product = None /\ ~row.confirmed
<1>1. Item(f) \in Media
  <2>1. job[f].item \in Nat \ {0} /\ job[f].item <= Len(Feed)
    BY DEF UpsertMedia, LinksTypeOK, Job
  <2>2. Feed \in Seq(Media)
    BY LinksAssumption DEF LinksAssumption
  <2> QED BY <2>1, <2>2 DEF Item
<1> DEFINE m == Item(f)
<1>2. CASE m \in DOMAIN rows
  <2> DEFINE row == [rows[m] EXCEPT !.fetched = TRUE]
  <2>1. rows[m] \in Row
    BY <1>2, TablesAre DEF LinksTypeOK
  <2>2. /\ row \in Row
        /\ row.id = rows[m].id /\ row.product = rows[m].product /\ row.variant = rows[m].variant
        /\ row.method = rows[m].method /\ row.confirmed = rows[m].confirmed
    BY <2>1 DEF Row
  <2>3. rows' = [rows EXCEPT ![m] = row] /\ UNCHANGED ids
    BY <1>2 DEF UpsertMedia, Exists
  <2>4. RowsBecome(m, row)
    BY <1>2, <2>2, <2>3, ChangeRow
  <2> HIDE DEF row
  <2> QED BY <1>1, <1>2, <2>2, <2>3, <2>4
<1>3. CASE m \notin DOMAIN rows
  <2> DEFINE row == NewRow("bulk_import", None, FALSE, TRUE)
  <2>1. Insert(m, row)
    BY <1>3 DEF UpsertMedia, Exists
  <2>2. IsNew(m, row)
    BY <1>1, <1>3, <2>1, InsertRow DEF Methods
  <2>3. row.product = None /\ ~row.confirmed /\ row \in Row
    BY <2>2 DEF NewRow, IsNew, RowsBecome
  <2> HIDE DEF row
  <2> QED BY <1>1, <2>2, <2>3
<1> QED BY <1>2, <1>3

LEMMA RecogniseRow ==
    ASSUME LinksTypeOK, NEW f \in Fetches, NEW m \in Media, Recognise(f, m)
    PROVE  \/ UNCHANGED rows
           \/ \E row \in Row, shown \in job[f].posts :
                /\ m \in DOMAIN rows /\ m \in DOMAIN job[f].read
                /\ RowsBecome(m, row) /\ row.id = rows[m].id /\ row.confirmed = rows[m].confirmed
                /\ row.product = shown.product /\ row.variant = shown.variant /\ row.method = "ai_vision_match"
<1>1. PICK shown \in job[f].posts :
          rows' = IF IsRow(m, job[f].read[m].id) THEN [rows EXCEPT ![m] = LinkAs(@, shown)] ELSE rows
  BY DEF Recognise
<1>2. CASE ~IsRow(m, job[f].read[m].id)
  BY <1>1, <1>2
<1>3. CASE IsRow(m, job[f].read[m].id)
  <2> DEFINE row == LinkAs(rows[m], shown)
  <2>1. m \in DOMAIN rows /\ m \in DOMAIN job[f].read /\ shown \in Post
    BY <1>3 DEF IsRow, Exists, Recognise, LinksTypeOK, Job
  <2>2. rows[m] \in Row
    BY <2>1, TablesAre DEF LinksTypeOK
  <2>3. shown.product \in Products \cup {None} /\ shown.variant \in Variants \cup {None}
    BY <2>1 DEF Post
  <2>4. /\ row \in Row /\ row.id = rows[m].id /\ row.confirmed = rows[m].confirmed
        /\ row.product = shown.product /\ row.variant = shown.variant /\ row.method = "ai_vision_match"
    <3>1. "ai_vision_match" \in Methods
      BY DEF Methods
    <3> QED BY <2>2, <2>3, <3>1 DEF Row, LinkAs
  <2>5. rows' = [rows EXCEPT ![m] = row]
    BY <1>1, <1>3
  <2>6. RowsBecome(m, row)
    BY <2>1, <2>4, <2>5, ChangeRow
  <2> HIDE DEF row
  <2> QED BY <2>1, <2>4, <2>6
<1> QED BY <1>2, <1>3

\* What a request may be given.
LEMMA DataAre ==
    ASSUME NEW d \in Patches \cup Additions \cup {Nothing}
    PROVE  /\ d.product \in (Products \cup {None}) \cup {Kept}
           /\ d.variant \in (Variants \cup {None}) \cup {Kept}
           /\ d.confirmed \in BOOLEAN \cup {Kept}
<1>1. CASE d \in Patches
  BY <1>1, LinksAssumption DEF LinksAssumption
<1>2. CASE d \in Additions
  BY <1>2 DEF Additions, Nothing
<1>3. CASE d = Nothing
  BY <1>3 DEF Nothing
<1> QED BY <1>1, <1>2, <1>3

LEMMA AdditionsAre ==
    ASSUME NEW d \in Additions
    PROVE  d.product \in Products \cup {Kept}
BY DEF Additions, Nothing

LEMMA GivenIn ==
    ASSUME NEW S, NEW field \in S \cup {Kept}, NEW old \in S
    PROVE  Given(field, old) \in S
BY DEF Given

\* A request that has succeeded.
EditAnswered(e, m, product) ==
    /\ m = edit[e].media /\ m \in Media
    /\ edit[e].at \in {"patch", "add", "remove"}
    /\ Answered(e, m, product)

LEMMA EditedIsRow ==
    ASSUME LinksTypeOK, NEW e \in Editors, edit[e].row \in Row
    PROVE  /\ Edited(e) \in Row /\ Edited(e).id = edit[e].row.id
           /\ Edited(e).product = Given(edit[e].data.product, edit[e].row.product)
<1> DEFINE old == edit[e].row
           d == edit[e].data
           product == Given(d.product, old.product)
           variant == Given(d.variant, old.variant)
           confirmed == Given(d.confirmed, old.confirmed)
           method == IF d.product \in Products THEN "manual" ELSE old.method
<1>1. d \in Patches \cup Additions \cup {Nothing}
  BY DEF LinksTypeOK, Request
<1>2. /\ old.product \in Products \cup {None} /\ old.variant \in Variants \cup {None}
      /\ old.confirmed \in BOOLEAN /\ old.method \in Methods
  BY DEF Row
<1>3. /\ product \in Products \cup {None} /\ variant \in Variants \cup {None}
      /\ confirmed \in BOOLEAN
  BY <1>1, <1>2, DataAre, GivenIn
<1>4. method \in Methods /\ "manual" \in Methods
  BY <1>2 DEF Methods
<1>5. CASE edit[e].at = "add"
  <2>1. Edited(e) = [old EXCEPT !.product = product, !.confirmed = d.product \in Products, !.method = "manual"]
    BY <1>5 DEF Edited, Added
  <2>2. (d.product \in Products) \in BOOLEAN
    OBVIOUS
  <2> HIDE DEF product
  <2>3. Edited(e) \in Row /\ Edited(e).id = old.id /\ Edited(e).product = product
    BY <1>3, <1>4, <2>1, <2>2 DEF Row
  <2> QED BY <2>3 DEF product
<1>6. CASE edit[e].at # "add"
  <2>1. Edited(e) = [old EXCEPT !.product = product, !.variant = variant, !.confirmed = confirmed,
                                !.method = method]
    BY <1>6 DEF Edited, Patched
  <2> HIDE DEF product, variant, confirmed, method
  <2>2. Edited(e) \in Row /\ Edited(e).id = old.id /\ Edited(e).product = product
    BY <1>3, <1>4, <2>1 DEF Row
  <2> QED BY <2>2 DEF product
<1> QED BY <1>5, <1>6

\* A request has written row for its media m.  A row it leaves confirmed with no
\* product or with a guess is vouched for, and a product asked for before is there.
Written(e, m, row) ==
    /\ EditAnswered(e, m, edit[e].data.product) /\ RowsBecome(m, row) /\ UNCHANGED removed
    /\ vouched' \subseteq vouched \cup {m} /\ vouched \subseteq vouched' \cup {m}
    /\ row.confirmed /\ (row.product = None \/ row.method = "ai_vision_match") => m \in vouched'
    /\ asked'[m] # None /\ m \notin crossed =>
          row.product = asked'[m] \/ (caption[m] # None /\ row.product = ProductOf[caption[m]])

LEMMA SaveEditRow ==
    ASSUME LinksTypeOK, NEW e \in Editors, EditOK(e), SaveEdit(e)
    PROVE  \/ Fails(e)
           \/ \E m \in Media, row \in Row :
                /\ Written(e, m, row) /\ UNCHANGED ids
                /\ edit[e].row \in Row /\ row.id = edit[e].row.id
<1> DEFINE m == edit[e].media
           old == edit[e].row
           p == edit[e].data.product
           row == Edited(e)
<1>1. edit[e] \in Request /\ edit[e].at \in {"patch", "add"} /\ old \in Row
  BY DEF LinksTypeOK, SaveEdit, Request
<1>2. m \in Media
  BY <1>1 DEF EditOK, LinksTypeOK
<1>3. CASE ~CanSave(m, old)
  BY <1>3 DEF SaveEdit
<1>4. CASE CanSave(m, old)
  <2>1. Save(m, row) /\ Answered(e, m, p) /\ Vouches(m, row) /\ UNCHANGED removed
    BY <1>4 DEF SaveEdit
  <2>2. row \in Row /\ row.id = old.id /\ row.product = Given(p, old.product)
    BY <1>1, EditedIsRow
  <2> HIDE DEF row
  <2>3. RowsBecome(m, row) /\ UNCHANGED ids
    BY <1>2, <2>1, <2>2, PutRow DEF Save
  <2>4. EditAnswered(e, m, p)
    BY <1>1, <1>2, <2>1 DEF EditAnswered
  <2>5. /\ vouched' \subseteq vouched \cup {m} /\ vouched \subseteq vouched' \cup {m}
        /\ row.confirmed /\ (row.product = None \/ row.method = "ai_vision_match") => m \in vouched'
    BY <2>1 DEF Vouches
  <2>6. asked'[m] = Given(p, asked[m])
    BY <1>2, <2>1 DEF Answered, LinksTypeOK
  <2>7. ASSUME asked'[m] # None, m \notin crossed
        PROVE  row.product = asked'[m] \/ (caption[m] # None /\ row.product = ProductOf[caption[m]])
    <3>1. CASE p = Kept
      BY <1>1, <2>2, <2>6, <2>7, <3>1 DEF Given, EditOK, IsAsked
    <3>2. CASE p # Kept
      BY <2>2, <2>6, <3>2 DEF Given
    <3> QED BY <3>1, <3>2
  <2>8. Written(e, m, row)
    BY <2>1, <2>3, <2>4, <2>5, <2>7 DEF Written
  <2> QED BY <1>1, <1>2, <2>2, <2>3, <2>8
<1> QED BY <1>3, <1>4

LEMMA SaveNewRow ==
    ASSUME LinksTypeOK, StaffLinkLostOnlyToCaption, NEW e \in Editors, EditOK(e), SaveNew(e)
    PROVE  \/ Fails(e)
           \/ \E m \in Media, row \in Row : Written(e, m, row) /\ IsNew(m, row)
<1> DEFINE m == edit[e].media
           p == edit[e].data.product
<1>1. edit[e] \in Request /\ edit[e].at = "add" /\ edit[e].data \in Additions
  BY DEF LinksTypeOK, SaveNew, EditOK
<1>2. m \in Media /\ p \in Products \cup {Kept}
  BY <1>1, AdditionsAre DEF EditOK, LinksTypeOK
<1>3. CASE Exists(m)
  BY <1>3 DEF SaveNew
<1>4. CASE ~Exists(m)
  <2>1. PICK fetched \in BOOLEAN : Insert(m, NewRow("manual", Given(p, None), p # Kept, fetched))
    BY <1>4 DEF SaveNew
  <2>2. Given(p, None) \in Products \cup {None} /\ (p # Kept) \in BOOLEAN
    BY <1>2 DEF Given
  <2> DEFINE row == NewRow("manual", Given(p, None), p # Kept, fetched)
  <2>3. IsNew(m, row)
    BY <1>2, <1>4, <2>1, <2>2, InsertRow DEF Methods, Exists
  <2>4. /\ row.product = Given(p, None) /\ row.method = "manual" /\ row \in Row
        /\ row.confirmed => p # Kept
    BY <2>3 DEF NewRow, IsNew, RowsBecome
  <2>5. EditAnswered(e, m, p) /\ UNCHANGED <<vouched, removed>>
    BY <1>1, <1>2, <1>4 DEF SaveNew, EditAnswered
  <2> HIDE DEF row
  <2>6. ~(row.confirmed /\ (row.product = None \/ row.method = "ai_vision_match"))
    <3>1. p # Kept => p # None
      BY <1>2, LinksAssumption DEF LinksAssumption
    <3> QED BY <2>4, <3>1 DEF Given
  <2>7. asked'[m] = Given(p, asked[m])
    BY <1>2, <2>5 DEF EditAnswered, Answered, LinksTypeOK
  <2>8. ASSUME asked'[m] # None, m \notin crossed
        PROVE  row.product = asked'[m]
    <3>1. CASE p = Kept
      BY <1>2, <1>4, <2>7, <2>8, <3>1 DEF Given, StaffLinkLostOnlyToCaption
    <3>2. CASE p # Kept
      BY <2>4, <2>7, <3>2 DEF Given
    <3> QED BY <3>1, <3>2
  <2>9. Written(e, m, row)
    BY <2>3, <2>5, <2>6, <2>8 DEF Written, IsNew
  <2> QED BY <1>2, <2>3, <2>4, <2>9
<1> QED BY <1>3, <1>4

LEMMA UnlinkedRow ==
    ASSUME LinksTypeOK, NEW m \in Media, SaveUnlinkedMedia(m)
    PROVE  \E row \in Row : IsNew(m, row) /\ row.product = None /\ ~row.confirmed
<1> DEFINE row == NewRow("none", None, FALSE, FALSE)
<1>1. IsNew(m, row)
  BY InsertRow DEF SaveUnlinkedMedia, Methods, Exists
<1>2. row.product = None /\ ~row.confirmed /\ row \in Row
  BY <1>1 DEF NewRow, IsNew, RowsBecome
<1> HIDE DEF row
<1> QED BY <1>1, <1>2

(***************************************************************************)
(* The steps of the system, by what they touch                             *)
(***************************************************************************)
\* A request is over: its holder is gone.
LEMMA EditOver ==
    ASSUME LinksTypeOK, NEW e \in Editors, edit' = [edit EXCEPT ![e] = NoEdit("over")]
    PROVE  /\ edit' \in [Editors -> Request]
           /\ edit'[e].at = "over" /\ edit'[e].media = None
           /\ \A d \in Editors \ {e} : edit'[d] = edit[d]
<1>1. NoEdit("over") \in Request
  BY DEF NoEdit, Request, Kinds
<1> QED BY <1>1 DEF NoEdit, LinksTypeOK

LEMMA GoneMoves ==
    ASSUME LinksTypeOK, Gone
    PROVE  /\ job' \in [Fetches -> Job] /\ edit' \in [Editors -> Request]
           /\ \A f \in Fetches : /\ job'[f].at \in {"idle", "over"} /\ job'[f].item = 1
                                 /\ DOMAIN job'[f].read = {} /\ job'[f].posts = {}
           /\ \A e \in Editors : edit'[e].at \in {"idle", "over"} /\ edit'[e].media = None
<1>1. NoRows \in [{} -> Row] /\ DOMAIN NoRows = {}
  BY DEF NoRows
<1>2. NoRows \in Tables
  BY <1>1, IsTable
<1>3. \A where \in {"idle", "over"} : NoJob(where) \in Job /\ NoEdit(where) \in Request
  BY <1>2 DEF NoJob, Job, Places, NoEdit, Request, Kinds
<1>4. \A f \in Fetches : \E where \in {"idle", "over"} : job'[f] = NoJob(where)
  BY DEF Gone
<1>5. \A e \in Editors : \E where \in {"idle", "over"} : edit'[e] = NoEdit(where)
  BY DEF Gone
<1>6. job' \in [Fetches -> Job] /\ edit' \in [Editors -> Request]
  BY <1>3 DEF Gone
<1> QED BY <1>1, <1>4, <1>5, <1>6 DEF NoJob, NoEdit

\* A row of media m changed, by somebody who holds nothing, or is new.
Changed(m, row) ==
    /\ m \in DOMAIN rows /\ RowsBecome(m, row) /\ UNCHANGED ids /\ row.id = rows[m].id
Quietly == UNCHANGED <<saving, edit, histVars>>

FetchEffect(f) ==
    /\ FetchMoves(f) /\ UNCHANGED <<edit, histVars>>
    /\ \/ UNCHANGED <<rows, ids, saving>>
       \/ MatchCaptions(f) /\ UNCHANGED <<rows, ids>>
       \/ /\ UNCHANGED saving
          /\ \E m \in Media, row \in Row :
                \/ /\ Changed(m, row) /\ row.product = rows[m].product /\ row.variant = rows[m].variant
                   /\ row.method = rows[m].method /\ row.confirmed = rows[m].confirmed
                \/ IsNew(m, row) /\ row.product = None /\ ~row.confirmed
                \/ \E shown \in job[f].posts :
                      /\ Changed(m, row) /\ job[f].at = "vision" /\ m \in DOMAIN job[f].read
                      /\ row.product = shown.product /\ row.variant = shown.variant
                      /\ row.method = "ai_vision_match" /\ row.confirmed = rows[m].confirmed

LEMMA FetchEffects ==
    ASSUME LinksTypeOK, NEW f \in Fetches, StartFetch(f) \/ Fetch(f)
    PROVE  FetchEffect(f)
<1>1. FetchMoves(f)
  BY FetchSteps
<1>2. CASE UpsertMedia(f)
  <2>1. UNCHANGED <<saving, edit, histVars>>
    BY <1>2 DEF UpsertMedia
  <2> QED BY <1>1, <1>2, <2>1, UpsertRow DEF FetchEffect, Changed
<1>3. ASSUME NEW m \in Media, Recognise(f, m)
      PROVE  FetchEffect(f)
  <2>1. UNCHANGED <<ids, saving, edit, histVars>> /\ job[f].at = "vision"
    BY <1>3 DEF Recognise
  <2> QED BY <1>1, <1>3, <2>1, RecogniseRow DEF FetchEffect, Changed
<1>4. CASE MatchCaptions(f)
  BY <1>1, <1>4 DEF FetchEffect, MatchCaptions
<1>5. CASE StartFetch(f) \/ LookForMedia(f) \/ FetchFails(f) \/ ReadCaptions(f) \/ ReadStories(f) \/ ReadPosts(f)
           \/ \E m \in Media : RecogniseNothing(f, m)
  BY <1>1, <1>5 DEF FetchEffect, StartFetch, LookForMedia, FetchFails, ReadCaptions, ReadStories, ReadPosts, RecogniseNothing
<1> QED BY <1>2, <1>3, <1>4, <1>5 DEF Fetch

\* What the caption pass sends.
LEMMA MatchesSent ==
    ASSUME LinksTypeOK, NEW f \in Fetches, JobOK(f), MatchCaptions(f), NEW s \in saving'
    PROVE  \/ s \in saving
           \/ /\ s.media \in DOMAIN job[f].read /\ s.row.id = job[f].read[s.media].id
              /\ s \in [media : Media, row : Row] /\ SavingOK(s)
<1>1. ASSUME NEW m \in DOMAIN job[f].read, s = [media |-> m, row |-> Matched(m, job[f].read[m])]
      PROVE  /\ s.media \in DOMAIN job[f].read /\ s.row.id = job[f].read[s.media].id
             /\ s \in [media : Media, row : Row] /\ SavingOK(s)
  <2>1. m \in Media /\ job[f].read[m] \in Row
    <3>1. job[f].read \in Tables
      BY DEF LinksTypeOK, Job
    <3> QED BY <3>1, TablesAre
  <2>2. caption[m] # None /\ caption[m] \in Variants
    <3>1. caption[m] # None
      BY DEF JobOK, MatchCaptions
    <3> QED BY <2>1, <3>1, LinksAssumption DEF LinksTypeOK, LinksAssumption
  <2>3. ProductOf[caption[m]] \in Products /\ "sku_from_caption" \in Methods
    BY <2>2, LinksAssumption DEF LinksAssumption, Methods
  <2>4. /\ Matched(m, job[f].read[m]) \in Row /\ Matched(m, job[f].read[m]).id = job[f].read[m].id
        /\ Matched(m, job[f].read[m]).product = ProductOf[caption[m]]
        /\ Matched(m, job[f].read[m]).variant = caption[m]
        /\ Matched(m, job[f].read[m]).method = "sku_from_caption"
    BY <2>1, <2>2, <2>3 DEF Matched, Row
  <2>5. s.media = m /\ s.row = Matched(m, job[f].read[m])
    BY <1>1
  <2> QED BY <1>1, <2>1, <2>2, <2>4, <2>5 DEF SavingOK
<1> QED BY <1>1 DEF MatchCaptions

LEMMA NewId ==
    ASSUME LinksTypeOK, NEW m, NEW row, IsNew(m, row)
    PROVE  ids' \in 0 .. MaxRows /\ RowsBecome(m, row)
<1>1. ids \in 0 .. MaxRows /\ ids' = ids + 1 /\ ids < MaxRows /\ MaxRows \in Nat
  BY LinksAssumption DEF LinksAssumption, IsNew, LinksTypeOK
<1>2. ids' \in 0 .. MaxRows
  BY ONLY <1>1
<1> QED BY <1>2 DEF IsNew

LEMMA LinksTypesKept ==
    ASSUME LinksInv, [Next]_vars
    PROVE  LinksTypeOK'
<1>0. LinksTypeOK /\ HoldersOK
  BY DEF LinksInv
<1> USE <1>0 DEF HoldersOK
<1>1. ASSUME NEW f \in Fetches, StartFetch(f) \/ Fetch(f), UNCHANGED caption
      PROVE  LinksTypeOK'
  <2>1. FetchEffect(f)
    BY <1>1, FetchEffects
  <2>2. rows' \in Tables /\ ids' \in 0 .. MaxRows
    <3>1. CASE UNCHANGED <<rows, ids>>
      BY <3>1 DEF LinksTypeOK
    <3>2. ASSUME NEW m \in Media, NEW row \in Row, Changed(m, row) \/ IsNew(m, row)
          PROVE  rows' \in Tables /\ ids' \in 0 .. MaxRows
      <4>1. CASE Changed(m, row)
        BY <4>1 DEF Changed, RowsBecome, LinksTypeOK
      <4>2. CASE IsNew(m, row)
        BY <4>2, NewId DEF RowsBecome
      <4> QED BY <3>2, <4>1, <4>2
    <3> QED BY <2>1, <3>1, <3>2 DEF FetchEffect
  <2>3. saving' \subseteq [media : Media, row : Row]
    BY <2>1, MatchesSent DEF FetchEffect, LinksTypeOK
  <2>4. restarts' = restarts
    BY <1>1 DEF StartFetch, Fetch, LookForMedia, UpsertMedia, FetchFails, ReadCaptions, MatchCaptions, ReadStories,
                ReadPosts, Recognise, RecogniseNothing
  <2>5. /\ job' \in [Fetches -> Job] /\ edit' \in [Editors -> Request]
        /\ \A g \in Fetches :
              /\ job'[g].at = "idle" => job'[g].item = 1
              /\ job'[g].at \in {"look", "upsert"} => job'[g].item <= Len(Feed)
    BY <2>1 DEF FetchEffect, FetchMoves, LinksTypeOK
  <2>6. UNCHANGED histVars
    BY <2>1 DEF FetchEffect
  <2> QED BY <1>1, <2>2, <2>3, <2>4, <2>5, <2>6 DEF LinksTypeOK, histVars
<1>2. ASSUME NEW s \in saving, SaveMatch(s), UNCHANGED caption
      PROVE  LinksTypeOK'
  <2>1. s.media \in Media /\ s.row \in Row
    BY DEF LinksTypeOK
  <2>2. RowsBecome(s.media, s.row)
    BY <1>2, <2>1, PutRow DEF SaveMatch, Save
  <2> QED BY <1>2, <2>2 DEF SaveMatch, Save, RowsBecome, LinksTypeOK, histVars
<1>3. ASSUME Gone, UNCHANGED caption
      PROVE  LinksTypeOK'
  BY <1>3, GoneMoves DEF Gone, LinksTypeOK, histVars
<1>4. ASSUME NEW e \in Editors, NEW kind \in {"patch", "add", "remove"}, NEW m \in Media,
             NEW d \in DataOf(kind), Find(e, kind, m, d), UNCHANGED caption
      PROVE  LinksTypeOK'
  <2>1. (IF Exists(m) THEN rows[m] ELSE None) \in Row \cup {None}
    BY TablesAre DEF LinksTypeOK, Exists
  <2> DEFINE row == IF Exists(m) THEN rows[m] ELSE None
  <2> HIDE DEF row
  <2>2. [at |-> kind, media |-> m, data |-> d, row |-> row] \in Request
    BY <2>1 DEF Request, Kinds, DataOf, row
  <2>3. edit' \in [Editors -> Request]
    BY <1>4, <2>2 DEF Find, LinksTypeOK, row
  <2> QED BY <1>4, <2>3 DEF Find, LinksTypeOK
<1>5. ASSUME NEW e \in Editors, Fails(e), UNCHANGED caption
      PROVE  LinksTypeOK'
  BY <1>5, EditOver DEF Fails, LinksTypeOK, histVars
<1>6. ASSUME NEW e \in Editors, SaveEdit(e) \/ SaveNew(e), ~Fails(e), UNCHANGED caption
      PROVE  LinksTypeOK'
  <2>1. PICK m \in Media, row \in Row : Written(e, m, row) /\ ids' \in 0 .. MaxRows
    <3>1. CASE SaveEdit(e)
      BY <1>6, <3>1, SaveEditRow DEF LinksTypeOK
    <3>2. CASE SaveNew(e)
      BY <1>6, <3>2, SaveNewRow, NewId DEF LinksInv
    <3> QED BY <1>6, <3>1, <3>2
  <2>2. Given(edit[e].data.product, asked[m]) \in Products \cup {None}
    <3>1. edit[e].data \in Patches \cup Additions \cup {Nothing} /\ asked[m] \in Products \cup {None}
      BY DEF LinksTypeOK, Request
    <3> QED BY <3>1, DataAre, GivenIn
  <2>3. /\ edit' \in [Editors -> Request]
        /\ asked' \in [Media -> Products \cup {None}]
        /\ crossed' \subseteq Media
        /\ UNCHANGED <<job, saving, restarts, staffed>>
    BY <2>1, <2>2, EditOver DEF Written, EditAnswered, Answered, LinksTypeOK
  <2>4. vouched' \subseteq Media /\ UNCHANGED removed /\ rows' \in Tables
    BY <2>1 DEF Written, RowsBecome, LinksTypeOK
  <2> QED BY <1>6, <2>1, <2>3, <2>4 DEF LinksTypeOK
<1>7. ASSUME NEW e \in Editors, Remove(e), UNCHANGED caption
      PROVE  LinksTypeOK'
  <2>1. edit[e].media \in Media /\ edit[e].row \in Row
    BY <1>7 DEF Remove, EditOK, LinksTypeOK
  <2>2. edit[e].row.id \in 1 .. MaxRows
    BY <2>1 DEF Row
  <2>5. Given(None, asked[edit[e].media]) = None
    BY LinksAssumption DEF Given, LinksAssumption
  <2>3. rows' \in Tables
    <3>1. rows \in [DOMAIN rows -> Row] /\ DOMAIN rows \subseteq Media
      BY TablesAre DEF LinksTypeOK
    <3> DEFINE D == DOMAIN rows \ {edit[e].media}
    <3>2. Restrict(rows, D) \in [D -> Row]
      BY <3>1 DEF Restrict
    <3>3. Restrict(rows, D) \in Tables
      BY <3>1, <3>2, IsTable
    <3> QED BY <1>7, <3>3 DEF Remove, LinksTypeOK
  <2>4. /\ edit' \in [Editors -> Request]
        /\ asked' \in [Media -> Products \cup {None}]
        /\ crossed' \subseteq Media
        /\ UNCHANGED <<job, saving, restarts, staffed, vouched>>
    BY <1>7, <2>1, <2>5, EditOver DEF Remove, Answered, LinksTypeOK
  <2> QED BY <1>7, <2>2, <2>3, <2>4 DEF Remove, LinksTypeOK
<1>8. ASSUME NEW m \in Media, SaveUnlinkedMedia(m), UNCHANGED caption
      PROVE  LinksTypeOK'
  <2>1. rows' \in Tables /\ ids' \in 0 .. MaxRows
    BY <1>8, UnlinkedRow, NewId DEF RowsBecome
  <2> QED BY <1>8, <2>1 DEF SaveUnlinkedMedia, LinksTypeOK, histVars
<1>9. CASE UNCHANGED vars
  BY <1>9 DEF vars, histVars, LinksTypeOK
<1> QED BY <1>1, <1>2, <1>3, <1>4, <1>5, <1>6, <1>7, <1>8, <1>9 DEF Next, Saves, SaveMatchFails, Edit, Restart

(***************************************************************************)
(* What a row, a copy and a post may be: preserved by each kind of step    *)
(***************************************************************************)
RowsOK == PostsOK /\ MixedOnlyByStaff /\ ConfirmedIsLinked /\ GuessConfirmedOnlyByRace /\ StaffLinkLostOnlyToCaption

\* What a product of the table or of a post is.
LEMMA Linked ==
    ASSUME LinksTypeOK
    PROVE  /\ \A v \in Variants : ProductOf[v] # None
           /\ \A f \in Fetches : \A shown \in job[f].posts : shown.product # None
           /\ \A m \in Media : caption[m] # None => ProductOf[caption[m]] # None
<1> USE LinksAssumption DEF LinksAssumption
<1>1. \A v \in Variants : ProductOf[v] # None
  OBVIOUS
<1>2. \A f \in Fetches : \A shown \in job[f].posts : shown.product # None
  <2>1. \A f \in Fetches : job[f].posts \subseteq Post
    BY DEF LinksTypeOK, Job
  <2> QED BY <2>1 DEF Post
<1>3. \A m \in Media : caption[m] # None => caption[m] \in Variants
  BY DEF LinksTypeOK
<1> QED BY <1>1, <1>2, <1>3

LEMMA RowsKeptByFetch ==
    ASSUME LinksInv, UNCHANGED caption, NEW f \in Fetches, FetchEffect(f)
    PROVE  RowsOK' /\ HoldersOK'
<1>0. LinksTypeOK /\ HoldersOK /\ RowsOK /\ FetchMoves(f) /\ UNCHANGED <<edit, histVars, caption>>
  BY DEF LinksInv, RowsOK, FetchEffect
<1>a. DOMAIN rows \subseteq Media /\ \A m \in DOMAIN rows : rows[m] \in Row
  BY <1>0, TablesAre DEF LinksTypeOK
<1> USE <1>0
\* What becomes of the rows.
<1>1. ASSUME NEW m \in DOMAIN rows'
      PROVE  \/ /\ m \in DOMAIN rows /\ rows'[m].product = rows[m].product /\ rows'[m].variant = rows[m].variant
                /\ rows'[m].method = rows[m].method /\ rows'[m].confirmed = rows[m].confirmed
             \/ /\ m \notin DOMAIN rows /\ rows'[m].variant = None /\ rows'[m].product = None /\ ~rows'[m].confirmed
             \/ /\ m \in DOMAIN rows /\ job[f].at = "vision" /\ m \in DOMAIN job[f].read
                /\ rows'[m].method = "ai_vision_match" /\ rows'[m].confirmed = rows[m].confirmed
                /\ \E shown \in job[f].posts :
                      rows'[m].product = shown.product /\ rows'[m].variant = shown.variant
  <2>1. CASE UNCHANGED rows
    BY <1>1, <2>1
  <2>2. ASSUME NEW one \in Media, NEW row \in Row, RowsBecome(one, row), m # one
        PROVE  m \in DOMAIN rows /\ rows'[m] = rows[m]
    BY <1>1, <2>2 DEF RowsBecome
  <2>3. ASSUME NEW one \in Media, NEW row \in Row, RowsBecome(one, row), m = one
        PROVE  rows'[m] = row
    BY <2>3 DEF RowsBecome
  <2>4. ASSUME NEW one \in Media, NEW row \in Row, IsNew(one, row)
        PROVE  one \notin DOMAIN rows /\ RowsBecome(one, row) /\ row.variant = None
    BY <2>4 DEF IsNew
  <2>5. ASSUME NEW one \in Media, NEW row \in Row, Changed(one, row)
        PROVE  one \in DOMAIN rows /\ RowsBecome(one, row)
    BY <2>5 DEF Changed
  <2> QED BY <2>1, <2>2, <2>3, <2>4, <2>5 DEF FetchEffect
<1>2. DOMAIN rows \subseteq DOMAIN rows'
  <2>1. UNCHANGED rows \/ \E m \in Media, row \in Row : RowsBecome(m, row)
    BY DEF FetchEffect, Changed, IsNew
  <2> QED BY <2>1 DEF RowsBecome
<1>3. PostsOK'
  <2>1. ASSUME NEW m \in DOMAIN rows, Mixed(rows[m])
        PROVE  staffed # {}
    BY <2>1 DEF RowsOK, MixedOnlyByStaff, Mixed
  <2>2. \A g \in Fetches : \A shown \in job'[g].posts : Mixed(shown) => staffed # {}
    BY <2>1 DEF FetchMoves, RowsOK, PostsOK, Mixed
  <2> QED BY <2>2 DEF PostsOK, Mixed, histVars
<1>4. MixedOnlyByStaff'
  BY <1>1 DEF RowsOK, MixedOnlyByStaff, PostsOK, Mixed, histVars
<1>5. ConfirmedIsLinked'
  BY <1>1, Linked DEF RowsOK, ConfirmedIsLinked, histVars
<1>6. GuessConfirmedOnlyByRace'
  BY <1>1 DEF RowsOK, GuessConfirmedOnlyByRace, HoldersOK, JobOK, histVars
<1>7. StaffLinkLostOnlyToCaption'
  <2>1. ASSUME NEW m \in Media, asked[m] # None, m \notin crossed
        PROVE  m \in DOMAIN rows' /\ rows'[m].product = rows[m].product
    <3>1. m \in DOMAIN rows
      BY <2>1 DEF RowsOK, StaffLinkLostOnlyToCaption, Exists
    <3>2. ~(job[f].at = "vision" /\ m \in DOMAIN job[f].read)
      BY <2>1 DEF HoldersOK, JobOK
    <3> QED BY <1>1, <1>2, <3>1, <3>2
  <2> QED BY <2>1 DEF RowsOK, StaffLinkLostOnlyToCaption, Exists, histVars
<1>8. \A e \in Editors : EditOK(e)'
  BY DEF HoldersOK, EditOK, IsAsked, histVars
<1>9. \A s \in saving' : SavingOK(s)'
  <2>1. ASSUME NEW s \in saving'
        PROVE  SavingOK(s)
    BY MatchesSent DEF HoldersOK, FetchEffect
  <2> QED BY <2>1 DEF SavingOK
<1>10. ASSUME NEW g \in Fetches
       PROVE  JobOK(g)'
  \* A row confirmed by now was confirmed before.
  <2>1. \A m \in DOMAIN rows' : rows'[m].confirmed => m \in DOMAIN rows /\ rows[m].confirmed
    BY <1>1
  <2>2. CASE g # f
    BY <2>1, <2>2 DEF HoldersOK, JobOK, FetchMoves, histVars
  <2>3. CASE g = f
    <3>1. ASSUME job'[f].at \in {"posts", "vision"}, NEW m \in DOMAIN job'[f].read
          PROVE  /\ asked[m] # None => m \in crossed
                 /\ m \in DOMAIN rows' /\ rows'[m].confirmed => m \in crossed \cup vouched \/ caption[m] # None
      <4>1. CASE job[f].at \in {"posts", "vision"} /\ DOMAIN job'[f].read \subseteq DOMAIN job[f].read
        BY <2>1, <3>1, <4>1 DEF HoldersOK, JobOK
      <4>2. CASE m \in DOMAIN rows /\ rows[m].product = None
        <5>1. rows[m].confirmed => m \in vouched
          BY <4>2 DEF RowsOK, ConfirmedIsLinked
        <5>2. m \in Media
          BY <1>a, <4>2
        <5>3. asked[m] # None => m \in crossed
          BY <4>2, <5>2, Linked DEF RowsOK, StaffLinkLostOnlyToCaption
        <5> QED BY <2>1, <5>1, <5>3
      <4> QED BY <3>1, <4>1, <4>2 DEF FetchMoves
    <3>2. job'[f].at = "skus" => \A m \in DOMAIN job'[f].read : caption[m] # None
      BY DEF FetchMoves
    <3> QED BY <2>3, <3>1, <3>2 DEF JobOK, histVars
  <2> QED BY <2>2, <2>3
<1> QED BY <1>3, <1>4, <1>5, <1>6, <1>7, <1>8, <1>9, <1>10 DEF RowsOK, HoldersOK

LEMMA RowsKeptByMatch ==
    ASSUME LinksInv, UNCHANGED caption, NEW s \in saving, SaveMatch(s)
    PROVE  RowsOK' /\ HoldersOK'
<1>0. /\ LinksTypeOK /\ HoldersOK /\ RowsOK
      /\ saving' \subseteq saving /\ UNCHANGED <<job, edit, histVars, caption>>
  BY DEF LinksInv, RowsOK, SaveMatch
<1>1. s.media \in Media /\ s.row \in Row /\ SavingOK(s)
  BY <1>0 DEF LinksTypeOK, HoldersOK
<1>2. RowsBecome(s.media, s.row)
  BY <1>0, <1>1, PutRow DEF SaveMatch, Save
<1> USE <1>0, <1>1, <1>2 DEF RowsBecome, SavingOK, histVars
<1>3. PostsOK'
  BY DEF RowsOK, PostsOK, Mixed
<1>4. MixedOnlyByStaff'
  BY DEF RowsOK, MixedOnlyByStaff
<1>5. ConfirmedIsLinked'
  BY Linked DEF RowsOK, ConfirmedIsLinked
<1>6. GuessConfirmedOnlyByRace'
  BY DEF RowsOK, GuessConfirmedOnlyByRace
<1>7. StaffLinkLostOnlyToCaption'
  BY DEF RowsOK, StaffLinkLostOnlyToCaption, Exists
<1>8. HoldersOK'
  <2>1. \A e \in Editors : EditOK(e)'
    BY DEF HoldersOK, EditOK, IsAsked
  <2>2. \A t \in saving' : SavingOK(t)'
    BY DEF HoldersOK
  <2>3. \A g \in Fetches : JobOK(g)'
    BY DEF HoldersOK, JobOK
  <2> QED BY <2>1, <2>2, <2>3 DEF HoldersOK
<1> QED BY <1>3, <1>4, <1>5, <1>6, <1>7, <1>8 DEF RowsOK

LEMMA RowsKeptByGone ==
    ASSUME LinksInv, UNCHANGED caption, Gone
    PROVE  RowsOK' /\ HoldersOK'
<1>1. /\ RowsOK /\ UNCHANGED <<rows, caption, histVars>> /\ saving' = {}
      /\ \A f \in Fetches : /\ job'[f].at \in {"idle", "over"} /\ job'[f].posts = {}
      /\ \A e \in Editors : edit'[e].at \in {"idle", "over"} /\ edit'[e].media = None
  BY GoneMoves DEF LinksInv, RowsOK, Gone
<1>2. RowsOK'
  BY <1>1 DEF RowsOK, PostsOK, MixedOnlyByStaff, ConfirmedIsLinked, GuessConfirmedOnlyByRace,
              StaffLinkLostOnlyToCaption, Exists, histVars
<1>3. HoldersOK'
  BY <1>1 DEF HoldersOK, EditOK, JobOK
<1> QED BY <1>2, <1>3

LEMMA RowsKeptByFind ==
    ASSUME LinksInv, UNCHANGED caption, NEW e \in Editors, NEW kind \in {"patch", "add", "remove"},
           NEW m \in Media, NEW d \in DataOf(kind), Find(e, kind, m, d)
    PROVE  RowsOK' /\ HoldersOK'
<1>0. /\ LinksTypeOK /\ HoldersOK /\ RowsOK /\ UNCHANGED <<rows, caption, job, saving, asked, crossed, vouched>>
      /\ staffed' = staffed \cup {m} /\ \A c \in Editors \ {e} : edit'[c] = edit[c]
  BY DEF LinksInv, RowsOK, Find, LinksTypeOK
<1>1. RowsOK'
  BY <1>0 DEF RowsOK, PostsOK, MixedOnlyByStaff, ConfirmedIsLinked, GuessConfirmedOnlyByRace,
              StaffLinkLostOnlyToCaption, Exists, Mixed
<1>2. EditOK(e)'
  <2> DEFINE row == IF Exists(m) THEN rows[m] ELSE None
  <2>1. kind # "add" => row \in Row
    BY <1>0, TablesAre DEF Find, Exists, LinksTypeOK
  <2>2. row \in Row /\ asked[m] # None /\ m \notin crossed => IsAsked(m, row.product)
    BY <1>0, NoneIsNoRow DEF RowsOK, StaffLinkLostOnlyToCaption, Exists, IsAsked
  <2> HIDE DEF row
  <2>3. edit'[e] = [at |-> kind, media |-> m, data |-> d, row |-> row]
    BY <1>0 DEF Find, LinksTypeOK, row
  <2>4. kind = "add" => d \in Additions
    BY DEF DataOf
  <2> QED BY <1>0, <2>1, <2>2, <2>3, <2>4 DEF EditOK, IsAsked
<1>3. \A c \in Editors \ {e} : EditOK(c)'
  BY <1>0 DEF HoldersOK, EditOK, IsAsked
<1>4. (\A s \in saving' : SavingOK(s)') /\ \A f \in Fetches : JobOK(f)'
  BY <1>0 DEF HoldersOK, SavingOK, JobOK
<1> QED BY <1>1, <1>2, <1>3, <1>4 DEF HoldersOK

LEMMA RowsKeptByFailure ==
    ASSUME LinksInv, UNCHANGED caption, NEW e \in Editors, Fails(e)
    PROVE  RowsOK' /\ HoldersOK'
<1>0. /\ LinksTypeOK /\ HoldersOK /\ RowsOK /\ UNCHANGED <<rows, caption, job, saving, histVars>>
      /\ edit'[e].at = "over" /\ edit'[e].media = None /\ \A d \in Editors \ {e} : edit'[d] = edit[d]
  BY EditOver DEF LinksInv, RowsOK, Fails
<1>1. RowsOK'
  BY <1>0 DEF RowsOK, PostsOK, MixedOnlyByStaff, ConfirmedIsLinked, GuessConfirmedOnlyByRace,
              StaffLinkLostOnlyToCaption, Exists, Mixed, histVars
<1>2. \A d \in Editors : EditOK(d)'
  BY <1>0 DEF HoldersOK, EditOK, IsAsked, histVars
<1>3. (\A s \in saving' : SavingOK(s)') /\ \A f \in Fetches : JobOK(f)'
  BY <1>0 DEF HoldersOK, SavingOK, JobOK, histVars
<1> QED BY <1>1, <1>2, <1>3 DEF HoldersOK

\* Whoever else holds the media of a request that succeeds makes it crossed.
LEMMA OthersKept ==
    ASSUME LinksTypeOK, HoldersOK, UNCHANGED <<caption, job, saving, staffed>>,
           NEW e \in Editors, NEW m \in Media, edit[e].media = m, edit'[e].at = "over", edit'[e].media = None,
           \A d \in Editors \ {e} : edit'[d] = edit[d],
           \A n \in Media \ {m} : asked'[n] = asked[n],
           crossed \subseteq crossed', IsHeld(m, Editors \ {e}) => m \in crossed'
    PROVE  (\A d \in Editors : EditOK(d)') /\ \A s \in saving' : SavingOK(s)'
<1>1. ASSUME NEW d \in Editors \ {e}
      PROVE  EditOK(d)'
  <2>1. EditOK(d) /\ edit'[d] = edit[d] /\ edit[d] \in Request /\ edit[d].media \in Media \cup {None}
    BY DEF HoldersOK, LinksTypeOK, Request
  <2>2. CASE edit[d].media = m
    <3>1. m \in crossed'
      BY <2>2 DEF IsHeld
    <3> QED BY <2>1, <2>2, <3>1 DEF EditOK
  <2>3. CASE edit[d].media \in Media \ {m}
    BY <2>1, <2>3 DEF EditOK, IsAsked
  <2>4. CASE edit[d].media = None
    <3>1. None \notin staffed
      BY LinksAssumption DEF LinksTypeOK, LinksAssumption
    <3> QED BY <2>1, <2>4, <3>1 DEF EditOK
  <2> QED BY <2>1, <2>2, <2>3, <2>4
<1>2. EditOK(e)'
  BY DEF EditOK
<1>3. \A s \in saving' : SavingOK(s)'
  BY DEF HoldersOK, SavingOK
<1> QED BY <1>1, <1>2, <1>3

\* A request that has written row for its media.
LEMMA RowsKeptByEdit ==
    ASSUME LinksInv, UNCHANGED caption, NEW e \in Editors, NEW m \in Media, NEW row \in Row,
           Written(e, m, row)
    PROVE  RowsOK' /\ HoldersOK'
<1>0. /\ LinksTypeOK /\ HoldersOK /\ RowsOK
      /\ edit[e].media = m
      /\ edit'[e].at = "over" /\ edit'[e].media = None /\ \A d \in Editors \ {e} : edit'[d] = edit[d]
      /\ UNCHANGED <<caption, job, saving, staffed>>
      /\ \A n \in Media \ {m} : asked'[n] = asked[n]
      /\ crossed \subseteq crossed' /\ (IsHeld(m, Editors \ {e}) => m \in crossed')
  BY EditOver DEF LinksInv, RowsOK, Written, EditAnswered, Answered, LinksTypeOK
<1>1. m \in staffed
  <2>1. edit[e].media = m /\ edit[e].at \notin {"idle", "over"}
    BY DEF Written, EditAnswered
  <2>2. EditOK(e)
    BY <1>0 DEF HoldersOK
  <2> QED BY <2>1, <2>2 DEF EditOK
<1>2. /\ RowsBecome(m, row)
      /\ \A n \in Media \ {m} : n \in vouched => n \in vouched'
      /\ row.confirmed /\ (row.product = None \/ row.method = "ai_vision_match") => m \in vouched'
      /\ asked'[m] # None /\ m \notin crossed =>
            row.product = asked'[m] \/ (caption[m] # None /\ row.product = ProductOf[caption[m]])
  BY DEF Written
<1>a. DOMAIN rows \subseteq Media
  BY <1>0, TablesAre DEF LinksTypeOK
<1> USE <1>0, <1>1, <1>2, <1>a DEF RowsBecome
<1>3. PostsOK'
  BY DEF RowsOK, PostsOK, Mixed
<1>4. MixedOnlyByStaff'
  BY DEF RowsOK, MixedOnlyByStaff
<1>5. ConfirmedIsLinked'
  BY DEF RowsOK, ConfirmedIsLinked
<1>6. GuessConfirmedOnlyByRace'
  BY DEF RowsOK, GuessConfirmedOnlyByRace
<1>7. StaffLinkLostOnlyToCaption'
  BY DEF RowsOK, StaffLinkLostOnlyToCaption, Exists
<1>8. HoldersOK'
  <2>1. (\A d \in Editors : EditOK(d)') /\ \A s \in saving' : SavingOK(s)'
    BY OthersKept
  <2>2. ASSUME NEW f \in Fetches
        PROVE  JobOK(f)'
    <3>1. m \in DOMAIN job[f].read => m \in crossed'
      BY DEF IsHeld
    <3>2. DOMAIN job[f].read \subseteq Media
      <4>1. job[f].read \in Tables
        BY DEF LinksTypeOK, Job
      <4> QED BY <4>1, TablesAre
    <3> QED BY <3>1, <3>2 DEF HoldersOK, JobOK
  <2> QED BY <2>1, <2>2 DEF HoldersOK
<1> QED BY <1>3, <1>4, <1>5, <1>6, <1>7, <1>8 DEF RowsOK

LEMMA RowsKeptByRemoval ==
    ASSUME LinksInv, UNCHANGED caption, NEW e \in Editors, Remove(e)
    PROVE  RowsOK' /\ HoldersOK'
<1> DEFINE m == edit[e].media
<1>0. /\ LinksTypeOK /\ HoldersOK /\ RowsOK
      /\ edit'[e].at = "over" /\ edit'[e].media = None /\ \A d \in Editors \ {e} : edit'[d] = edit[d]
      /\ UNCHANGED <<caption, job, saving, staffed, vouched>>
      /\ \A n \in Media : asked'[n] = IF n = m THEN None ELSE asked[n]
      /\ crossed \subseteq crossed' /\ (IsHeld(m, Editors \ {e}) => m \in crossed')
  <2>1. Given(None, asked[m]) = None
    BY LinksAssumption DEF Given, LinksAssumption
  <2> QED BY <2>1, EditOver DEF LinksInv, RowsOK, Remove, Answered, LinksTypeOK
<1>a. m \in Media
  BY <1>0 DEF HoldersOK, EditOK, Remove, LinksTypeOK
<1>1. DOMAIN rows' \subseteq DOMAIN rows /\ DOMAIN rows \ {m} \subseteq DOMAIN rows'
      /\ \A n \in DOMAIN rows' : rows'[n] = rows[n]
  BY DEF Remove, Restrict
<1> USE <1>0, <1>1, <1>a
<1>b. edit[e].media = m
  OBVIOUS
<1> HIDE DEF m
<1>2. RowsOK'
  BY DEF RowsOK, PostsOK, MixedOnlyByStaff, ConfirmedIsLinked, GuessConfirmedOnlyByRace,
         StaffLinkLostOnlyToCaption, Exists, Mixed
<1>4. (\A d \in Editors : EditOK(d)') /\ \A s \in saving' : SavingOK(s)'
  BY <1>b, OthersKept
<1>5. ASSUME NEW f \in Fetches
      PROVE  JobOK(f)'
  <2>1. DOMAIN job[f].read \subseteq Media
    <3>1. job[f].read \in Tables
      BY DEF LinksTypeOK, Job
    <3> QED BY <3>1, TablesAre
  <2> QED BY <2>1 DEF HoldersOK, JobOK
<1> QED BY <1>2, <1>4, <1>5 DEF HoldersOK

LEMMA RowsKeptByCustomer ==
    ASSUME LinksInv, UNCHANGED caption, NEW m \in Media, SaveUnlinkedMedia(m)
    PROVE  RowsOK' /\ HoldersOK'
<1>0. LinksTypeOK /\ HoldersOK /\ RowsOK /\ UNCHANGED <<caption, job, saving, edit, histVars>>
  BY DEF LinksInv, RowsOK, SaveUnlinkedMedia
<1>1. PICK row \in Row : IsNew(m, row) /\ row.product = None /\ ~row.confirmed
  BY <1>0, UnlinkedRow
<1> USE <1>0, <1>1 DEF IsNew, RowsBecome, histVars
<1>2. RowsOK'
  BY DEF RowsOK, PostsOK, MixedOnlyByStaff, ConfirmedIsLinked, GuessConfirmedOnlyByRace,
         StaffLinkLostOnlyToCaption, Exists, Mixed
<1>3. \A d \in Editors : EditOK(d)'
  BY DEF HoldersOK, EditOK, IsAsked
<1>4. (\A s \in saving' : SavingOK(s)') /\ \A f \in Fetches : JobOK(f)'
  BY DEF HoldersOK, SavingOK, JobOK
<1> QED BY <1>2, <1>3, <1>4 DEF HoldersOK

(***************************************************************************)
(* Ids and copies                                                          *)
(***************************************************************************)
\* A step that makes no copy but of its new row.
LEMMA CopiesKept ==
    ASSUME LinksInv, NEW one, UNCHANGED removed, crossed \subseteq crossed',
           ids' = ids \/ ids' = ids + 1,
           \A m \in Media, id \in 1 .. MaxRows : HasCopy(m, id)' =>
              HasCopy(m, id) \/ (m = one /\ id = ids + 1 /\ ids' = ids + 1)
    PROVE  IdsOK' /\ CopiesOK'
<1>1. IdsOK /\ CopiesOK /\ ids \in Nat
  BY DEF LinksInv, LinksTypeOK
<1>2. \A id \in removed : id \in Nat
  BY DEF LinksInv, LinksTypeOK
<1> USE <1>1, <1>2
<1>3. \A m \in Media, id \in 1 .. MaxRows : HasCopy(m, id)' => id <= ids'
  BY DEF IdsOK
<1>4. ASSUME NEW m \in Media, NEW n \in Media, NEW id \in 1 .. MaxRows, HasCopy(m, id)', HasCopy(n, id)'
      PROVE  m = n
  BY <1>4 DEF IdsOK
<1>5. \A id \in removed' : id <= ids'
  BY DEF IdsOK
<1>6. CopiesOK'
  BY DEF IdsOK, CopiesOK
<1> QED BY <1>3, <1>4, <1>5, <1>6 DEF IdsOK

LEMMA CopiesKeptByFetch ==
    ASSUME LinksInv, UNCHANGED caption, NEW f \in Fetches, FetchEffect(f)
    PROVE  IdsOK' /\ CopiesOK'
<1>0. LinksTypeOK /\ FetchMoves(f) /\ UNCHANGED <<edit, histVars>> /\ JobOK(f)
  BY DEF LinksInv, HoldersOK, FetchEffect
<1>1. ASSUME NEW m \in Media, NEW id \in 1 .. MaxRows,
             \E g \in Fetches : m \in DOMAIN job'[g].read /\ job'[g].read[m].id = id
      PROVE  HasCopy(m, id)
  BY <1>0, <1>1 DEF FetchMoves, HasCopy
<1>2. ASSUME NEW m \in Media, NEW id \in 1 .. MaxRows, \E s \in saving' : s.media = m /\ s.row.id = id
      PROVE  HasCopy(m, id)
  BY <1>0, <1>2, MatchesSent DEF FetchEffect, HasCopy
<1>3. PICK one : \/ UNCHANGED <<rows, ids>>
                  \/ \E row \in Row : Changed(one, row) \/ IsNew(one, row)
  BY DEF FetchEffect
<1>4. ASSUME NEW m \in Media, NEW id \in 1 .. MaxRows, m \in DOMAIN rows', rows'[m].id = id
      PROVE  HasCopy(m, id) \/ (m = one /\ id = ids + 1 /\ ids' = ids + 1)
  BY <1>3, <1>4 DEF HasCopy, Changed, IsNew, RowsBecome
<1>5. \A m \in Media, id \in 1 .. MaxRows : HasCopy(m, id)' =>
          HasCopy(m, id) \/ (m = one /\ id = ids + 1 /\ ids' = ids + 1)
  BY <1>0, <1>1, <1>2, <1>4 DEF HasCopy
<1>6. ids' = ids \/ ids' = ids + 1
  BY <1>3 DEF Changed, IsNew
<1> QED BY <1>0, <1>5, <1>6, CopiesKept DEF histVars

LEMMA CopiesKeptByMatch ==
    ASSUME LinksInv, NEW s \in saving, SaveMatch(s)
    PROVE  IdsOK' /\ CopiesOK'
<1>1. LinksTypeOK /\ s.media \in Media /\ s.row \in Row
  BY DEF LinksInv, LinksTypeOK
<1>2. RowsBecome(s.media, s.row) /\ UNCHANGED <<ids, job, edit, histVars>> /\ saving' \subseteq saving
  BY <1>1, PutRow DEF SaveMatch, Save
<1>3. \A m \in Media, id \in 1 .. MaxRows : HasCopy(m, id)' => HasCopy(m, id)
  BY <1>2 DEF HasCopy, RowsBecome
<1> QED BY <1>2, <1>3, CopiesKept DEF histVars

LEMMA CopiesKeptByGone ==
    ASSUME LinksInv, Gone
    PROVE  IdsOK' /\ CopiesOK'
<1>1. /\ UNCHANGED <<rows, ids, histVars>> /\ saving' = {}
      /\ \A f \in Fetches : DOMAIN job'[f].read = {}
      /\ \A e \in Editors : edit'[e].media = None
  BY GoneMoves DEF LinksInv, Gone
<1>2. None \notin Media
  BY LinksAssumption DEF LinksAssumption
<1>3. \A m \in Media, id \in 1 .. MaxRows : HasCopy(m, id)' => HasCopy(m, id)
  BY <1>1, <1>2 DEF HasCopy
<1> QED BY <1>1, <1>3, CopiesKept DEF histVars

LEMMA CopiesKeptByFind ==
    ASSUME LinksInv, NEW e \in Editors, NEW kind, NEW m \in Media, NEW d, Find(e, kind, m, d)
    PROVE  IdsOK' /\ CopiesOK'
<1>1. LinksTypeOK
  BY DEF LinksInv
<1> DEFINE row == IF Exists(m) THEN rows[m] ELSE None
<1>2. /\ edit'[e] = [at |-> kind, media |-> m, data |-> d, row |-> row]
      /\ \A c \in Editors \ {e} : edit'[c] = edit[c]
      /\ UNCHANGED <<rows, ids, job, saving, crossed, removed>>
  BY <1>1 DEF Find, LinksTypeOK
<1>3. row # None => m \in DOMAIN rows /\ row = rows[m]
  BY DEF Exists
<1> HIDE DEF row
<1>4. ASSUME NEW n \in Media, NEW id \in 1 .. MaxRows,
             \E c \in Editors : edit'[c].media = n /\ edit'[c].row \in Row /\ edit'[c].row.id = id
      PROVE  HasCopy(n, id)
  <2>1. PICK c \in Editors : edit'[c].media = n /\ edit'[c].row \in Row /\ edit'[c].row.id = id
    BY <1>4
  <2>2. CASE c # e
    BY <1>2, <2>1, <2>2 DEF HasCopy
  <2>3. CASE c = e
    <3>1. n = m /\ row \in Row /\ row.id = id
      BY <1>2, <2>1, <2>3
    <3>2. row # None
      BY <3>1, NoneIsNoRow
    <3> QED BY <1>3, <3>1, <3>2 DEF HasCopy
  <2> QED BY <2>2, <2>3
<1>5. \A n \in Media, id \in 1 .. MaxRows : HasCopy(n, id)' => HasCopy(n, id)
  BY <1>2, <1>4 DEF HasCopy
<1> QED BY <1>2, <1>5, CopiesKept

LEMMA CopiesKeptByFailure ==
    ASSUME LinksInv, NEW e \in Editors, Fails(e)
    PROVE  IdsOK' /\ CopiesOK'
<1>1. /\ UNCHANGED <<rows, ids, job, saving, histVars>> /\ edit'[e].media = None
      /\ \A d \in Editors \ {e} : edit'[d] = edit[d]
  BY EditOver DEF LinksInv, Fails
<1>2. None \notin Media
  BY LinksAssumption DEF LinksAssumption
<1>3. \A m \in Media, id \in 1 .. MaxRows : HasCopy(m, id)' => HasCopy(m, id)
  BY <1>1, <1>2 DEF HasCopy
<1> QED BY <1>1, <1>3, CopiesKept DEF histVars

\* The holder of a request that has written its row is gone.
LEMMA CopiesKeptByEdit ==
    ASSUME LinksInv, NEW e \in Editors, NEW m \in Media, NEW row \in Row,
           Written(e, m, row),
           \/ UNCHANGED ids /\ edit[e].row \in Row /\ row.id = edit[e].row.id
           \/ ids' = ids + 1 /\ row.id = ids + 1
    PROVE  IdsOK' /\ CopiesOK'
<1>1. /\ edit'[e].media = None /\ \A d \in Editors \ {e} : edit'[d] = edit[d]
      /\ UNCHANGED <<job, saving, removed>> /\ crossed \subseteq crossed' /\ edit[e].media = m
      /\ RowsBecome(m, row)
  BY EditOver DEF LinksInv, Written, EditAnswered, Answered
<1>2. None \notin Media
  BY LinksAssumption DEF LinksAssumption
<1>3. ASSUME NEW n \in Media, NEW id \in 1 .. MaxRows, n \in DOMAIN rows', rows'[n].id = id
      PROVE  HasCopy(n, id) \/ (n = m /\ id = ids + 1 /\ ids' = ids + 1)
  BY <1>1, <1>3 DEF HasCopy, RowsBecome
<1>4. \A n \in Media, id \in 1 .. MaxRows : HasCopy(n, id)' =>
          HasCopy(n, id) \/ (n = m /\ id = ids + 1 /\ ids' = ids + 1)
  BY <1>1, <1>2, <1>3 DEF HasCopy
<1> QED BY <1>1, <1>4, CopiesKept

LEMMA CopiesKeptByCustomer ==
    ASSUME LinksInv, NEW m \in Media, SaveUnlinkedMedia(m)
    PROVE  IdsOK' /\ CopiesOK'
<1>1. UNCHANGED <<job, saving, edit, histVars>> /\ \E row \in Row : IsNew(m, row)
  BY UnlinkedRow DEF LinksInv, SaveUnlinkedMedia
<1>2. \A n \in Media, id \in 1 .. MaxRows : HasCopy(n, id)' =>
          HasCopy(n, id) \/ (n = m /\ id = ids + 1 /\ ids' = ids + 1)
  BY <1>1 DEF HasCopy, IsNew, RowsBecome
<1> QED BY <1>1, <1>2, CopiesKept DEF IsNew, histVars

\* The id that is removed is one of a single media; who still holds it, or the
\* media of another row, is crossed.
LEMMA CopiesKeptByRemoval ==
    ASSUME LinksInv, NEW e \in Editors, Remove(e)
    PROVE  IdsOK' /\ CopiesOK'
<1> DEFINE m == edit[e].media
           gone == edit[e].row.id
<1>0. LinksTypeOK /\ EditOK(e) /\ IdsOK /\ CopiesOK
  BY DEF LinksInv, HoldersOK
<1>1. m \in Media /\ edit[e].row \in Row
  BY <1>0 DEF Remove, EditOK, LinksTypeOK
<1>2. gone \in 1 .. MaxRows /\ HasCopy(m, gone)
  BY <1>1 DEF HasCopy, Row
<1>3. /\ edit'[e].media = None /\ \A d \in Editors \ {e} : edit'[d] = edit[d]
      /\ UNCHANGED <<ids, job, saving>> /\ removed' = removed \cup {gone}
      /\ crossed \subseteq crossed' /\ (IsHeld(m, Editors \ {e}) => m \in crossed')
  BY <1>0, EditOver DEF Remove, Answered
<1>4. /\ \A n \in DOMAIN rows' : n \in DOMAIN rows /\ rows'[n] = rows[n]
      /\ m \in DOMAIN rows' => rows'[m].id # gone
  BY DEF Remove, Restrict, IsRow, Exists
<1>5. None \notin Media
  BY LinksAssumption DEF LinksAssumption
<1> HIDE DEF m, gone
<1>6. \A n \in Media, id \in 1 .. MaxRows : HasCopy(n, id)' => HasCopy(n, id)
  BY <1>3, <1>4, <1>5 DEF HasCopy
<1>7. IdsOK'
  BY <1>0, <1>1, <1>2, <1>3, <1>6 DEF IdsOK
<1>8. ASSUME NEW n \in Media, NEW id \in 1 .. MaxRows, HasCopy(n, id)', id \in removed'
      PROVE  n \in crossed'
  <2>1. CASE id \in removed
    BY <1>0, <1>3, <1>6, <1>8, <2>1 DEF CopiesOK
  <2>2. CASE id = gone
    <3>1. n = m
      BY <1>0, <1>1, <1>2, <1>6, <1>8, <2>2 DEF IdsOK
    <3>2. IsHeld(m, Editors \ {e})
      BY <1>3, <1>4, <1>5, <1>8, <2>2, <3>1 DEF HasCopy, IsHeld
    <3> QED BY <1>3, <3>1, <3>2
  <2> QED BY <1>3, <1>8, <2>1, <2>2
<1> QED BY <1>7, <1>8 DEF CopiesOK

(***************************************************************************)
(* The invariant, and what follows from it                                 *)
(***************************************************************************)
LEMMA LinksInductive == LinksInv /\ [Next]_vars => LinksInv'
<1> SUFFICES ASSUME LinksInv, [Next]_vars
             PROVE  RowsOK' /\ HoldersOK' /\ IdsOK' /\ CopiesOK'
    BY LinksTypesKept DEF LinksInv, RowsOK
<1>0. LinksTypeOK /\ \A e \in Editors : EditOK(e)
  BY DEF LinksInv, HoldersOK
<1>1. ASSUME NEW f \in Fetches, StartFetch(f) \/ Fetch(f), UNCHANGED caption
      PROVE  RowsOK' /\ HoldersOK' /\ IdsOK' /\ CopiesOK'
  BY <1>0, <1>1, FetchEffects, RowsKeptByFetch, CopiesKeptByFetch
<1>2. ASSUME NEW s \in saving, SaveMatch(s), UNCHANGED caption
      PROVE  RowsOK' /\ HoldersOK' /\ IdsOK' /\ CopiesOK'
  BY <1>2, RowsKeptByMatch, CopiesKeptByMatch
<1>3. ASSUME Gone, UNCHANGED caption
      PROVE  RowsOK' /\ HoldersOK' /\ IdsOK' /\ CopiesOK'
  BY <1>3, RowsKeptByGone, CopiesKeptByGone
<1>4. ASSUME NEW e \in Editors, NEW kind \in {"patch", "add", "remove"}, NEW m \in Media,
             NEW d \in DataOf(kind), Find(e, kind, m, d), UNCHANGED caption
      PROVE  RowsOK' /\ HoldersOK' /\ IdsOK' /\ CopiesOK'
  BY <1>4, RowsKeptByFind, CopiesKeptByFind
<1>5. ASSUME NEW e \in Editors, Fails(e), UNCHANGED caption
      PROVE  RowsOK' /\ HoldersOK' /\ IdsOK' /\ CopiesOK'
  BY <1>5, RowsKeptByFailure, CopiesKeptByFailure
<1>6. ASSUME NEW e \in Editors, SaveEdit(e) \/ SaveNew(e), ~Fails(e), UNCHANGED caption
      PROVE  RowsOK' /\ HoldersOK' /\ IdsOK' /\ CopiesOK'
  <2>1. CASE SaveEdit(e)
    <3>1. PICK m \in Media, row \in Row :
              /\ Written(e, m, row) /\ UNCHANGED ids
              /\ edit[e].row \in Row /\ row.id = edit[e].row.id
      BY <1>0, <1>6, <2>1, SaveEditRow
    <3> QED BY <1>6, <3>1, RowsKeptByEdit, CopiesKeptByEdit
  <2>2. CASE SaveNew(e)
    <3>1. PICK m \in Media, row \in Row : Written(e, m, row) /\ ids' = ids + 1 /\ row.id = ids + 1
      BY <1>0, <1>6, <2>2, SaveNewRow DEF IsNew, LinksInv
    <3> QED BY <1>6, <3>1, RowsKeptByEdit, CopiesKeptByEdit
  <2> QED BY <1>6, <2>1, <2>2
<1>7. ASSUME NEW e \in Editors, Remove(e), UNCHANGED caption
      PROVE  RowsOK' /\ HoldersOK' /\ IdsOK' /\ CopiesOK'
  BY <1>7, RowsKeptByRemoval, CopiesKeptByRemoval
<1>8. ASSUME NEW m \in Media, SaveUnlinkedMedia(m), UNCHANGED caption
      PROVE  RowsOK' /\ HoldersOK' /\ IdsOK' /\ CopiesOK'
  BY <1>8, RowsKeptByCustomer, CopiesKeptByCustomer
<1>9. CASE UNCHANGED vars
  BY <1>9 DEF LinksInv, RowsOK, HoldersOK, IdsOK, CopiesOK, HasCopy, EditOK, IsAsked, SavingOK, JobOK, PostsOK, Mixed,
              MixedOnlyByStaff, ConfirmedIsLinked, GuessConfirmedOnlyByRace, StaffLinkLostOnlyToCaption, Exists,
              vars, histVars
<1> QED BY <1>1, <1>2, <1>3, <1>4, <1>5, <1>6, <1>7, <1>8, <1>9 DEF Next, Saves, SaveMatchFails, Edit, Restart

THEOREM LinksInvariant == Spec => []LinksInv
<1>1. Init => LinksInv
  BY LinksInitially
<1>2. LinksInv /\ [Next]_vars => LinksInv'
  BY LinksInductive
<1> QED BY <1>1, <1>2, PTL DEF Spec

\* Every variable keeps its type: what is read, sent and written are rows.
THEOREM LinksTypes == Spec => []LinksTypeOK
<1>1. LinksInv => LinksTypeOK
  BY DEF LinksInv
<1> QED BY <1>1, LinksInvariant, PTL

\* A product the staff gave a post while nobody else held its row stays, but for
\* the caption pass of a later fetch.
THEOREM StaffLinksLostToCaptions == Spec => []StaffLinkLostOnlyToCaption
<1>1. LinksInv => StaffLinkLostOnlyToCaption
  BY DEF LinksInv
<1> QED BY <1>1, LinksInvariant, PTL

\* A guess of the model is confirmed only where the staff confirmed it, or the row
\* before it had a product, where a request was answered while somebody held the
\* row, or the caption names an article: the fetch by itself confirms none.
THEOREM GuessesConfirmedByRace == Spec => []GuessConfirmedOnlyByRace
<1>1. LinksInv => GuessConfirmedOnlyByRace
  BY DEF LinksInv
<1> QED BY <1>1, LinksInvariant, PTL

\* The variant of a row belongs to its product, but where the staff gave it another
\* product or variant, or the model copied such a row.
THEOREM MixedByStaff == Spec => []MixedOnlyByStaff
<1>1. LinksInv => MixedOnlyByStaff
  BY DEF LinksInv
<1> QED BY <1>1, LinksInvariant, PTL

\* A row that was removed is in the table again only where somebody held a copy of
\* it when it was removed.
THEOREM RemovedReturnsByRace == Spec => []RemovedReturnsOnlyByRace
<1>1. LinksInv => RemovedReturnsOnlyByRace
  <2> SUFFICES ASSUME LinksInv, NEW m \in DOMAIN rows, rows[m].id \in removed
               PROVE  m \in crossed
      BY DEF RemovedReturnsOnlyByRace
  <2>1. m \in Media /\ rows[m].id \in 1 .. MaxRows
    <3>1. rows \in Tables
      BY DEF LinksInv, LinksTypeOK
    <3> QED BY <3>1, TablesAre DEF Row
  <2>2. HasCopy(m, rows[m].id)
    BY DEF HasCopy
  <2> QED BY <2>1, <2>2 DEF LinksInv, CopiesOK
<1> QED BY <1>1, LinksInvariant, PTL
=============================================================================
