--------------------------- MODULE CatalogImport ---------------------------
(***************************************************************************)
(* The catalog of one tenant: what the connector's feeds and stock lists   *)
(* make of its products, variants, stock and categories, and the sync jobs *)
(* that report it.                                                         *)
(*                                                                         *)
(* A feed is imported in one transaction, with a savepoint around every    *)
(* product and every variant of it: a row that fails is undone, reported,  *)
(* and the import goes on.  A stock list is saved item by item without a   *)
(* transaction.  Nothing keeps two requests apart but the row locks and    *)
(* the unique indexes of the database, which the model keeps: a            *)
(* transaction sees what is committed and what it wrote itself, holds what *)
(* it wrote until it ends, and waits for what another one holds.           *)
(***************************************************************************)
EXTENDS Integers, Sequences, FiniteSets, Functions

CONSTANTS
    Imports, Stocks,    \* catalogImport requests by number, stockImport requests
    Feeds, Lists,       \* what a request of either kind may bring
    Products, Variants, \* external ids
    Texts, Codes, Names,
    Lower,              \* Lower[n]: the name n in lower case
    NoRow, NoCode, NoQty,
    Shops,              \* the tables the program may start from
    MaxFaults           \* bound on failed statements and restarts

ASSUME CatalogAssumption ==
    /\ Imports \subseteq Nat \ {0} /\ Stocks \cap Nat = {} /\ NoRow \notin Nat
    /\ NoCode \notin Codes /\ NoQty \notin Int
    /\ MaxFaults \in Nat
    /\ Names = DOMAIN Lower

Requests == Imports \cup Stocks

VARIABLES
    db,        \* the committed rows, by key
    mine,      \* mine[i]: what import i wrote and has not committed
    pc,        \* pc[r]: where request r is
    feed,      \* feed[r]: what it brought
    at,        \* at[r]: the entry of its feed, or item of its list, it is at
    known,     \* known[i]: the categories it found
    loaded,    \* loaded[i]: the product rows it found before its first entry
    wrote,     \* imports that changed a row
    errors,    \* errors[i]: the products and variants it reports as failed
    row,       \* row[s]: the variant, then the stock row stock import s found
    job,       \* job[r]: the status of its sync job
    committed, \* imports whose transaction is committed
    unheard,   \* imports committed whose request does not know
    met,       \* met[r]: the requests at work while r was
    last,      \* the last import with a feed that was committed
    restocked, \* variants whose stock a list has set since
    faults

txVars == <<mine, at, known, loaded, wrote, errors>>
jobVars == <<job, unheard>>
histVars == <<committed, met, last, restocked>>
vars == <<db, txVars, pc, feed, row, jobVars, histVars, faults>>

(***************************************************************************)
(* Rows                                                                    *)
(***************************************************************************)
\* An id is the request that inserts the row, its entry or item, and the
\* number of the variant in it.
Product(p) == <<"product", p>>     \* unique by external id
Variant(n) == <<"variant", n>>     \* by bar code only, where it has one
Balance(n) == <<"balance", n>>     \* not at all
Category(l) == <<"category", l>>   \* by name in lower case

\* The rows of f over those of g.
Over(f, g) == [k \in DOMAIN f \cup DOMAIN g |-> IF k \in DOMAIN f THEN f[k] ELSE g[k]]

View(i) == Over(mine[i], db)
Held(i) == UNION {DOMAIN mine[j] : j \in Imports \ {i}}

\* The ids of the rows of one kind.
IdsOf(view, kind) == {k[2] : k \in {k \in DOMAIN view : k[1] = kind}}
VariantsOf(view, ext) == {n \in IdsOf(view, "variant") : view[Variant(n)].ext = ext}
BalancesOf(view, n) == {s \in IdsOf(view, "balance") : view[Balance(s)].of = n}

Statuses == {"active", "archived", "draft"}
ProductRow == [status : Statuses, text : Texts, cats : SUBSET Range(Lower)]
VariantRow == [ext : Variants, product : Products, code : Codes \cup {NoCode}]
BalanceRow(view) == [of : IdsOf(view, "variant"), qty : Nat]

HasShape(view) ==
    \A k \in DOMAIN view :
        \/ \E p \in Products : k = Product(p) /\ view[k] \in ProductRow
        \/ k = Variant(k[2]) /\ view[k] \in VariantRow
        \/ k = Balance(k[2]) /\ view[k] \in BalanceRow(view)
        \/ \E l \in Range(Lower) : k = Category(l)

OneOfEachCode(view) ==
    \A n, m \in IdsOf(view, "variant") :
        n # m /\ view[Variant(n)].code # NoCode => view[Variant(n)].code # view[Variant(m)].code

\* Rows of one variant, or balances of one row, there should be one of.
HasDoubles(view) ==
    \/ \E n, m \in IdsOf(view, "variant") : n # m /\ view[Variant(n)].ext = view[Variant(m)].ext
    \/ \E n, m \in IdsOf(view, "balance") : n # m /\ view[Balance(n)].of = view[Balance(m)].of

ASSUME ShopsAssumption ==
    \A d \in Shops :
        /\ HasShape(d) /\ OneOfEachCode(d) /\ ~HasDoubles(d)
        /\ \A n \in IdsOf(d, "variant") \cup IdsOf(d, "balance") : n[1] \notin Requests

\* What the validation of a request lets through.
ASSUME FeedsAssumption ==
    /\ Feeds \subseteq Seq([product : Products, status : Statuses, text : Texts, cats : SUBSET Names,
            images : BOOLEAN, \* the entry sends pictures
            variants : Seq([ext : Variants, code : Codes \cup {NoCode}, qty : Int \cup {NoQty}])])
    /\ Lists \subseteq Seq([ext : Variants, qty : Nat])

\* The last of some positions.
Last(S) == CHOOSE x \in S : \A y \in S : y <= x

Listed(f) == {f[k].product : k \in DOMAIN f}
NamesIn(f) == UNION {f[k].cats : k \in DOMAIN f}
LowerOf(S) == {Lower[n] : n \in S}

AtWork(r) == pc[r] \notin {"idle", "queued", "reporting", "failing", "over"}

(***************************************************************************)
(* One product of a feed: what its statements make of the rows base that   *)
(* the transaction sees.  A variant in failing fails; a find that orders    *)
(* nothing may return any of several rows.                                 *)
(***************************************************************************)
\* Mutant: the status is not among the fields compared.
SaveProductNoStatus(base, e, found) ==
    LET changed == found = NoRow \/ found.text # e.text
        old == IF changed THEN e ELSE base[Product(e.product)]
    IN [status |-> old.status, text |-> old.text, cats |-> LowerOf(e.cats)]

\* The product row: found is the one read before the first product.
SaveProduct(base, e, found) ==
    LET changed == found = NoRow \/ found.status # e.status \/ found.text # e.text
        old == IF changed THEN e ELSE base[Product(e.product)]
    IN [status |-> old.status, text |-> old.text, cats |-> LowerOf(e.cats)]

\* Mutant: looked up under its product only.
FoundUnderProduct(base, e, x) ==
    {n \in VariantsOf(base, e.variants[x].ext) : base[Variant(n)].product = e.product}

\* upsertVariants: the rows of the x-th variant, looked up in the whole tenant.
Found(base, e, x) == VariantsOf(base, e.variants[x].ext)

\* The row each variant is written to: one that is found, the same for every variant of
\* that id, or one of its own.
Targets(base, e, new) ==
    {to \in [DOMAIN e.variants -> IdsOf(base, "variant") \cup Range(new)] :
        \A x \in DOMAIN to : IF Found(base, e, x) = {} THEN to[x] = new[x]
            ELSE /\ to[x] \in Found(base, e, x)
                 /\ \A y \in DOMAIN to : e.variants[y].ext = e.variants[x].ext => to[y] = to[x]}

SaveVariant(e, x) ==
    [ext |-> e.variants[x].ext, product |-> e.product, code |-> e.variants[x].code]

\* A row that is as it should be is only dated.
Writes(base, e, to, x) ==
    Variant(to[x]) \in DOMAIN base => base[Variant(to[x])] # SaveVariant(e, x)

\* What stands in row n after the variants in done.
Standing(base, e, to, done, n) ==
    LET written == {x \in done : to[x] = n /\ Writes(base, e, to, x)}
    IN IF written = {} THEN base[Variant(n)] ELSE SaveVariant(e, Last(written))

\* The index on bar codes refuses the x-th variant after those in done.
Refused(base, e, to, done, x) ==
    /\ Writes(base, e, to, x) /\ e.variants[x].code # NoCode
    /\ \E n \in (IdsOf(base, "variant") \cup {to[y] : y \in done}) \ {to[x]} :
          Standing(base, e, to, done, n).code = e.variants[x].code

\* The variants whose statements succeed, each inside a savepoint of its own.
Saved(base, e, failing, to) ==
    {S \in SUBSET DOMAIN e.variants : \A x \in DOMAIN e.variants :
        x \in S <=> x \notin failing /\ ~Refused(base, e, to, S \cap 1 .. (x - 1), x)}

VariantRows(base, e, to, saved) ==
    [k \in {Variant(to[x]) : x \in saved} |-> Standing(base, e, to, saved, k[2])]

\* Mutant: a backorder is stored as it is.
Unclamped(qty) == qty

Clamped(qty) == IF qty < 0 THEN 0 ELSE qty

\* upsertStockBalanceTx: the variants that are under this product now.
Home(view, e, x) ==
    {n \in VariantsOf(view, e.variants[x].ext) : view[Variant(n)].product = e.product}

Stocked(view, e) == {x \in DOMAIN e.variants : e.variants[x].qty # NoQty /\ Home(view, e, x) # {}}

\* The variant and the balance that are found for each, or the balance inserted.
Homes(view, e) ==
    {of \in [Stocked(view, e) -> IdsOf(view, "variant")] :
        \A x \in DOMAIN of : of[x] \in Home(view, e, x)}
Balances(base, of, new) ==
    {in \in [DOMAIN of -> IdsOf(base, "balance") \cup Range(new)] :
        \A x \in DOMAIN of :
            IF BalancesOf(base, of[x]) # {} THEN in[x] \in BalancesOf(base, of[x])
            ELSE in[x] = new[CHOOSE y \in DOMAIN of : of[y] = of[x]]}

\* A negative quantity is none.
StockRows(base, e, of, in) ==
    LET Qty(x) == Clamped(e.variants[x].qty)
        written == {x \in DOMAIN of : \/ Balance(in[x]) \notin DOMAIN base
                                      \/ base[Balance(in[x])].qty # Qty(x)}
    IN [k \in {Balance(in[x]) : x \in written} |->
            LET x == Last({y \in DOMAIN of : in[y] = k[2]}) IN [of |-> of[x], qty |-> Qty(x)]]

ProductRows(base, e, found) == [k \in {Product(e.product)} |-> SaveProduct(base, e, found)]

\* Another transaction holds a row, or a bar code, these statements need.
HeldCode(i, c) ==
    \E j \in Imports \ {i} : \E n \in IdsOf(mine[j], "variant") :
        \/ mine[j][Variant(n)].code = c
        \/ Variant(n) \in DOMAIN db /\ db[Variant(n)].code = c

EntryWaits(i, e, rows) ==
    \/ DOMAIN rows \cap Held(i) # {}
    \/ \E k \in DOMAIN e.variants : e.variants[k].code # NoCode /\ HeldCode(i, e.variants[k].code)

\* The active products the feed does not list.
ToArchive(i) ==
    {p \in Products \ Listed(feed[i]) :
        Product(p) \in DOMAIN View(i) /\ View(i)[Product(p)].status = "active"}

Entry(i) == feed[i][at[i]]
NewRows(i) == [x \in DOMAIN Entry(i).variants |-> <<i, at[i], x>>]

\* What the entry may come to: the variants saved, and all the rows it writes, or
\* touches to date them.
Outcomes(i, failing) ==
    LET e == Entry(i)
        new == NewRows(i)
        product == ProductRows(View(i), e, loaded[i][e.product])
        Rows(to, saved) == Over(product, VariantRows(View(i), e, to, saved))
        With(to, saved, view) ==
            {[saved |-> saved, rows |-> Over(StockRows(View(i), e, put[1], put[2]), Rows(to, saved))] :
                put \in UNION {{of} \X Balances(View(i), of, new) : of \in Homes(view, e)}}
    IN UNION {UNION {With(to, saved, Over(Rows(to, saved), View(i))) : saved \in Saved(View(i), e, failing, to)}
              : to \in Targets(View(i), e, new)}

Waits(i) ==
    \/ pc[i] = "categories" /\ \E l \in LowerOf(NamesIn(feed[i])) \ known[i] : Category(l) \in Held(i)
    \/ pc[i] = "entry" /\ \E o \in Outcomes(i, {}) : EntryWaits(i, Entry(i), o.rows)
    \/ pc[i] = "archive" /\ \E p \in ToArchive(i) : Product(p) \in Held(i)

(***************************************************************************)
(* Requests and their jobs                                                 *)
(***************************************************************************)
NothingLoaded == [p \in Products |-> NoRow]

Init ==
    /\ db \in Shops
    /\ mine = [i \in Imports |-> <<>>]
    /\ pc = [r \in Requests |-> "idle"]
    /\ feed = [r \in Requests |-> <<>>]
    /\ at = [r \in Requests |-> 1]
    /\ known = [i \in Imports |-> {}]
    /\ loaded = [i \in Imports |-> NothingLoaded]
    /\ wrote = {}
    /\ errors = [i \in Imports |-> {}]
    /\ row = [s \in Stocks |-> NoRow]
    /\ job = [r \in Requests |-> "none"]
    /\ committed = {} /\ unheard = {}
    /\ met = [r \in Requests |-> {}]
    /\ last = NoRow /\ restocked = {}
    /\ faults = 0

Goes(r, where) == pc' = [pc EXCEPT ![r] = where]
Sets(r, status) == job' = [job EXCEPT ![r] = status]
Fault == faults < MaxFaults /\ faults' = faults + 1

\* queueSyncJob; whose connection it is has been looked up before.
Request(r, f) ==
    /\ pc[r] = "idle" /\ Goes(r, "queued") /\ Sets(r, "queued")
    /\ IF r \in Stocks THEN f \in Lists
       ELSE f \in Feeds /\ \A i \in Imports : i < r => pc[i] # "idle"
    /\ feed' = [feed EXCEPT ![r] = f]
    /\ UNCHANGED <<db, txVars, row, unheard, histVars, faults>>

\* From here on r is at work, and meets those that are.
Begins(r) ==
    met' = [q \in Requests |->
              IF q = r THEN {x \in Requests : AtWork(x)}
              ELSE IF AtWork(q) THEN met[q] \cup {r} ELSE met[q]]

MarkJobRunning(r) ==
    /\ pc[r] = "queued" /\ Sets(r, "running")
    /\ Goes(r, IF r \in Stocks /\ feed[r] = <<>> THEN "reporting" ELSE "begin")
    /\ Begins(r)
    /\ UNCHANGED <<db, txVars, feed, row, unheard, committed, last, restocked, faults>>

\* Before the try: nobody marks the job.
MarkRunningFails(r) ==
    /\ pc[r] = "queued" /\ Goes(r, "over") /\ Fault
    /\ UNCHANGED <<db, txVars, feed, row, jobVars, histVars>>

MarkJobDone(r) ==
    /\ pc[r] = "reporting" /\ Goes(r, "over") /\ Sets(r, "success")
    /\ UNCHANGED <<db, txVars, feed, row, unheard, histVars, faults>>

\* Inside the try: what is committed is reported as failed.
MarkDoneFails(r) ==
    /\ pc[r] = "reporting" /\ Goes(r, "failing") /\ Fault
    /\ unheard' = unheard \cup {r}
    /\ UNCHANGED <<db, txVars, feed, row, job, histVars>>

MarkJobFailed(r) ==
    /\ pc[r] = "failing" /\ Goes(r, "over") /\ Sets(r, "failed")
    /\ UNCHANGED <<db, txVars, feed, row, unheard, histVars, faults>>

MarkFailedFails(r) ==
    /\ pc[r] = "failing" /\ Goes(r, "over") /\ Fault
    /\ UNCHANGED <<db, txVars, feed, row, jobVars, histVars>>

\* A restart: transactions are undone, jobs stay as they are.
Crash ==
    /\ Fault
    /\ pc' = [r \in Requests |-> IF pc[r] = "idle" THEN "idle" ELSE "over"]
    /\ mine' = [i \in Imports |-> <<>>]
    /\ known' = [i \in Imports |-> {}]
    /\ loaded' = [i \in Imports |-> NothingLoaded]
    /\ wrote' = {}
    /\ at' = [r \in Requests |-> 1]
    /\ row' = [s \in Stocks |-> NoRow]
    /\ UNCHANGED <<db, errors, feed, jobVars, histVars>>

(***************************************************************************)
(* importCatalog                                                           *)
(***************************************************************************)
FindCategories(i) ==
    /\ pc[i] = "begin" /\ Goes(i, "categories")
    /\ known' = [known EXCEPT ![i] = {l \in Range(Lower) : Category(l) \in DOMAIN db}]
    /\ UNCHANGED <<db, mine, at, loaded, wrote, errors, feed, row, jobVars, histVars, faults>>

\* The names of the feed the tenant has no category for.
NewNames(i) == {n \in NamesIn(feed[i]) : Lower[n] \notin known[i]}

\* The unique index takes one row for each name in lower case.
NamesClash(i) ==
    \/ \E n, m \in NewNames(i) : n # m /\ Lower[n] = Lower[m]
    \/ \E n \in NewNames(i) : Category(Lower[n]) \in DOMAIN db

\* Mutant: categories the tenant has are written again.
SaveEveryCategory(i) ==
    /\ pc[i] = "categories" /\ ~Waits(i) /\ ~NamesClash(i)
    /\ Goes(i, IF feed[i] = <<>> THEN "commit" ELSE "entry")
    /\ mine' = [mine EXCEPT ![i] = [k \in {Category(l) : l \in LowerOf(NamesIn(feed[i]))} |-> TRUE]]
    /\ wrote' = IF NamesIn(feed[i]) = {} THEN wrote ELSE wrote \cup {i}
    /\ loaded' = [loaded EXCEPT ![i] = [p \in Products |->
                    IF p \in Listed(feed[i]) /\ Product(p) \in DOMAIN db
                    THEN db[Product(p)] ELSE NoRow]]
    /\ known' = [known EXCEPT ![i] = {}]
    /\ UNCHANGED <<db, at, errors, feed, row, jobVars, histVars, faults>>

\* upsertCategories inserts them in one statement; the product rows the feed
\* names are read next.
SaveCategories(i) ==
    /\ pc[i] = "categories" /\ ~Waits(i) /\ ~NamesClash(i)
    /\ Goes(i, IF feed[i] = <<>> THEN "commit" ELSE "entry")
    /\ mine' = [mine EXCEPT ![i] = [k \in {Category(l) : l \in LowerOf(NewNames(i))} |-> TRUE]]
    /\ wrote' = IF NewNames(i) = {} THEN wrote ELSE wrote \cup {i}
    /\ loaded' = [loaded EXCEPT ![i] = [p \in Products |->
                    IF p \in Listed(feed[i]) /\ Product(p) \in DOMAIN db
                    THEN db[Product(p)] ELSE NoRow]]
    /\ known' = [known EXCEPT ![i] = {}]
    /\ UNCHANGED <<db, at, errors, feed, row, jobVars, histVars, faults>>

NextEntry(i) ==
    IF at[i] < Len(feed[i])
    THEN at' = [at EXCEPT ![i] = @ + 1] /\ Goes(i, "entry") /\ UNCHANGED loaded
    ELSE at' = [at EXCEPT ![i] = 1] /\ Goes(i, "archive")
         /\ loaded' = [loaded EXCEPT ![i] = NothingLoaded]

Duplicate(i) ==
    loaded[i][Entry(i).product] = NoRow /\ Product(Entry(i).product) \in DOMAIN View(i)

\* The pictures of a product are deleted and inserted again, without their embeddings, by
\* every entry that sends some, the same ones too.  What they are is left out.
ReplacesMedia(e) == e.images

\* One product, its variants, its stock and its pictures, inside a savepoint.
SaveNextEntry(i, failing) ==
    /\ pc[i] = "entry" /\ ~Duplicate(i)
    /\ \E o \in Outcomes(i, failing) :
          /\ ~EntryWaits(i, Entry(i), o.rows)
          /\ mine' = [mine EXCEPT ![i] = Over(o.rows, @)]
          /\ wrote' = IF /\ ~ReplacesMedia(Entry(i))
                        /\ \A k \in DOMAIN o.rows : k \in DOMAIN View(i) /\ View(i)[k] = o.rows[k]
                      THEN wrote ELSE wrote \cup {i}
          /\ errors' = [errors EXCEPT ![i] = @ \cup
                {Entry(i).variants[x].ext : x \in DOMAIN Entry(i).variants \ o.saved}]
    /\ NextEntry(i)
    /\ UNCHANGED <<db, known, feed, row, jobVars, histVars>>

\* The product is undone up to its savepoint.
EntryFails(i) ==
    /\ pc[i] = "entry"
    /\ errors' = [errors EXCEPT ![i] = @ \cup {Entry(i).product}]
    /\ NextEntry(i)
    /\ UNCHANGED <<db, mine, known, wrote, feed, row, jobVars, histVars>>

\* Products the feed does not list are archived, products that failed are not.
Archive(i) ==
    /\ pc[i] = "archive" /\ ~Waits(i) /\ Goes(i, "commit")
    /\ mine' = [mine EXCEPT ![i] =
          Over([k \in {Product(p) : p \in ToArchive(i)} |-> [View(i)[k] EXCEPT !.status = "archived"]], @)]
    /\ wrote' = IF ToArchive(i) = {} THEN wrote ELSE wrote \cup {i}
    /\ UNCHANGED <<db, at, known, loaded, errors, feed, row, jobVars, histVars, faults>>

Committed(i) ==
    /\ db' = View(i)
    /\ mine' = [mine EXCEPT ![i] = <<>>]
    /\ committed' = committed \cup {i}
    /\ IF feed[i] = <<>> THEN UNCHANGED <<last, restocked>>
                         ELSE last' = i /\ restocked' = {}
    /\ wrote' = wrote \ {i}
    /\ UNCHANGED <<at, known, loaded, errors, feed, row, job, met>>

Commit(i) ==
    /\ pc[i] = "commit" /\ Goes(i, "reporting")
    /\ Committed(i)
    /\ UNCHANGED <<unheard, faults>>

\* The connection is lost after the commit has reached the database.
CommitUnheard(i) ==
    /\ pc[i] = "commit" /\ Goes(i, "failing") /\ Fault
    /\ Committed(i)
    /\ unheard' = unheard \cup {i}

InTransaction(i) == pc[i] \in {"categories", "entry", "archive", "commit"}

\* Mutant: the request goes on as if the import had returned.
TransactionFailsQuietly(i) ==
    /\ InTransaction(i) /\ Goes(i, "reporting")
    /\ mine' = [mine EXCEPT ![i] = <<>>]
    /\ at' = [at EXCEPT ![i] = 1] /\ known' = [known EXCEPT ![i] = {}]
    /\ loaded' = [loaded EXCEPT ![i] = NothingLoaded]
    /\ wrote' = wrote \ {i} /\ errors' = [errors EXCEPT ![i] = {}]
    /\ UNCHANGED <<db, feed, row, jobVars, histVars>>

\* A statement outside the savepoints fails: all of the feed is undone.
TransactionFails(i) ==
    /\ InTransaction(i) /\ Goes(i, "failing")
    /\ mine' = [mine EXCEPT ![i] = <<>>]
    /\ at' = [at EXCEPT ![i] = 1] /\ known' = [known EXCEPT ![i] = {}]
    /\ loaded' = [loaded EXCEPT ![i] = NothingLoaded]
    /\ wrote' = wrote \ {i} /\ errors' = [errors EXCEPT ![i] = {}]
    /\ UNCHANGED <<db, feed, row, jobVars, histVars>>

(***************************************************************************)
(* The database ends a circle of transactions that wait for each other     *)
(***************************************************************************)
Deadlocked(i) == Waits(i) /\ \A j \in Imports : InTransaction(j) => Waits(j)

DeadlockFailsEntry(i) == Deadlocked(i) /\ UNCHANGED faults /\ EntryFails(i)
DeadlockFailsAll(i) ==
    Deadlocked(i) /\ pc[i] # "entry" /\ UNCHANGED faults /\ TransactionFails(i)

(***************************************************************************)
(* importStock                                                             *)
(***************************************************************************)
Item(s) == feed[s][at[s]]

NextItem(s) ==
    /\ row' = [row EXCEPT ![s] = NoRow]
    /\ IF at[s] < Len(feed[s]) THEN at' = [at EXCEPT ![s] = @ + 1] /\ Goes(s, "begin")
                               ELSE at' = [at EXCEPT ![s] = 1] /\ Goes(s, "reporting")

StockFinds(s) ==
    /\ pc[s] = "begin"
    /\ \E n \in VariantsOf(db, Item(s).ext) : row' = [row EXCEPT ![s] = n]
    /\ Goes(s, "look")
    /\ UNCHANGED <<db, txVars, feed, jobVars, histVars, faults>>

StockSkips(s) ==
    /\ pc[s] = "begin" /\ VariantsOf(db, Item(s).ext) = {}
    /\ NextItem(s)
    /\ UNCHANGED <<db, mine, known, loaded, wrote, errors, feed, jobVars, histVars, faults>>

\* upsertStockBalance: the find, and then one of two statements.
StockLooks(s) ==
    /\ pc[s] = "look"
    /\ LET old == BalancesOf(db, row[s]) IN
          \/ old = {} /\ Goes(s, "insert") /\ UNCHANGED row
          \/ Goes(s, "update") /\ \E b \in old : row' = [row EXCEPT ![s] = b]
    /\ UNCHANGED <<db, txVars, feed, jobVars, histVars, faults>>

StockWrites(s) ==
    /\ \/ /\ pc[s] = "insert"
          /\ db' = Over([k \in {Balance(<<s, at[s], 0>>)} |-> [of |-> row[s], qty |-> Item(s).qty]], db)
       \/ /\ pc[s] = "update" /\ Balance(row[s]) \notin UNION {DOMAIN mine[i] : i \in Imports}
          /\ db' = [db EXCEPT ![Balance(row[s])].qty = Item(s).qty]
    /\ restocked' = restocked \cup {Item(s).ext}
    /\ NextItem(s)
    /\ UNCHANGED <<mine, known, loaded, wrote, errors, feed, jobVars, committed, met, last, faults>>

\* A statement fails: the item is reported, and the next one tried.
StockItemFails(s) ==
    /\ pc[s] \in {"begin", "look", "insert", "update"} /\ Fault
    /\ NextItem(s)
    /\ UNCHANGED <<db, mine, known, loaded, wrote, errors, feed, jobVars, histVars>>

(***************************************************************************)
(* Next                                                                    *)
(***************************************************************************)
Jobs(r) == MarkJobRunning(r) \/ MarkJobDone(r) \/ MarkJobFailed(r)

Import(i) ==
    \/ FindCategories(i) \/ SaveCategories(i)
    \/ pc[i] = "categories" /\ ~Waits(i) /\ NamesClash(i) /\ UNCHANGED faults /\ TransactionFails(i)
    \/ UNCHANGED faults /\ SaveNextEntry(i, {})
    \/ pc[i] = "entry" /\ Duplicate(i) /\ ~Waits(i) /\ UNCHANGED faults /\ EntryFails(i)
    \/ Archive(i) \/ Commit(i)
    \/ DeadlockFailsEntry(i) \/ DeadlockFailsAll(i)

Stock(s) == StockFinds(s) \/ StockSkips(s) \/ StockLooks(s) \/ StockWrites(s)

Fails(i) ==
    \/ pc[i] = "entry" /\ \E x \in DOMAIN Entry(i).variants : Fault /\ SaveNextEntry(i, {x})
    \/ Fault /\ EntryFails(i)
    \/ Fault /\ TransactionFails(i)
    \/ CommitUnheard(i)

Next ==
    \/ \E r \in Requests, f \in Feeds \cup Lists : Request(r, f)
    \/ \E r \in Requests : Jobs(r) \/ MarkRunningFails(r) \/ MarkDoneFails(r) \/ MarkFailedFails(r)
    \/ \E i \in Imports : Import(i) \/ Fails(i)
    \/ \E s \in Stocks : Stock(s) \/ StockItemFails(s)
    \/ Crash

Spec == Init /\ [][Next]_vars

(***************************************************************************)
(* Properties                                                              *)
(***************************************************************************)
\* The tables hold rows of their shape, a bar code is one variant's, and a
\* transaction holds rows only while it is open.
CatalogTypeOK ==
    /\ HasShape(db) /\ OneOfEachCode(db)
    /\ \A i \in Imports : InTransaction(i) \/ mine[i] = <<>>
    /\ job \in [Requests -> {"none", "queued", "running", "success", "failed"}]

RepeatsVariant(e) ==
    \E x, y \in DOMAIN e.variants : x # y /\ e.variants[x].ext = e.variants[y].ext

ListsTwice(f) ==
    \/ \E k, l \in DOMAIN f : k # l /\ f[k].product = f[l].product
    \/ \E k, l \in DOMAIN f : \E x \in DOMAIN f[k].variants, y \in DOMAIN f[l].variants :
          <<k, x>> # <<l, y>> /\ f[k].variants[x].ext = f[l].variants[y].ext

\* The rows say of entry e what the feed says, but for what was reported as
\* failed and the stock a list has set since.
Mirrors(e, failed) ==
    e.product \in failed \/
    /\ Product(e.product) \in DOMAIN db
    /\ db[Product(e.product)] = [status |-> e.status, text |-> e.text, cats |-> LowerOf(e.cats)]
    /\ \A x \in DOMAIN e.variants : LET sent == e.variants[x] IN
          sent.ext \in failed \/ \E n \in VariantsOf(db, sent.ext) :
              /\ db[Variant(n)].product = e.product /\ db[Variant(n)].code = sent.code
              /\ \/ sent.qty = NoQty \/ sent.ext \in restocked
                 \/ \E k \in BalancesOf(db, n) : db[Balance(k)].qty = IF sent.qty < 0 THEN 0 ELSE sent.qty

Doubles == HasDoubles(db)

\* After an import that met no other request, of a feed that lists everything
\* once, the catalog is the feed: what was archived is sold again, what moved
\* to another product is under it, and nothing is on sale the feed leaves out.
CatalogMirrorsFeed ==
    last # NoRow /\ met[last] = {} /\ ~ListsTwice(feed[last]) /\ ~Doubles =>
        /\ \A k \in DOMAIN feed[last] : Mirrors(feed[last][k], errors[last])
        /\ \A p \in Products : Product(p) \in DOMAIN db /\ db[Product(p)].status = "active"
                               => p \in Listed(feed[last])

\* A feed without pictures that is sent again, with nothing imported in between, changes no
\* row of the catalog: what failed and was reported the first time is all there is to do.  It
\* only dates the rows it finds.  The comments that promise no write at all (catalog.service
\* 262-263, internal.controller 72-73) do not hold of a feed with pictures: it replaces
\* product_media each time (step 3d).
Resends(i) ==
    /\ last # NoRow /\ i # last /\ feed[i] = feed[last] /\ errors[last] = {}
    /\ met[i] = {} /\ met[last] = {} /\ restocked = {}
    /\ ~ListsTwice(feed[i]) /\ ~Doubles
    /\ \A k \in DOMAIN feed[i] : ~ReplacesMedia(feed[i][k])

ResendIsQuiet == \A i \in Imports : pc[i] = "commit" /\ Resends(i) => i \notin wrote

\* A job that is done is committed, and one that failed is not, but when the
\* answer of the commit, or the statement that says so, was lost.
JobTellsTheTruth ==
    \A i \in Imports :
        /\ job[i] = "success" => i \in committed
        /\ job[i] = "failed" => i \notin committed \ unheard

\* A variant or a balance is there twice only when two requests met, or one
\* product of a feed lists the variant twice.
DoublesOnlyByOverlap ==
    Doubles => \/ \E r \in Requests : met[r] # {}
               \/ \E i \in committed : \E k \in DOMAIN feed[i] : RepeatsVariant(feed[i][k])

\* Names of a feed that differ in case only are one category: they are not
\* what makes an import fail that no statement failed for and that met nobody.
CasingsAreOneCategory ==
    \A i \in Imports : job[i] = "failed" /\ faults = 0 /\ met[i] = {} =>
        \A n, m \in NamesIn(feed[i]) : Lower[n] = Lower[m] => n = m

=============================================================================
