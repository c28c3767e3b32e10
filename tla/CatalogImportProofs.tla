------------------------ MODULE CatalogImportProofs ------------------------
(***************************************************************************)
(* Safety of the catalog imports, for any number of requests, feeds and    *)
(* faults.                                                                 *)
(***************************************************************************)
EXTENDS CatalogImport, FiniteSetTheorems, WellFoundedInduction, TLAPS

EntryType ==
    [product : Products, status : Statuses, text : Texts, cats : SUBSET Names,
     images : BOOLEAN,
     variants : Seq([ext : Variants, code : Codes \cup {NoCode}, qty : Int \cup {NoQty}])]
ItemType == [ext : Variants, qty : Nat]

(***************************************************************************)
(* Rows                                                                    *)
(***************************************************************************)
\* A set of positions has a last one (there is no infinite chain of ever smaller
\* sets of later positions).
LEMMA LastIs ==
    ASSUME NEW n \in Nat, NEW S \in SUBSET (1 .. n), S # {}
    PROVE  Last(S) \in S /\ \A y \in S : y <= Last(S)
<1> DEFINE Above(x) == {y \in S : x < y}
           Family == {Above(x) : x \in S}
<1>1. IsFiniteSet(S) BY FS_Interval, FS_Subset, 1 \in Int, n \in Int
<1>2. IsWellFoundedOn(StrictSubsetOrdering(S), SUBSET S)
  BY <1>1, FS_FiniteSubsetsOfFinite, FS_StrictSubsetOrderingWellFounded
<1>3. PICK A \in Family : \A B \in Family : <<B, A>> \notin StrictSubsetOrdering(S)
  <2>1. Family \subseteq SUBSET S /\ Family # {} OBVIOUS
  <2> HIDE DEF Family
  <2> QED BY <1>2, <2>1, WFMin
<1>4. PICK x \in S : A = Above(x) BY <1>3
<1>5. ASSUME NEW y \in S, x < y PROVE FALSE
  <2>1. \A z \in S : z \in Int OBVIOUS
  <2>2. Above(y) \subseteq Above(x)
    <3> SUFFICES ASSUME NEW z \in S, y < z PROVE x < z OBVIOUS
    <3> QED BY <1>5, <2>1
  <2>3. y \in Above(x) /\ y \notin Above(y) BY <1>5, <2>1
  <2>4. <<Above(y), Above(x)>> \in StrictSubsetOrdering(S) BY <2>2, <2>3 DEF StrictSubsetOrdering
  <2> QED BY <2>4, <1>3, <1>4
<1>6. \A y \in S : y <= x
  <2>1. \A z \in S : z \in Int OBVIOUS
  <2> QED BY <2>1, <1>5
<1> QED BY <1>6 DEF Last

\* Rows over rows, and over none.
LEMMA OverOver ==
    ASSUME NEW f, NEW g, NEW h
    PROVE  Over(Over(f, g), h) = Over(f, Over(g, h))
BY DEF Over

LEMMA NoRows == DOMAIN <<>> = {}
OBVIOUS

LEMMA KeyOf ==
    ASSUME NEW view, NEW n
    PROVE  /\ Variant(n) \in DOMAIN view => n \in IdsOf(view, "variant")
           /\ Balance(n) \in DOMAIN view => n \in IdsOf(view, "balance")
BY DEF IdsOf, Variant, Balance

LEMMA IdsAre ==
    ASSUME NEW view, HasShape(view), NEW n
    PROVE  /\ n \in IdsOf(view, "variant") <=> Variant(n) \in DOMAIN view
           /\ n \in IdsOf(view, "balance") <=> Balance(n) \in DOMAIN view
BY DEF HasShape, IdsOf, Variant, Balance, Product, Category

LEMMA ShapeOfVariant ==
    ASSUME NEW view, HasShape(view), NEW n, Variant(n) \in DOMAIN view
    PROVE  view[Variant(n)] \in VariantRow
BY DEF HasShape, Variant, Balance, Product, Category

LEMMA ShapeOfBalance ==
    ASSUME NEW view, HasShape(view), NEW n, Balance(n) \in DOMAIN view
    PROVE  view[Balance(n)] \in BalanceRow(view)
BY DEF HasShape, Variant, Balance, Product, Category

LEMMA ShapeOfProduct ==
    ASSUME NEW view, HasShape(view), NEW p, Product(p) \in DOMAIN view
    PROVE  view[Product(p)] \in ProductRow
BY DEF HasShape, Variant, Balance, Product, Category
\* A bar code is one variant's, in one view and between two.
Distinct(view) ==
    \A n, m : /\ Variant(n) \in DOMAIN view /\ Variant(m) \in DOMAIN view
              /\ n # m /\ view[Variant(n)].code # NoCode
              => view[Variant(n)].code # view[Variant(m)].code

Apart(f, g) ==
    \A n, m : /\ Variant(n) \in DOMAIN f /\ Variant(m) \in DOMAIN g
              /\ f[Variant(n)].code # NoCode
              => f[Variant(n)].code # g[Variant(m)].code

LEMMA CodesAre ==
    ASSUME NEW view, HasShape(view)
    PROVE  OneOfEachCode(view) <=> Distinct(view)
<1>1. \A n : n \in IdsOf(view, "variant") <=> Variant(n) \in DOMAIN view BY IdsAre
<1> QED BY <1>1 DEF OneOfEachCode, Distinct

\* What one transaction has written fits over what another one commits.
LEMMA ShapeOver ==
    ASSUME NEW f, NEW g, NEW d, HasShape(Over(f, d)), HasShape(Over(g, d))
    PROVE  HasShape(Over(f, Over(g, d)))
<1> DEFINE v == Over(f, d)
           w == Over(g, d)
           u == Over(f, w)
<1>1. DOMAIN v \subseteq DOMAIN u /\ DOMAIN w \subseteq DOMAIN u BY DEF Over
<1>2. ASSUME NEW k \in DOMAIN u PROVE \/ k \in DOMAIN v /\ u[k] = v[k]
                                      \/ k \in DOMAIN w /\ u[k] = w[k]
  BY DEF Over
<1>3. BalanceRow(v) \subseteq BalanceRow(u) /\ BalanceRow(w) \subseteq BalanceRow(u)
  BY <1>1 DEF BalanceRow, IdsOf
<1>4. HasShape(v) /\ HasShape(w) OBVIOUS
<1> HIDE DEF u, v, w
<1>5. HasShape(u)
  <2> SUFFICES ASSUME NEW k \in DOMAIN u
      PROVE  \/ \E p \in Products : k = Product(p) /\ u[k] \in ProductRow
             \/ k = Variant(k[2]) /\ u[k] \in VariantRow
             \/ k = Balance(k[2]) /\ u[k] \in BalanceRow(u)
             \/ \E l \in Range(Lower) : k = Category(l)
    BY DEF HasShape
  <2>1. CASE k \in DOMAIN v /\ u[k] = v[k] BY <2>1, <1>3, <1>4 DEF HasShape
  <2>2. CASE k \in DOMAIN w /\ u[k] = w[k] BY <2>2, <1>3, <1>4 DEF HasShape
  <2> QED BY <2>1, <2>2, <1>2
<1> QED BY <1>5 DEF u, v, w

LEMMA DistinctOver ==
    ASSUME NEW f, NEW g, NEW d, Distinct(Over(f, d)), Distinct(Over(g, d)), Apart(f, g), Apart(g, f)
    PROVE  Distinct(Over(f, Over(g, d)))
<1> DEFINE v == Over(f, d)
           w == Over(g, d)
           u == Over(f, w)
<1>1. ASSUME NEW n, Variant(n) \in DOMAIN u
      PROVE  \/ Variant(n) \in DOMAIN f /\ u[Variant(n)] = f[Variant(n)] /\ v[Variant(n)] = f[Variant(n)]
                /\ Variant(n) \in DOMAIN v
             \/ Variant(n) \in DOMAIN g /\ u[Variant(n)] = g[Variant(n)] /\ w[Variant(n)] = g[Variant(n)]
                /\ Variant(n) \in DOMAIN w
             \/ /\ u[Variant(n)] = d[Variant(n)] /\ v[Variant(n)] = d[Variant(n)] /\ w[Variant(n)] = d[Variant(n)]
                /\ Variant(n) \in DOMAIN v /\ Variant(n) \in DOMAIN w
  BY <1>1 DEF Over
<1> HIDE DEF u, v, w
<1>2. Distinct(v) /\ Distinct(w) BY DEF v, w
<1>3. Distinct(u)
  <2> SUFFICES ASSUME NEW n, NEW m, Variant(n) \in DOMAIN u, Variant(m) \in DOMAIN u,
                      n # m, u[Variant(n)].code # NoCode, u[Variant(n)].code = u[Variant(m)].code
               PROVE  FALSE
    BY DEF Distinct
  <2> QED BY <1>1, <1>2 DEF Distinct, Apart
<1> QED BY <1>3 DEF u, v, w

\* A transaction that has written nothing sees the table.
LEMMA Bare ==
    ASSUME NEW d
    PROVE  /\ HasShape(Over(<<>>, d)) <=> HasShape(d)
           /\ Distinct(Over(<<>>, d)) <=> Distinct(d)
<1> DEFINE v == Over(<<>>, d)
<1>1. DOMAIN v = DOMAIN d /\ \A k \in DOMAIN d : v[k] = d[k] BY NoRows DEF Over
<1> HIDE DEF v
<1>2. IdsOf(v, "variant") = IdsOf(d, "variant") BY <1>1 DEF IdsOf
<1>3. HasShape(v) <=> HasShape(d) BY <1>1, <1>2 DEF HasShape, BalanceRow
<1>4. Distinct(v) <=> Distinct(d) BY <1>1 DEF Distinct
<1> QED BY <1>3, <1>4 DEF v

\* A balance that is written to the table fits under every transaction.
LEMMA BalanceWritten ==
    ASSUME NEW f, NEW d, NEW c, NEW b, HasShape(Over(f, d)), Distinct(Over(f, d)), HasShape(d),
           DOMAIN c = DOMAIN d \cup {Balance(b)},
           \A k \in DOMAIN d : k # Balance(b) => c[k] = d[k],
           c[Balance(b)] \in BalanceRow(d)
    PROVE  HasShape(Over(f, c)) /\ Distinct(Over(f, c))
<1> DEFINE v == Over(f, d)
           u == Over(f, c)
<1>1. DOMAIN u = DOMAIN v \cup {Balance(b)} BY DEF Over
<1>2. ASSUME NEW k \in DOMAIN u, k # Balance(b) PROVE k \in DOMAIN v /\ u[k] = v[k]
  BY <1>2 DEF Over
<1>3. \/ Balance(b) \in DOMAIN v /\ u[Balance(b)] = v[Balance(b)]
      \/ u[Balance(b)] = c[Balance(b)]
  BY DEF Over
<1>4. BalanceRow(v) \subseteq BalanceRow(u) /\ BalanceRow(d) \subseteq BalanceRow(u)
  BY DEF Over, BalanceRow, IdsOf
<1>5. HasShape(v) /\ Distinct(v) OBVIOUS
<1> HIDE DEF u, v
<1>6. HasShape(u)
  <2> SUFFICES ASSUME NEW k \in DOMAIN u
      PROVE  \/ \E p \in Products : k = Product(p) /\ u[k] \in ProductRow
             \/ k = Variant(k[2]) /\ u[k] \in VariantRow
             \/ k = Balance(k[2]) /\ u[k] \in BalanceRow(u)
             \/ \E l \in Range(Lower) : k = Category(l)
    BY DEF HasShape
  <2>1. CASE k # Balance(b) BY <2>1, <1>2, <1>4, <1>5 DEF HasShape
  <2>2. CASE k = Balance(b)
    <3>1. u[Balance(b)] \in BalanceRow(u) BY <1>3, <1>4, <1>5, ShapeOfBalance
    <3>2. Balance(b)[2] = b BY DEF Balance
    <3> QED BY <2>2, <3>1, <3>2
  <2> QED BY <2>1, <2>2
<1>7. \A n : Variant(n) # Balance(b) BY DEF Variant, Balance
<1>8. Distinct(u)
  <2>1. \A n : Variant(n) \in DOMAIN u => Variant(n) \in DOMAIN v /\ u[Variant(n)] = v[Variant(n)]
    BY <1>2, <1>7
  <2> QED BY <2>1, <1>5 DEF Distinct
<1> QED BY <1>6, <1>8 DEF u

(***************************************************************************)
(* One product of a feed                                                   *)
(***************************************************************************)
Written(base, e, to, done, n) == {x \in done : to[x] = n /\ Writes(base, e, to, x)}

LEMMA ElementOf ==
    ASSUME NEW S, NEW s \in Seq(S)
    PROVE  Len(s) \in Nat /\ DOMAIN s = 1 .. Len(s) /\ \A x \in DOMAIN s : s[x] \in S
OBVIOUS

LEMMA EntryIs ==
    ASSUME NEW e \in EntryType
    PROVE  /\ e.product \in Products /\ e.status \in Statuses /\ e.text \in Texts /\ e.cats \subseteq Names
           /\ Len(e.variants) \in Nat /\ DOMAIN e.variants = 1 .. Len(e.variants)
           /\ \A x \in DOMAIN e.variants :
                /\ e.variants[x].ext \in Variants /\ e.variants[x].code \in Codes \cup {NoCode}
                /\ e.variants[x].qty \in Int \cup {NoQty}
<1>1. /\ e.product \in Products /\ e.status \in Statuses /\ e.text \in Texts /\ e.cats \subseteq Names
      /\ e.variants \in Seq([ext : Variants, code : Codes \cup {NoCode}, qty : Int \cup {NoQty}])
  BY DEF EntryType
<1>2. \A x \in DOMAIN e.variants :
         e.variants[x] \in [ext : Variants, code : Codes \cup {NoCode}, qty : Int \cup {NoQty}]
  BY <1>1, ElementOf
<1> QED BY <1>1, <1>2

LEMMA StandingIs ==
    ASSUME NEW base, NEW e, NEW to, NEW done, NEW n
    PROVE  /\ Written(base, e, to, done, n) = {} => Standing(base, e, to, done, n) = base[Variant(n)]
           /\ Written(base, e, to, done, n) # {} =>
                Standing(base, e, to, done, n) = SaveVariant(e, Last(Written(base, e, to, done, n)))
BY DEF Standing, Written

LEMMA LastWritten ==
    ASSUME NEW base, NEW e \in EntryType, NEW to, NEW done, done \subseteq DOMAIN e.variants, NEW n,
           Written(base, e, to, done, n) # {}
    PROVE  LET y == Last(Written(base, e, to, done, n)) IN
           /\ y \in done /\ to[y] = n /\ Writes(base, e, to, y)
           /\ \A x \in Written(base, e, to, done, n) : x <= y
<1>1. Written(base, e, to, done, n) \in SUBSET (1 .. Len(e.variants)) BY EntryIs DEF Written
<1>2. /\ Last(Written(base, e, to, done, n)) \in Written(base, e, to, done, n)
      /\ \A x \in Written(base, e, to, done, n) : x <= Last(Written(base, e, to, done, n))
  BY <1>1, EntryIs, LastIs
<1> QED BY <1>2 DEF Written

\* What stands in a row that was saved is what one of the variants wants there.
LEMMA StandingIsSaved ==
    ASSUME NEW base, NEW e \in EntryType, NEW to, NEW done, done \subseteq DOMAIN e.variants,
           NEW n, n \in {to[x] : x \in done}
    PROVE  \E y \in done : to[y] = n /\ Standing(base, e, to, done, n) = SaveVariant(e, y)
<1>1. CASE Written(base, e, to, done, n) = {}
  <2>1. PICK x \in done : to[x] = n OBVIOUS
  <2>2. ~Writes(base, e, to, x) BY <1>1, <2>1 DEF Written
  <2>3. base[Variant(to[x])] = SaveVariant(e, x) BY <2>2 DEF Writes
  <2> QED BY <1>1, <2>1, <2>3, StandingIs
<1>2. CASE Written(base, e, to, done, n) # {} BY <1>2, StandingIs, LastWritten
<1> QED BY <1>1, <1>2

LEMMA SavedIs ==
    ASSUME NEW base, NEW e, NEW failing, NEW to, NEW saved \in Saved(base, e, failing, to)
    PROVE  /\ saved \subseteq DOMAIN e.variants
           /\ \A x \in saved : ~Refused(base, e, to, saved \cap 1 .. (x - 1), x)
BY DEF Saved

\* A code that was written last was free then, and has been taken by nobody since.
LEMMA CodeWasFree ==
    ASSUME NEW base, NEW e \in EntryType, NEW failing, NEW to, NEW saved \in Saved(base, e, failing, to),
           NEW n, NEW m, n # m,
           Variant(n) \in DOMAIN base \/ n \in {to[x] : x \in saved},
           Written(base, e, to, saved, m) # {},
           \/ Written(base, e, to, saved, n) = {}
           \/ Last(Written(base, e, to, saved, n)) < Last(Written(base, e, to, saved, m)),
           Standing(base, e, to, saved, m).code # NoCode
    PROVE  Standing(base, e, to, saved, n).code # Standing(base, e, to, saved, m).code
<1> DEFINE y == Last(Written(base, e, to, saved, m))
           before == saved \cap 1 .. (y - 1)
<1>1. saved \subseteq DOMAIN e.variants /\ DOMAIN e.variants = 1 .. Len(e.variants) /\ Len(e.variants) \in Nat
  BY SavedIs, EntryIs
<1>2. y \in saved /\ to[y] = m /\ Writes(base, e, to, y) BY <1>1, LastWritten
<1>3. Standing(base, e, to, saved, m) = SaveVariant(e, y) BY StandingIs
<1>4. e.variants[y].code = Standing(base, e, to, saved, m).code BY <1>3 DEF SaveVariant
<1>5. y \in Int BY <1>1, <1>2
<1> HIDE DEF y
<1>6. Written(base, e, to, before, n) = Written(base, e, to, saved, n)
  <2>1. CASE Written(base, e, to, saved, n) = {} BY <2>1 DEF Written
  <2>2. CASE Written(base, e, to, saved, n) # {}
    <3>1. Last(Written(base, e, to, saved, n)) < y BY <2>2 DEF y
    <3>2. \A x \in Written(base, e, to, saved, n) : x <= Last(Written(base, e, to, saved, n))
      BY <1>1, <2>2, LastWritten
    <3>3. Last(Written(base, e, to, saved, n)) \in saved BY <1>1, <2>2, LastWritten
    <3>4. \A x \in saved : x \in Nat /\ 1 <= x BY <1>1
    <3>5. ASSUME NEW x \in Written(base, e, to, saved, n) PROVE x \in saved /\ x < y
      <4>1. x \in saved BY DEF Written
      <4>2. \A k, l \in Int : k <= l /\ l < y => k < y BY <1>5
      <4> QED BY <3>1, <3>2, <3>3, <3>4, <4>1, <4>2
    <3>6. \A x \in Written(base, e, to, saved, n) : x \in before BY <3>4, <3>5, <1>5
    <3> QED BY <3>6 DEF Written
  <2> QED BY <2>1, <2>2
<1>7. Standing(base, e, to, before, n) = Standing(base, e, to, saved, n)
  BY <1>6 DEF Standing, Written
<1>8. n \in (IdsOf(base, "variant") \cup {to[x] : x \in before}) \ {m}
  <2>1. CASE Written(base, e, to, saved, n) = {}
    <3>1. ASSUME NEW x \in saved, to[x] = n PROVE Variant(n) \in DOMAIN base
      BY <2>1, <3>1 DEF Written, Writes
    <3> QED BY <3>1, KeyOf
  <2>2. CASE Written(base, e, to, saved, n) # {}
    <3>1. Last(Written(base, e, to, before, n)) \in before /\ to[Last(Written(base, e, to, before, n))] = n
      BY <1>1, <1>6, <2>2, LastWritten
    <3> QED BY <3>1
  <2> QED BY <2>1, <2>2
<1>9. ~Refused(base, e, to, before, y) BY <1>2, SavedIs
<1> HIDE DEF before
<1> QED BY <1>2, <1>4, <1>7, <1>8, <1>9 DEF Refused

LEMMA VariantRowsFit ==
    ASSUME NEW base, NEW e \in EntryType, NEW failing, NEW to, NEW saved \in Saved(base, e, failing, to),
           NEW k \in DOMAIN VariantRows(base, e, to, saved)
    PROVE  \E y \in saved : /\ k = Variant(to[y])
                            /\ VariantRows(base, e, to, saved)[k] = SaveVariant(e, y)
<1>1. PICK x \in saved : k = Variant(to[x]) BY DEF VariantRows
<1>2. k[2] = to[x] BY <1>1 DEF Variant
<1>3. VariantRows(base, e, to, saved)[k] = Standing(base, e, to, saved, to[x])
  BY <1>2 DEF VariantRows
<1>4. saved \subseteq DOMAIN e.variants BY SavedIs
<1>5. PICK y \in saved : to[y] = to[x] /\ Standing(base, e, to, saved, to[x]) = SaveVariant(e, y)
  <2>1. to[x] \in {to[z] : z \in saved} OBVIOUS
  <2> QED BY <2>1, <1>4, StandingIsSaved
<1> QED BY <1>1, <1>3, <1>5

\* Bar codes stay apart: of two rows the one that was written last was refused otherwise.
LEMMA CodesStayDistinct ==
    ASSUME NEW base, Distinct(base),
           NEW e \in EntryType, NEW failing, NEW to, NEW saved \in Saved(base, e, failing, to)
    PROVE  Distinct(Over(VariantRows(base, e, to, saved), base))
<1> DEFINE rows == VariantRows(base, e, to, saved)
           u == Over(rows, base)
           S(n) == Standing(base, e, to, saved, n)
           W(n) == Written(base, e, to, saved, n)
           Known(n) == Variant(n) \in DOMAIN base \/ n \in {to[x] : x \in saved}
<1>0. saved \subseteq DOMAIN e.variants /\ DOMAIN e.variants = 1 .. Len(e.variants) /\ Len(e.variants) \in Nat
  BY SavedIs, EntryIs
<1>1. ASSUME NEW n, Variant(n) \in DOMAIN u PROVE Known(n) /\ u[Variant(n)] = S(n)
  <2>1. CASE Variant(n) \in DOMAIN rows
    <3>1. u[Variant(n)] = rows[Variant(n)] BY <2>1 DEF Over
    <3>2. \E x \in saved : Variant(n) = Variant(to[x]) BY <2>1 DEF VariantRows
    <3>3. n \in {to[x] : x \in saved} BY <3>2 DEF Variant
    <3>4. Variant(n)[2] = n BY DEF Variant
    <3>5. rows[Variant(n)] = S(n) BY <2>1, <3>4 DEF VariantRows
    <3> QED BY <3>1, <3>3, <3>5
  <2>2. CASE Variant(n) \notin DOMAIN rows
    <3>1. u[Variant(n)] = base[Variant(n)] /\ Variant(n) \in DOMAIN base BY <1>1, <2>2 DEF Over
    <3>2. \A x \in saved : to[x] # n BY <2>2 DEF VariantRows
    <3>3. W(n) = {} BY <3>2 DEF Written
    <3> QED BY <3>1, <3>3, StandingIs
  <2> QED BY <2>1, <2>2
<1>2. ASSUME NEW n, W(n) # {} PROVE Last(W(n)) \in saved /\ to[Last(W(n))] = n
  BY <1>0, <1>2, LastWritten
<1>3. SUFFICES ASSUME NEW n, NEW m, Variant(n) \in DOMAIN u, Variant(m) \in DOMAIN u, n # m,
                      u[Variant(n)].code # NoCode, u[Variant(n)].code = u[Variant(m)].code
               PROVE  FALSE
  BY DEF Distinct
<1>4. Known(n) /\ Known(m) /\ S(n).code = S(m).code /\ S(n).code # NoCode BY <1>1, <1>3
<1>5. CASE W(n) = {} /\ W(m) = {}
  <2>1. S(n) = base[Variant(n)] /\ S(m) = base[Variant(m)] BY <1>5, StandingIs
  <2>2. ASSUME NEW k, W(k) = {}, Known(k) PROVE Variant(k) \in DOMAIN base
    BY <2>2 DEF Written, Writes
  <2> QED BY <1>3, <1>4, <1>5, <2>1, <2>2 DEF Distinct
<1>6. CASE W(m) # {} /\ (W(n) = {} \/ Last(W(n)) < Last(W(m)))
  <2>1. S(n).code # S(m).code BY <1>3, <1>4, <1>6, CodeWasFree
  <2> QED BY <2>1, <1>4
<1>7. CASE W(n) # {} /\ (W(m) = {} \/ Last(W(m)) < Last(W(n)))
  <2>1. S(m).code # S(n).code BY <1>3, <1>4, <1>7, CodeWasFree
  <2> QED BY <2>1, <1>4
<1>8. CASE W(n) # {} /\ W(m) # {}
  <2>1. Last(W(n)) \in Int /\ Last(W(m)) \in Int BY <1>0, <1>2, <1>8
  <2>2. Last(W(n)) # Last(W(m)) BY <1>2, <1>3, <1>8
  <2> HIDE DEF W
  <2>3. Last(W(n)) < Last(W(m)) \/ Last(W(m)) < Last(W(n)) BY <2>1, <2>2
  <2> QED BY <2>3, <1>6, <1>7, <1>8
<1> HIDE DEF W
<1> QED BY <1>5, <1>6, <1>7, <1>8

LEMMA StockRowsFit ==
    ASSUME NEW base, NEW view, NEW e \in EntryType, NEW new,
           NEW of \in Homes(view, e), NEW in \in Balances(base, of, new)
    PROVE  \A k \in DOMAIN StockRows(base, e, of, in) :
             /\ k = Balance(k[2]) /\ StockRows(base, e, of, in)[k] \in BalanceRow(view)
             /\ \E x \in DOMAIN of :
                   /\ in[x] = k[2]
                   /\ StockRows(base, e, of, in)[k] = [of |-> of[x], qty |-> Clamped(e.variants[x].qty)]
<1> TAKE k \in DOMAIN StockRows(base, e, of, in)
<1> DEFINE T == {y \in DOMAIN of : in[y] = k[2]}
<1>1. DOMAIN of \subseteq 1 .. Len(e.variants) /\ Len(e.variants) \in Nat
      /\ \A x \in DOMAIN of : of[x] \in IdsOf(view, "variant") /\ e.variants[x].qty \in Int
  BY EntryIs DEF Homes, Stocked
<1>2. PICK z \in DOMAIN of : k = Balance(in[z]) BY DEF StockRows
<1>3. k[2] = in[z] /\ k = Balance(k[2]) BY <1>2 DEF Balance
<1>4. Last(T) \in T
  <2>1. T \in SUBSET (1 .. Len(e.variants)) /\ T # {} BY <1>1, <1>3
  <2> HIDE DEF T
  <2> QED BY <2>1, <1>1, LastIs
<1>5. StockRows(base, e, of, in)[k] = [of |-> of[Last(T)], qty |-> Clamped(e.variants[Last(T)].qty)]
  BY DEF StockRows
<1>6. Last(T) \in DOMAIN of /\ in[Last(T)] = k[2] BY <1>4
<1>7. Clamped(e.variants[Last(T)].qty) \in Nat BY <1>1, <1>6 DEF Clamped
<1>8. StockRows(base, e, of, in)[k] \in BalanceRow(view) BY <1>1, <1>5, <1>6, <1>7 DEF BalanceRow
<1> QED BY <1>3, <1>5, <1>6, <1>8

BaseRows(base, e, found, to, saved) ==
    Over(ProductRows(base, e, found), VariantRows(base, e, to, saved))

\* How an outcome comes about.
LEMMA OutcomeIs ==
    ASSUME NEW i, NEW failing, NEW o \in Outcomes(i, failing)
    PROVE  \E to \in Targets(View(i), Entry(i), NewRows(i)) :
           \E saved \in Saved(View(i), Entry(i), failing, to) :
           LET rows == BaseRows(View(i), Entry(i), loaded[i][Entry(i).product], to, saved) IN
           \E of \in Homes(Over(rows, View(i)), Entry(i)) :
           \E in \in Balances(View(i), of, NewRows(i)) :
              /\ o.saved = saved
              /\ o.rows = Over(StockRows(View(i), Entry(i), of, in), rows)
<1> DEFINE e == Entry(i)
           new == NewRows(i)
           Rows(to, saved) == BaseRows(View(i), e, loaded[i][e.product], to, saved)
           With(to, saved, view) ==
             {[saved |-> saved, rows |-> Over(StockRows(View(i), e, put[1], put[2]), Rows(to, saved))] :
                put \in UNION {{of} \X Balances(View(i), of, new) : of \in Homes(view, e)}}
<1>1. o \in UNION {UNION {With(to, saved, Over(Rows(to, saved), View(i))) :
                           saved \in Saved(View(i), e, failing, to)} : to \in Targets(View(i), e, new)}
  BY DEF Outcomes, BaseRows
<1> HIDE DEF With
<1>2. PICK to \in Targets(View(i), e, new) :
        \E saved \in Saved(View(i), e, failing, to) : o \in With(to, saved, Over(Rows(to, saved), View(i)))
  BY <1>1
<1>3. PICK saved \in Saved(View(i), e, failing, to) : o \in With(to, saved, Over(Rows(to, saved), View(i)))
  BY <1>2
<1> DEFINE view == Over(Rows(to, saved), View(i))
<1> HIDE DEF Rows, view
<1>4. PICK put \in UNION {{of} \X Balances(View(i), of, new) : of \in Homes(view, e)} :
        o = [saved |-> saved, rows |-> Over(StockRows(View(i), e, put[1], put[2]), Rows(to, saved))]
  BY <1>3 DEF With, view
<1>5. put[1] \in Homes(view, e) /\ put[2] \in Balances(View(i), put[1], new) BY <1>4
<1>6. o.saved = saved /\ o.rows = Over(StockRows(View(i), e, put[1], put[2]), Rows(to, saved)) BY <1>4
<1> QED BY <1>2, <1>5, <1>6 DEF Rows, view

LEMMA ProductRowFits ==
    ASSUME NEW base, HasShape(base), NEW e \in EntryType, NEW found,
           found # NoRow => Product(e.product) \in DOMAIN base
    PROVE  /\ DOMAIN ProductRows(base, e, found) = {Product(e.product)}
           /\ ProductRows(base, e, found)[Product(e.product)] \in ProductRow
<1>1. SaveProduct(base, e, found) \in ProductRow
  <2>1. LowerOf(e.cats) \in SUBSET Range(Lower)
    BY EntryIs, CatalogAssumption DEF LowerOf, Range
  <2>2. e.status \in Statuses /\ e.text \in Texts BY EntryIs
  <2>3. CASE found = NoRow \/ found.status # e.status \/ found.text # e.text
    BY <2>1, <2>2, <2>3 DEF SaveProduct, ProductRow
  <2>4. CASE ~(found = NoRow \/ found.status # e.status \/ found.text # e.text)
    <3>1. base[Product(e.product)] \in ProductRow BY <2>4, ShapeOfProduct
    <3>2. base[Product(e.product)].status \in Statuses /\ base[Product(e.product)].text \in Texts
      BY <3>1 DEF ProductRow
    <3> QED BY <2>1, <2>4, <3>2 DEF SaveProduct, ProductRow
  <2> QED BY <2>3, <2>4
<1> QED BY <1>1 DEF ProductRows

\* The rows an outcome writes, over those of the table: they have their shape, keep the
\* bar codes distinct, and bring no bar code the entry does not name.
LEMMA RowsFit ==
    ASSUME NEW base, HasShape(base), Distinct(base), NEW e \in EntryType, NEW found,
           found # NoRow => Product(e.product) \in DOMAIN base,
           NEW failing, NEW to, NEW saved \in Saved(base, e, failing, to)
    PROVE  LET rows == BaseRows(base, e, found, to, saved) IN
           /\ HasShape(Over(rows, base)) /\ Distinct(Over(rows, base))
           /\ \A n : /\ Balance(n) \notin DOMAIN rows
                     /\ Variant(n) \in DOMAIN rows =>
                          \E x \in DOMAIN e.variants : rows[Variant(n)] = SaveVariant(e, x)
<1> DEFINE product == ProductRows(base, e, found)
           variants == VariantRows(base, e, to, saved)
           rows == Over(product, variants)
           u == Over(rows, base)
           P == Product(e.product)
<1>1. DOMAIN product = {P} /\ product[P] \in ProductRow BY ProductRowFits
<1>2. \A k \in DOMAIN variants : \E y \in saved : k = Variant(to[y]) /\ variants[k] = SaveVariant(e, y)
  BY VariantRowsFit
<1>3. saved \subseteq DOMAIN e.variants BY SavedIs
<1>4. Distinct(Over(variants, base)) BY CodesStayDistinct
<1>5. \A n, p : Variant(n) # Product(p) /\ Variant(n) # Balance(n) /\ Balance(n) # Product(p)
  BY DEF Variant, Product, Balance
<1>6. e.product \in Products BY EntryIs
<1>7. \A x \in DOMAIN e.variants : SaveVariant(e, x) \in VariantRow BY EntryIs DEF SaveVariant, VariantRow
<1> HIDE DEF product, variants
<1>8. \A n : /\ Balance(n) \notin DOMAIN rows
             /\ Variant(n) \in DOMAIN rows => \E x \in DOMAIN e.variants : rows[Variant(n)] = SaveVariant(e, x)
  <2> TAKE n
  <2>1. Balance(n) \notin DOMAIN variants BY <1>2 DEF Balance, Variant
  <2>2. Balance(n) \notin DOMAIN rows BY <1>1, <1>5, <2>1 DEF Over
  <2>3. ASSUME Variant(n) \in DOMAIN rows PROVE \E x \in DOMAIN e.variants : rows[Variant(n)] = SaveVariant(e, x)
    <3>1. Variant(n) \notin DOMAIN product BY <1>1, <1>5
    <3>2. Variant(n) \in DOMAIN variants /\ rows[Variant(n)] = variants[Variant(n)] BY <2>3, <3>1 DEF Over
    <3> QED BY <3>2, <1>2, <1>3
  <2> QED BY <2>2, <2>3
<1>9. Distinct(u)
  <2> DEFINE w == Over(variants, base)
  <2>1. ASSUME NEW n, Variant(n) \in DOMAIN u PROVE Variant(n) \in DOMAIN w /\ u[Variant(n)] = w[Variant(n)]
    <3>1. Variant(n) \notin DOMAIN product BY <1>1, <1>5
    <3> QED BY <2>1, <3>1 DEF Over
  <2> HIDE DEF w, u
  <2>2. Distinct(w) BY <1>4 DEF w
  <2> QED BY <2>1, <2>2 DEF Distinct
<1>10. HasShape(u)
  <2>1. DOMAIN base \subseteq DOMAIN u BY DEF Over
  <2>2. BalanceRow(base) \subseteq BalanceRow(u) BY <2>1 DEF BalanceRow, IdsOf
  <2>3. ASSUME NEW k \in DOMAIN u
        PROVE  \/ k = P /\ u[k] = product[P]
               \/ k \in DOMAIN variants /\ u[k] = variants[k]
               \/ k \in DOMAIN base /\ u[k] = base[k]
    BY <1>1, <2>3 DEF Over
  <2> HIDE DEF u
  <2> SUFFICES ASSUME NEW k \in DOMAIN u
      PROVE  \/ \E p \in Products : k = Product(p) /\ u[k] \in ProductRow
             \/ k = Variant(k[2]) /\ u[k] \in VariantRow
             \/ k = Balance(k[2]) /\ u[k] \in BalanceRow(u)
             \/ \E l \in Range(Lower) : k = Category(l)
    BY DEF HasShape
  <2>4. CASE k = P /\ u[k] = product[P] BY <2>4, <1>1, <1>6
  <2>5. CASE k \in DOMAIN variants /\ u[k] = variants[k]
    <3>1. PICK y \in saved : k = Variant(to[y]) /\ variants[k] = SaveVariant(e, y) BY <2>5, <1>2
    <3>2. k = Variant(k[2]) BY <3>1 DEF Variant
    <3> QED BY <2>5, <3>1, <3>2, <1>3, <1>7
  <2>6. CASE k \in DOMAIN base /\ u[k] = base[k] BY <2>6, <2>2 DEF HasShape
  <2> QED BY <2>3, <2>4, <2>5, <2>6
<1> QED BY <1>8, <1>9, <1>10 DEF BaseRows, product, variants

LEMMA OutcomeFits ==
    ASSUME NEW i, HasShape(View(i)), Distinct(View(i)), Entry(i) \in EntryType,
           loaded[i][Entry(i).product] # NoRow => Product(Entry(i).product) \in DOMAIN View(i),
           NEW failing, NEW o \in Outcomes(i, failing)
    PROVE  /\ HasShape(Over(o.rows, View(i))) /\ Distinct(Over(o.rows, View(i)))
           /\ \A n : Variant(n) \in DOMAIN o.rows =>
                \E x \in DOMAIN Entry(i).variants : o.rows[Variant(n)] = SaveVariant(Entry(i), x)
<1> DEFINE e == Entry(i)
           base == View(i)
           found == loaded[i][e.product]
<1>1. PICK to \in Targets(base, e, NewRows(i)) :
        \E saved \in Saved(base, e, failing, to) :
           LET rows == BaseRows(base, e, found, to, saved) IN
           \E of \in Homes(Over(rows, base), e) : \E in \in Balances(base, of, NewRows(i)) :
              /\ o.saved = saved
              /\ o.rows = Over(StockRows(base, e, of, in), rows)
  BY OutcomeIs
<1>2. PICK saved \in Saved(base, e, failing, to) :
           LET rows == BaseRows(base, e, found, to, saved) IN
           \E of \in Homes(Over(rows, base), e) : \E in \in Balances(base, of, NewRows(i)) :
              /\ o.saved = saved
              /\ o.rows = Over(StockRows(base, e, of, in), rows)
  BY <1>1
<1> DEFINE rows == BaseRows(base, e, found, to, saved)
           w == Over(rows, base)
<1>3. PICK of \in Homes(w, e) : \E in \in Balances(base, of, NewRows(i)) :
              o.rows = Over(StockRows(base, e, of, in), rows)
  BY <1>2
<1>4. PICK in \in Balances(base, of, NewRows(i)) : o.rows = Over(StockRows(base, e, of, in), rows)
  BY <1>3
<1> DEFINE stock == StockRows(base, e, of, in)
           u == Over(o.rows, base)
<1>5. e \in EntryType /\ HasShape(base) /\ Distinct(base)
      /\ (found # NoRow => Product(e.product) \in DOMAIN base)
  OBVIOUS
<1> HIDE DEF e, base, found
<1>6. HasShape(w) /\ Distinct(w)
      /\ \A n : Variant(n) \in DOMAIN rows => \E x \in DOMAIN e.variants : rows[Variant(n)] = SaveVariant(e, x)
  BY <1>5, RowsFit
<1> HIDE DEF w
<1>7. \A k \in DOMAIN stock : k = Balance(k[2]) /\ stock[k] \in BalanceRow(w)
  BY <1>5, StockRowsFit
<1> HIDE DEF stock, rows
<1>8. \A n : Variant(n) \notin DOMAIN stock BY <1>7 DEF Variant, Balance
<1>9. \A n : Variant(n) \in DOMAIN o.rows => Variant(n) \in DOMAIN rows /\ o.rows[Variant(n)] = rows[Variant(n)]
  BY <1>4, <1>8 DEF Over, stock
<1>10. DOMAIN u = DOMAIN stock \cup DOMAIN w
       /\ \A k \in DOMAIN u : u[k] = IF k \in DOMAIN stock THEN stock[k] ELSE w[k]
  BY <1>4 DEF Over, stock, w
<1> HIDE DEF u
<1>11. Distinct(u)
  <2>1. \A n : Variant(n) \in DOMAIN u => Variant(n) \in DOMAIN w /\ u[Variant(n)] = w[Variant(n)]
    BY <1>8, <1>10
  <2> QED BY <2>1, <1>6 DEF Distinct
<1>12. HasShape(u)
  <2>1. BalanceRow(w) \subseteq BalanceRow(u) BY <1>10 DEF BalanceRow, IdsOf
  <2> SUFFICES ASSUME NEW k \in DOMAIN u
      PROVE  \/ \E p \in Products : k = Product(p) /\ u[k] \in ProductRow
             \/ k = Variant(k[2]) /\ u[k] \in VariantRow
             \/ k = Balance(k[2]) /\ u[k] \in BalanceRow(u)
             \/ \E l \in Range(Lower) : k = Category(l)
    BY DEF HasShape
  <2>2. CASE k \in DOMAIN stock BY <2>1, <2>2, <1>7, <1>10
  <2>3. CASE k \notin DOMAIN stock BY <2>1, <2>3, <1>6, <1>10 DEF HasShape
  <2> QED BY <2>2, <2>3
<1> QED BY <1>6, <1>9, <1>11, <1>12 DEF u, w, e, base

(***************************************************************************)
(* Where a request is, and what its job says                               *)
(***************************************************************************)
ImportPlaces ==
    {"idle", "queued", "begin", "categories", "entry", "archive", "commit", "reporting", "failing", "over"}
StockPlaces ==
    {"idle", "queued", "begin", "look", "insert", "update", "reporting", "failing", "over"}
JobStatuses == {"none", "queued", "running", "success", "failed"}

PcOK ==
    /\ pc \in [Requests -> ImportPlaces \cup StockPlaces]
    /\ \A i \in Imports : pc[i] \in ImportPlaces
    /\ \A s \in Stocks : pc[s] \in StockPlaces

\* What the place of an import says of its job and of the database.
Told(i) ==
    /\ pc[i] \in {"idle", "queued"} => i \notin committed \cup unheard /\ job[i] \in {"none", "queued"}
    /\ pc[i] \in {"begin", "categories", "entry", "archive", "commit"} =>
         i \notin committed \cup unheard /\ job[i] = "running"
    /\ pc[i] = "reporting" => i \in committed /\ job[i] = "running"
    /\ pc[i] = "failing" => (i \in committed => i \in unheard) /\ job[i] = "running"
    /\ job[i] = "success" => i \in committed
    /\ job[i] = "failed" => i \notin committed \ unheard

JobsOK == job \in [Requests -> JobStatuses] /\ \A i \in Imports : Told(i)

LEMMA TwoKinds == Imports \cap Stocks = {}
BY CatalogAssumption

LEMMA PlacesStep ==
    ASSUME PcOK, [Next]_vars
    PROVE  PcOK'
<1> USE TwoKinds DEF PcOK, ImportPlaces, StockPlaces, Requests
<1>1. ASSUME NEW r \in Requests, NEW where \in ImportPlaces \cup StockPlaces, Goes(r, where),
             r \in Imports => where \in ImportPlaces, r \in Stocks => where \in StockPlaces
      PROVE  PcOK'
  BY <1>1 DEF Goes
<1>2. CASE UNCHANGED vars BY <1>2 DEF vars
<1>3. CASE \E r \in Requests, f \in Feeds \cup Lists : Request(r, f) BY <1>1, <1>3 DEF Request
<1>4. CASE \E r \in Requests : Jobs(r) \/ MarkRunningFails(r) \/ MarkDoneFails(r) \/ MarkFailedFails(r)
  BY <1>1, <1>4 DEF Jobs, MarkJobRunning, MarkJobDone, MarkJobFailed, MarkRunningFails, MarkDoneFails,
     MarkFailedFails
<1>5. ASSUME NEW i \in Imports, Import(i) \/ Fails(i) PROVE PcOK'
  <2>1. ASSUME NextEntry(i) PROVE PcOK' BY <1>1, <2>1 DEF NextEntry
  <2>2. CASE FindCategories(i) \/ SaveCategories(i) \/ Archive(i) \/ Commit(i) \/ CommitUnheard(i)
    BY <1>1, <2>2 DEF FindCategories, SaveCategories, Archive, Commit, CommitUnheard
  <2>3. CASE TransactionFails(i) BY <1>1, <2>3 DEF TransactionFails
  <2>4. CASE EntryFails(i) BY <2>1, <2>4 DEF EntryFails
  <2>5. CASE \E F : SaveNextEntry(i, F) BY <2>1, <2>5 DEF SaveNextEntry
  <2> QED BY <1>5, <2>2, <2>3, <2>4, <2>5 DEF Import, Fails, DeadlockFailsEntry, DeadlockFailsAll
<1>6. ASSUME NEW s \in Stocks, Stock(s) \/ StockItemFails(s) PROVE PcOK'
  <2>1. ASSUME NextItem(s) PROVE PcOK' BY <1>1, <2>1 DEF NextItem
  <2> QED BY <1>1, <1>6, <2>1 DEF Stock, StockFinds, StockSkips, StockLooks, StockWrites, StockItemFails
<1>7. CASE Crash BY <1>7 DEF Crash
<1> QED BY <1>2, <1>3, <1>4, <1>5, <1>6, <1>7 DEF Next

LEMMA JobsInit == Init => PcOK /\ JobsOK
BY DEF Init, PcOK, JobsOK, Told, JobStatuses, ImportPlaces, StockPlaces, Requests

\* Only requests outside a transaction, and the two ends of one, say anything of a job.
LEMMA JobsStep ==
    ASSUME PcOK, JobsOK, [Next]_vars
    PROVE  JobsOK'
<1> USE TwoKinds DEF PcOK, Requests
<1>1. ASSUME NEW r \in Requests, NEW where, Goes(r, where), UNCHANGED <<jobVars, committed>>,
             r \in Imports =>
               \/ /\ pc[r] \in {"begin", "categories", "entry", "archive", "commit"}
                  /\ where \in {"begin", "categories", "entry", "archive", "commit", "failing"}
               \/ where = "over"
      PROVE  JobsOK'
  <2>1. \A i \in Imports : i # r => Told(i)' BY <1>1 DEF Goes, JobsOK, Told, jobVars
  <2>2. ASSUME r \in Imports PROVE Told(r)'
    <3>1. Told(r) BY <2>2 DEF JobsOK
    <3>2. pc'[r] = where BY <1>1 DEF Goes
    <3> QED BY <1>1, <2>2, <3>1, <3>2 DEF Told, jobVars
  <2> QED BY <1>1, <2>1, <2>2 DEF JobsOK, jobVars
<1>2. CASE UNCHANGED vars BY <1>2 DEF vars, jobVars, histVars, JobsOK, Told
<1>3. ASSUME NEW r \in Requests, NEW where, Goes(r, where),
             NEW status \in JobStatuses, Sets(r, status), UNCHANGED <<unheard, committed>>,
             r \in Imports =>
               \/ pc[r] = "idle" /\ where = "queued" /\ status = "queued"
               \/ pc[r] = "queued" /\ where = "begin" /\ status = "running"
               \/ pc[r] = "reporting" /\ where = "over" /\ status = "success"
               \/ pc[r] = "failing" /\ where = "over" /\ status = "failed"
      PROVE  JobsOK'
  <2>1. \A i \in Imports : i # r => Told(i)' BY <1>3 DEF Goes, Sets, JobsOK, Told
  <2>2. ASSUME r \in Imports PROVE Told(r)'
    <3>1. Told(r) BY <2>2 DEF JobsOK
    <3>2. pc'[r] = where /\ job'[r] = status BY <1>3 DEF Goes, Sets, JobsOK
    <3> QED BY <1>3, <2>2, <3>1, <3>2 DEF Told
  <2>3. job' \in [Requests -> JobStatuses] BY <1>3 DEF Sets, JobsOK
  <2> QED BY <2>1, <2>2, <2>3 DEF JobsOK
<1>4. CASE \E r \in Requests, f \in Feeds \cup Lists : Request(r, f)
  BY <1>3, <1>4 DEF Request, histVars, JobStatuses
<1>5. ASSUME NEW r \in Requests, Jobs(r) \/ MarkRunningFails(r) \/ MarkDoneFails(r) \/ MarkFailedFails(r)
      PROVE  JobsOK'
  <2>1. CASE MarkJobRunning(r) BY <1>3, <2>1 DEF MarkJobRunning, JobStatuses
  <2>2. CASE MarkJobDone(r) BY <1>3, <2>2 DEF MarkJobDone, JobStatuses, histVars
  <2>3. CASE MarkJobFailed(r) BY <1>3, <2>3 DEF MarkJobFailed, JobStatuses, histVars
  <2>4. CASE MarkRunningFails(r) BY <1>1, <2>4 DEF MarkRunningFails, histVars
  <2>5. CASE MarkFailedFails(r) BY <1>1, <2>5 DEF MarkFailedFails, histVars
  <2>6. CASE MarkDoneFails(r)
    BY <2>6 DEF MarkDoneFails, JobsOK, Told, Goes, histVars
  <2> QED BY <1>5, <2>1, <2>2, <2>3, <2>4, <2>5, <2>6 DEF Jobs
<1>6. ASSUME NEW i \in Imports, Import(i) \/ Fails(i) PROVE JobsOK'
  <2>1. CASE FindCategories(i) BY <1>1, <2>1 DEF FindCategories, histVars
  <2>2. CASE SaveCategories(i) BY <1>1, <2>2 DEF SaveCategories, histVars
  <2>3. CASE TransactionFails(i) BY <1>1, <2>3 DEF TransactionFails, InTransaction, histVars
  <2>4. CASE EntryFails(i) BY <1>1, <2>4 DEF EntryFails, NextEntry, histVars
  <2>5. CASE \E F : SaveNextEntry(i, F) BY <1>1, <2>5 DEF SaveNextEntry, NextEntry, histVars
  <2>6. CASE Archive(i) BY <1>1, <2>6 DEF Archive, histVars
  <2>7. CASE Commit(i) BY <2>7 DEF Commit, Committed, Goes, JobsOK, Told
  <2>8. CASE CommitUnheard(i) BY <2>8 DEF CommitUnheard, Committed, Goes, JobsOK, Told
  <2> QED BY <1>6, <2>1, <2>2, <2>3, <2>4, <2>5, <2>6, <2>7, <2>8
      DEF Import, Fails, DeadlockFailsEntry, DeadlockFailsAll
<1>7. ASSUME NEW s \in Stocks, Stock(s) \/ StockItemFails(s) PROVE JobsOK'
  <2>1. UNCHANGED <<jobVars, committed>>
    BY <1>7 DEF Stock, StockFinds, StockSkips, StockLooks, StockWrites, StockItemFails, histVars
  <2>2. \E where : Goes(s, where)
    BY <1>7 DEF Stock, StockFinds, StockSkips, StockLooks, StockWrites, StockItemFails, NextItem
  <2> QED BY <1>1, <2>1, <2>2
<1>8. CASE Crash BY <1>8 DEF Crash, JobsOK, Told, jobVars, histVars
<1> QED BY <1>2, <1>4, <1>5, <1>6, <1>7, <1>8 DEF Next

\* A job that is reported done is committed, and one reported failed is not, unless the
\* answer of the commit or the statement that says so was lost.
THEOREM JobsTellTheTruth == Spec => []JobTellsTheTruth
<1>1. Init => PcOK /\ JobsOK BY JobsInit
<1>2. PcOK /\ JobsOK /\ [Next]_vars => (PcOK /\ JobsOK)' BY PlacesStep, JobsStep
<1>3. PcOK /\ JobsOK => JobTellsTheTruth BY DEF JobsOK, Told, JobTellsTheTruth
<1> QED BY <1>1, <1>2, <1>3, PTL DEF Spec

(***************************************************************************)
(* Where a request is in what it brought                                   *)
(***************************************************************************)
FeedsOK ==
    /\ DOMAIN feed = Requests /\ DOMAIN at = Requests
    /\ \A i \in Imports : feed[i] \in Seq(EntryType)
    /\ \A s \in Stocks : feed[s] \in Seq(ItemType)

AtOK ==
    \A r \in Requests :
        IF pc[r] \in {"entry", "look", "insert", "update"} \/ (r \in Stocks /\ pc[r] = "begin")
        THEN at[r] \in 1 .. Len(feed[r])
        ELSE at[r] = 1

LEMMA FeedsStep ==
    ASSUME FeedsOK, [Next]_vars
    PROVE  FeedsOK'
<1> USE TwoKinds DEF FeedsOK, Requests
<1>1. CASE UNCHANGED vars BY <1>1 DEF vars, txVars
<1>2. CASE \E r \in Requests, f \in Feeds \cup Lists : Request(r, f)
  BY <1>2, FeedsAssumption DEF Request, EntryType, ItemType, txVars
<1>3. ASSUME NEW r \in Requests, Jobs(r) \/ MarkRunningFails(r) \/ MarkDoneFails(r) \/ MarkFailedFails(r)
      PROVE  FeedsOK'
  BY <1>3 DEF Jobs, MarkJobRunning, MarkJobDone, MarkJobFailed, MarkRunningFails, MarkDoneFails,
     MarkFailedFails, txVars
<1>4. ASSUME NEW i \in Imports, Import(i) \/ Fails(i) PROVE FeedsOK'
  BY <1>4 DEF Import, Fails, DeadlockFailsEntry, DeadlockFailsAll, FindCategories, SaveCategories,
     TransactionFails, EntryFails, SaveNextEntry, NextEntry, Archive, Commit, CommitUnheard, Committed
<1>5. ASSUME NEW s \in Stocks, Stock(s) \/ StockItemFails(s) PROVE FeedsOK'
  BY <1>5 DEF Stock, StockFinds, StockSkips, StockLooks, StockWrites, StockItemFails, NextItem, txVars
<1>6. CASE Crash BY <1>6 DEF Crash
<1> QED BY <1>1, <1>2, <1>3, <1>4, <1>5, <1>6 DEF Next

LEMMA AtStep ==
    ASSUME PcOK, FeedsOK, AtOK, [Next]_vars
    PROVE  AtOK'
<1> USE TwoKinds DEF PcOK, FeedsOK, Requests
<1>l. \A r \in Requests : Len(feed[r]) \in Nat /\ (feed[r] # <<>> => 1 \in 1 .. Len(feed[r]))
  <2> SUFFICES ASSUME NEW r \in Requests, NEW S, feed[r] \in Seq(S)
               PROVE  Len(feed[r]) \in Nat /\ (feed[r] # <<>> => 1 \in 1 .. Len(feed[r]))
    OBVIOUS
  <2> QED OBVIOUS
\* One request moves, and either stays outside its feed or enters it at the first entry.
<1>1. ASSUME NEW r \in Requests, NEW where, Goes(r, where), UNCHANGED <<at, feed>>,
             IF pc[r] \in {"entry", "look", "insert", "update"} \/ (r \in Stocks /\ pc[r] = "begin")
             THEN where \in {"look", "insert", "update"}
             ELSE \/ where \notin {"begin", "entry", "look", "insert", "update"}
                  \/ r \in Imports /\ where = "begin"
                  \/ feed[r] # <<>> /\ where \in {"begin", "entry"}
      PROVE  AtOK'
  <2>1. \A q \in Requests : q # r => pc'[q] = pc[q] BY <1>1 DEF Goes
  <2>2. pc'[r] = where BY <1>1 DEF Goes
  <2> QED BY <1>1, <1>l, <2>1, <2>2 DEF AtOK
\* One request goes on to its next entry or item.
<1>2. ASSUME NEW r \in Requests, NEW inside, NEW outside, UNCHANGED feed, at[r] \in 1 .. Len(feed[r]),
             IF at[r] < Len(feed[r]) THEN at' = [at EXCEPT ![r] = @ + 1] /\ Goes(r, inside)
                                     ELSE at' = [at EXCEPT ![r] = 1] /\ Goes(r, outside),
             inside = "entry" \/ (r \in Stocks /\ inside = "begin"),
             outside \in {"archive", "reporting"}
      PROVE  AtOK'
  <2>1. \A q \in Requests : q # r => pc'[q] = pc[q] /\ at'[q] = at[q] BY <1>2 DEF Goes
  <2>2. at[r] < Len(feed[r]) => pc'[r] = inside /\ at'[r] \in 1 .. Len(feed[r]) BY <1>2, <1>l DEF Goes
  <2>3. ~(at[r] < Len(feed[r])) => pc'[r] = outside /\ at'[r] = 1 BY <1>2, <1>l DEF Goes
  <2> QED BY <1>2, <2>1, <2>2, <2>3 DEF AtOK
<1>3. CASE UNCHANGED vars BY <1>3 DEF vars, txVars, AtOK
<1>4. ASSUME NEW r \in Requests, NEW f \in Feeds \cup Lists, Request(r, f) PROVE AtOK'
  BY <1>4 DEF Request, AtOK, Goes, txVars
<1>5. ASSUME NEW r \in Requests, Jobs(r) \/ MarkRunningFails(r) \/ MarkDoneFails(r) \/ MarkFailedFails(r)
      PROVE  AtOK'
  BY <1>1, <1>5 DEF Jobs, MarkJobRunning, MarkJobDone, MarkJobFailed, MarkRunningFails, MarkDoneFails,
     MarkFailedFails, txVars
<1>6. ASSUME NEW i \in Imports, Import(i) \/ Fails(i) PROVE AtOK'
  <2>1. CASE FindCategories(i) BY <1>1, <2>1 DEF FindCategories
  <2>2. CASE SaveCategories(i) BY <1>1, <2>2 DEF SaveCategories
  <2>3. ASSUME pc[i] = "entry", NextEntry(i), UNCHANGED feed PROVE AtOK'
    <3>1. at[i] \in 1 .. Len(feed[i]) BY <2>3 DEF AtOK
    <3> QED BY <1>2, <2>3, <3>1 DEF NextEntry
  <2>4. CASE EntryFails(i) BY <2>3, <2>4 DEF EntryFails
  <2>5. CASE \E F : SaveNextEntry(i, F) BY <2>3, <2>5 DEF SaveNextEntry
  <2>6. CASE Archive(i) BY <1>1, <2>6 DEF Archive
  <2>7. CASE Commit(i) \/ CommitUnheard(i) BY <1>1, <2>7 DEF Commit, CommitUnheard, Committed
  <2>8. CASE TransactionFails(i) BY <2>8 DEF TransactionFails, Goes, AtOK
  <2> QED BY <1>6, <2>1, <2>2, <2>4, <2>5, <2>6, <2>7, <2>8
      DEF Import, Fails, DeadlockFailsEntry, DeadlockFailsAll
<1>7. ASSUME NEW s \in Stocks, Stock(s) \/ StockItemFails(s) PROVE AtOK'
  <2>1. CASE StockFinds(s) BY <1>1, <2>1 DEF StockFinds, txVars
  <2>2. CASE StockLooks(s) BY <1>1, <2>2 DEF StockLooks, txVars
  <2>3. CASE StockSkips(s) \/ StockWrites(s) \/ StockItemFails(s)
    <3>1. at[s] \in 1 .. Len(feed[s]) BY <2>3 DEF StockSkips, StockWrites, StockItemFails, AtOK
    <3> QED BY <1>2, <2>3, <3>1 DEF StockSkips, StockWrites, StockItemFails, NextItem
  <2> QED BY <1>7, <2>1, <2>2, <2>3 DEF Stock
<1>8. CASE Crash BY <1>8 DEF Crash, AtOK
<1> QED BY <1>3, <1>4, <1>5, <1>6, <1>7, <1>8 DEF Next

(***************************************************************************)
(* The rows                                                                *)
(***************************************************************************)
MineOK ==
    /\ DOMAIN mine = Imports
    /\ \A i \in Imports : (InTransaction(i) /\ pc[i] # "categories") \/ mine[i] = <<>>

\* No row is ever deleted: what a request has found is still there.
LoadedOK ==
    /\ DOMAIN loaded = Imports
    /\ \A i \in Imports : DOMAIN loaded[i] = Products
    /\ \A i \in Imports, p \in Products : loaded[i][p] # NoRow => Product(p) \in DOMAIN db

RowOK ==
    /\ DOMAIN row = Stocks
    /\ \A s \in Stocks : /\ pc[s] \in {"look", "insert"} => Variant(row[s]) \in DOMAIN db
                         /\ pc[s] = "update" => Balance(row[s]) \in DOMAIN db

\* What an import would leave if it committed now, whatever the others have written.
TablesOK ==
    /\ HasShape(db) /\ Distinct(db)
    /\ \A i \in Imports : HasShape(View(i)) /\ Distinct(View(i))
    /\ \A i, j \in Imports : i # j => Apart(mine[i], mine[j])

LEMMA MineStep ==
    ASSUME PcOK, MineOK, [Next]_vars
    PROVE  MineOK'
<1> USE TwoKinds DEF PcOK, Requests, InTransaction
<1>1. ASSUME NEW r \in Requests, NEW where, Goes(r, where), UNCHANGED mine,
             InTransaction(r) => where \in {"entry", "archive", "commit"}, where # "categories" \/ ~InTransaction(r)
      PROVE  MineOK'
  BY <1>1 DEF Goes, MineOK
<1>2. CASE UNCHANGED vars BY <1>2 DEF vars, txVars, MineOK
<1>3. CASE \E r \in Requests, f \in Feeds \cup Lists : Request(r, f)
  BY <1>1, <1>3 DEF Request, txVars
<1>4. ASSUME NEW r \in Requests, Jobs(r) \/ MarkRunningFails(r) \/ MarkDoneFails(r) \/ MarkFailedFails(r)
      PROVE  MineOK'
  BY <1>1, <1>4 DEF Jobs, MarkJobRunning, MarkJobDone, MarkJobFailed, MarkRunningFails, MarkDoneFails,
     MarkFailedFails, txVars
<1>5. ASSUME NEW i \in Imports, Import(i) \/ Fails(i) PROVE MineOK'
  <2>1. CASE FindCategories(i) BY <2>1 DEF FindCategories, Goes, MineOK
  <2>2. CASE SaveCategories(i) BY <2>2 DEF SaveCategories, Goes, MineOK
  <2>3. CASE EntryFails(i) BY <1>1, <2>3 DEF EntryFails, NextEntry
  <2>4. CASE \E F : SaveNextEntry(i, F)
    <3>1. (\E where \in {"entry", "archive"} : Goes(i, where)) /\ \E f : mine' = [mine EXCEPT ![i] = f]
      BY <2>4 DEF SaveNextEntry, NextEntry
    <3> QED BY <3>1 DEF Goes, MineOK
  <2>5. CASE Archive(i)
    <3>1. Goes(i, "commit") /\ \E f : mine' = [mine EXCEPT ![i] = f] BY <2>5 DEF Archive
    <3> QED BY <3>1 DEF Goes, MineOK
  <2>6. CASE Commit(i) \/ CommitUnheard(i) BY <2>6 DEF Commit, CommitUnheard, Committed, Goes, MineOK
  <2>7. CASE TransactionFails(i) BY <2>7 DEF TransactionFails, Goes, MineOK
  <2> QED BY <1>5, <2>1, <2>2, <2>3, <2>4, <2>5, <2>6, <2>7
      DEF Import, Fails, DeadlockFailsEntry, DeadlockFailsAll
<1>6. ASSUME NEW s \in Stocks, Stock(s) \/ StockItemFails(s) PROVE MineOK'
  BY <1>6, <1>1 DEF Stock, StockFinds, StockSkips, StockLooks, StockWrites, StockItemFails, NextItem, txVars
<1>7. CASE Crash BY <1>7 DEF Crash, MineOK
<1> QED BY <1>2, <1>3, <1>4, <1>5, <1>6, <1>7 DEF Next

\* The tables stay as they are, or import i ends with what it wrote.
TablesRest == db' = db /\ last' = last /\ restocked' = restocked
Ends(i) == pc[i] = "commit" /\ Committed(i) /\ (Goes(i, "reporting") \/ Goes(i, "failing"))

\* Only a commit and a stock list write to the tables, and nothing is deleted.
LEMMA DbStep ==
    ASSUME [Next]_vars
    PROVE  TablesRest \/ (\E i \in Imports : Ends(i)) \/ (\E s \in Stocks : StockWrites(s))
<1> USE DEF TablesRest, Ends
<1>1. CASE UNCHANGED vars BY <1>1 DEF vars, histVars
<1>2. CASE \E r \in Requests, f \in Feeds \cup Lists : Request(r, f) BY <1>2 DEF Request, histVars
<1>3. CASE \E r \in Requests : Jobs(r) \/ MarkRunningFails(r) \/ MarkDoneFails(r) \/ MarkFailedFails(r)
  BY <1>3 DEF Jobs, MarkJobRunning, MarkJobDone, MarkJobFailed, MarkRunningFails, MarkDoneFails,
     MarkFailedFails, histVars
<1>4. CASE \E i \in Imports : Import(i) \/ Fails(i)
  BY <1>4 DEF Import, Fails, DeadlockFailsEntry, DeadlockFailsAll, FindCategories, SaveCategories,
     TransactionFails, EntryFails, SaveNextEntry, Archive, Commit, CommitUnheard, histVars
<1>5. CASE \E s \in Stocks : Stock(s) \/ StockItemFails(s)
  BY <1>5 DEF Stock, StockFinds, StockSkips, StockLooks, StockItemFails, histVars
<1>6. CASE Crash BY <1>6 DEF Crash, histVars
<1> QED BY <1>1, <1>2, <1>3, <1>4, <1>5, <1>6 DEF Next

LEMMA NothingDeleted ==
    ASSUME [Next]_vars
    PROVE  DOMAIN db \subseteq DOMAIN db'
<1>1. ASSUME NEW i \in Imports, Committed(i) PROVE DOMAIN db \subseteq DOMAIN db'
  BY <1>1 DEF Committed, View, Over
<1>2. ASSUME NEW s \in Stocks, StockWrites(s) PROVE DOMAIN db \subseteq DOMAIN db'
  BY <1>2 DEF StockWrites, Over
<1> QED BY <1>1, <1>2, DbStep DEF TablesRest, Ends

LEMMA LoadedStep ==
    ASSUME PcOK, LoadedOK, [Next]_vars
    PROVE  LoadedOK'
<1> USE NothingDeleted
<1>0. ASSUME UNCHANGED loaded PROVE LoadedOK' BY <1>0 DEF LoadedOK
<1>1. ASSUME NEW i \in Imports, loaded' = [loaded EXCEPT ![i] = NothingLoaded] PROVE LoadedOK'
  <2>1. \A p \in Products : NothingLoaded[p] = NoRow BY DEF NothingLoaded
  <2>2. DOMAIN NothingLoaded = Products BY DEF NothingLoaded
  <2> QED BY <1>1, <2>1, <2>2 DEF LoadedOK
<1>2. ASSUME NEW i \in Imports, SaveCategories(i) PROVE LoadedOK'
  <2> DEFINE read == [p \in Products |-> IF p \in Listed(feed[i]) /\ Product(p) \in DOMAIN db
                                         THEN db[Product(p)] ELSE NoRow]
  <2>1. loaded' = [loaded EXCEPT ![i] = read] BY <1>2 DEF SaveCategories
  <2>2. DOMAIN read = Products /\ \A p \in Products : read[p] # NoRow => Product(p) \in DOMAIN db OBVIOUS
  <2> HIDE DEF read
  <2> QED BY <2>1, <2>2 DEF LoadedOK
<1>3. CASE UNCHANGED vars BY <1>0, <1>3 DEF vars, txVars
<1>4. CASE \E r \in Requests, f \in Feeds \cup Lists : Request(r, f) BY <1>0, <1>4 DEF Request, txVars
<1>5. CASE \E r \in Requests : Jobs(r) \/ MarkRunningFails(r) \/ MarkDoneFails(r) \/ MarkFailedFails(r)
  BY <1>0, <1>5 DEF Jobs, MarkJobRunning, MarkJobDone, MarkJobFailed, MarkRunningFails, MarkDoneFails,
     MarkFailedFails, txVars
<1>6. ASSUME NEW i \in Imports, Import(i) \/ Fails(i) PROVE LoadedOK'
  <2>1. ASSUME NextEntry(i) PROVE LoadedOK' BY <1>0, <1>1, <2>1 DEF NextEntry
  <2> QED BY <1>6, <1>0, <1>1, <1>2, <2>1 DEF Import, Fails, DeadlockFailsEntry, DeadlockFailsAll,
       FindCategories, TransactionFails, EntryFails, SaveNextEntry, Archive, Commit, CommitUnheard, Committed
<1>7. CASE \E s \in Stocks : Stock(s) \/ StockItemFails(s)
  BY <1>0, <1>7 DEF Stock, StockFinds, StockSkips, StockLooks, StockWrites, StockItemFails, txVars
<1>8. CASE Crash
  <2>1. \A p \in Products : NothingLoaded[p] = NoRow BY DEF NothingLoaded
  <2>2. DOMAIN NothingLoaded = Products BY DEF NothingLoaded
  <2> QED BY <1>8, <2>1, <2>2 DEF LoadedOK, Crash
<1> QED BY <1>3, <1>4, <1>5, <1>6, <1>7, <1>8 DEF Next

LEMMA RowStep ==
    ASSUME PcOK, TablesOK, RowOK, [Next]_vars
    PROVE  RowOK'
<1> USE NothingDeleted, TwoKinds DEF PcOK, Requests
<1>1. ASSUME UNCHANGED row, NEW r \in Requests, NEW where, Goes(r, where),
             r \in Stocks => where \notin {"look", "insert", "update"}
      PROVE  RowOK'
  BY <1>1 DEF RowOK, Goes
<1>2. CASE UNCHANGED vars BY <1>2 DEF vars, RowOK
<1>3. CASE \E r \in Requests, f \in Feeds \cup Lists : Request(r, f) BY <1>1, <1>3 DEF Request
<1>4. ASSUME NEW r \in Requests, Jobs(r) \/ MarkRunningFails(r) \/ MarkDoneFails(r) \/ MarkFailedFails(r)
      PROVE  RowOK'
  BY <1>1, <1>4 DEF Jobs, MarkJobRunning, MarkJobDone, MarkJobFailed, MarkRunningFails, MarkDoneFails,
     MarkFailedFails
<1>5. ASSUME NEW i \in Imports, Import(i) \/ Fails(i) PROVE RowOK'
  <2>1. ASSUME NextEntry(i), UNCHANGED row PROVE RowOK' BY <1>1, <2>1 DEF NextEntry
  <2>2. CASE FindCategories(i) \/ SaveCategories(i) \/ Archive(i) \/ Commit(i) \/ CommitUnheard(i)
    BY <1>1, <2>2 DEF FindCategories, SaveCategories, Archive, Commit, CommitUnheard, Committed
  <2>3. CASE TransactionFails(i) BY <1>1, <2>3 DEF TransactionFails
  <2>4. CASE EntryFails(i) BY <2>1, <2>4 DEF EntryFails
  <2>5. CASE \E F : SaveNextEntry(i, F) BY <2>1, <2>5 DEF SaveNextEntry
  <2> QED BY <1>5, <2>2, <2>3, <2>4, <2>5 DEF Import, Fails, DeadlockFailsEntry, DeadlockFailsAll
<1>6. ASSUME NEW s \in Stocks, Stock(s) \/ StockItemFails(s) PROVE RowOK'
  <2>1. CASE StockFinds(s)
    <3>1. PICK n \in VariantsOf(db, Item(s).ext) : row' = [row EXCEPT ![s] = n] BY <2>1 DEF StockFinds
    <3>2. Variant(n) \in DOMAIN db BY IdsAre DEF TablesOK, VariantsOf
    <3> QED BY <2>1, <3>1, <3>2 DEF StockFinds, RowOK, Goes
  <2>2. CASE StockLooks(s)
    <3>1. \A b \in BalancesOf(db, row[s]) : Balance(b) \in DOMAIN db BY IdsAre DEF TablesOK, BalancesOf
    <3>2. CASE Goes(s, "insert") /\ UNCHANGED row
      BY <2>2, <3>2 DEF StockLooks, RowOK, Goes
    <3>3. CASE Goes(s, "update") /\ \E b \in BalancesOf(db, row[s]) : row' = [row EXCEPT ![s] = b]
      BY <3>1, <3>3 DEF RowOK, Goes
    <3> QED BY <2>2, <3>2, <3>3 DEF StockLooks
  <2>3. CASE StockSkips(s) \/ StockWrites(s) \/ StockItemFails(s)
    BY <2>3 DEF StockSkips, StockWrites, StockItemFails, NextItem, RowOK, Goes
  <2> QED BY <1>6, <2>1, <2>2, <2>3 DEF Stock
<1>7. CASE Crash BY <1>7 DEF Crash, RowOK
<1> QED BY <1>2, <1>3, <1>4, <1>5, <1>6, <1>7 DEF Next

\* Rows without variants change no bar code, and rows that are products or categories fit.
LEMMA PlainRowsFit ==
    ASSUME NEW rows, NEW f, NEW d, HasShape(Over(f, d)), Distinct(Over(f, d)),
           \A k \in DOMAIN rows : \/ \E p \in Products : k = Product(p) /\ rows[k] \in ProductRow
                                  \/ \E l \in Range(Lower) : k = Category(l)
    PROVE  /\ HasShape(Over(Over(rows, f), d)) /\ Distinct(Over(Over(rows, f), d))
           /\ \A n : Variant(n) \notin DOMAIN rows /\ Balance(n) \notin DOMAIN rows
<1> DEFINE v == Over(f, d)
           u == Over(rows, v)
<1>1. Over(Over(rows, f), d) = u BY OverOver
<1>2. \A n : Variant(n) \notin DOMAIN rows /\ Balance(n) \notin DOMAIN rows
  BY DEF Variant, Balance, Product, Category
<1>3. /\ DOMAIN u = DOMAIN rows \cup DOMAIN v
      /\ \A k \in DOMAIN rows : u[k] = rows[k]
      /\ \A k \in DOMAIN v \ DOMAIN rows : u[k] = v[k]
  BY DEF Over
<1> HIDE DEF u, v
<1>4. HasShape(v) /\ Distinct(v) BY DEF v
<1>5. IdsOf(v, "variant") \subseteq IdsOf(u, "variant") BY <1>3 DEF IdsOf
<1>6. BalanceRow(v) \subseteq BalanceRow(u) BY <1>5 DEF BalanceRow
<1>7. HasShape(u)
  <2> SUFFICES ASSUME NEW k \in DOMAIN u
               PROVE  \/ \E p \in Products : k = Product(p) /\ u[k] \in ProductRow
                      \/ k = Variant(k[2]) /\ u[k] \in VariantRow
                      \/ k = Balance(k[2]) /\ u[k] \in BalanceRow(u)
                      \/ \E l \in Range(Lower) : k = Category(l)
    BY DEF HasShape
  <2>1. CASE k \in DOMAIN rows BY <1>3, <2>1
  <2>2. CASE k \in DOMAIN v \ DOMAIN rows BY <1>3, <1>4, <1>6, <2>2 DEF HasShape
  <2> QED BY <1>3, <2>1, <2>2
<1>8. Distinct(u) BY <1>2, <1>3, <1>4 DEF Distinct
<1> QED BY <1>1, <1>2, <1>7, <1>8

LEMMA ApartBothWays == ASSUME NEW f, NEW g, Apart(f, g) PROVE Apart(g, f)
BY DEF Apart

LEMMA EntryFound ==
    ASSUME PcOK, FeedsOK, AtOK, LoadedOK, NEW i \in Imports, pc[i] = "entry"
    PROVE  /\ at[i] \in DOMAIN feed[i] /\ Entry(i) \in EntryType
           /\ loaded[i][Entry(i).product] # NoRow => Product(Entry(i).product) \in DOMAIN View(i)
<1>1. at[i] \in 1 .. Len(feed[i]) BY DEF AtOK, Requests
<1>2. feed[i] \in Seq(EntryType) BY DEF FeedsOK
<1>3. at[i] \in DOMAIN feed[i] /\ Entry(i) \in EntryType BY <1>1, <1>2, ElementOf DEF Entry
<1>4. Entry(i).product \in Products BY <1>3, EntryIs
<1> QED BY <1>3, <1>4 DEF LoadedOK, View, Over

\* What an entry writes keeps to the codes nobody else has written.
LEMMA EntryStaysApart ==
    ASSUME MineOK, TablesOK, FeedsOK, PcOK, AtOK, LoadedOK,
           NEW i \in Imports, pc[i] = "entry", NEW failing, NEW o \in Outcomes(i, failing),
           ~EntryWaits(i, Entry(i), o.rows), NEW j \in Imports \ {i}
    PROVE  Apart(Over(o.rows, mine[i]), mine[j])
<1> DEFINE f == Over(o.rows, mine[i])
<1> SUFFICES ASSUME NEW n, NEW m, Variant(n) \in DOMAIN f, Variant(m) \in DOMAIN mine[j],
                    f[Variant(n)].code # NoCode
             PROVE  f[Variant(n)].code # mine[j][Variant(m)].code
  BY DEF Apart
<1>1. Entry(i) \in EntryType BY EntryFound
<1>2. HasShape(View(i)) /\ Distinct(View(i)) BY DEF TablesOK
<1>3. CASE Variant(n) \in DOMAIN o.rows
  <2>1. PICK x \in DOMAIN Entry(i).variants : o.rows[Variant(n)] = SaveVariant(Entry(i), x)
    BY <1>1, <1>2, <1>3, EntryFound, OutcomeFits
  <2>2. f[Variant(n)].code = Entry(i).variants[x].code BY <1>3, <2>1 DEF Over, SaveVariant
  <2>3. ~HeldCode(i, Entry(i).variants[x].code) BY <2>2 DEF EntryWaits
  <2>4. m \in IdsOf(mine[j], "variant") BY KeyOf
  <2> QED BY <2>2, <2>3, <2>4 DEF HeldCode
<1>4. CASE Variant(n) \notin DOMAIN o.rows
  <2>1. Variant(n) \in DOMAIN mine[i] /\ f[Variant(n)] = mine[i][Variant(n)] BY <1>4 DEF Over
  <2>2. Apart(mine[i], mine[j]) BY DEF TablesOK
  <2> QED BY <2>1, <2>2 DEF Apart
<1> QED BY <1>3, <1>4

LEMMA TablesStep ==
    ASSUME PcOK, FeedsOK, AtOK, MineOK, LoadedOK, RowOK, TablesOK, [Next]_vars
    PROVE  TablesOK'
<1> USE TwoKinds DEF PcOK, Requests
<1>1. ASSUME UNCHANGED <<db, mine>> PROVE TablesOK' BY <1>1 DEF TablesOK, View
<1>2. ASSUME NEW i \in Imports, NEW f, UNCHANGED db, mine' = [mine EXCEPT ![i] = f],
             HasShape(Over(f, db)), Distinct(Over(f, db)), \A j \in Imports \ {i} : Apart(f, mine[j])
      PROVE  TablesOK'
  <2>1. mine'[i] = f /\ \A j \in Imports \ {i} : mine'[j] = mine[j] BY <1>2 DEF MineOK
  <2>2. \A j \in Imports : HasShape(Over(mine'[j], db')) /\ Distinct(Over(mine'[j], db'))
    BY <1>2, <2>1 DEF TablesOK, View
  <2>3. \A j, k \in Imports : j # k => Apart(mine'[j], mine'[k])
    BY <1>2, <2>1, ApartBothWays DEF TablesOK
  <2> QED BY <1>2, <2>2, <2>3 DEF TablesOK, View
<1>3. ASSUME NEW i \in Imports, UNCHANGED db, mine' = [mine EXCEPT ![i] = <<>>] PROVE TablesOK'
  <2>1. HasShape(Over(<<>>, db)) /\ Distinct(Over(<<>>, db)) BY Bare DEF TablesOK
  <2>2. \A j \in Imports \ {i} : Apart(<<>>, mine[j]) BY DEF Apart
  <2> QED BY <1>2, <1>3, <2>1, <2>2
<1>4. ASSUME NEW i \in Imports, NEW rows, UNCHANGED db, mine' = [mine EXCEPT ![i] = Over(rows, mine[i])],
             \A k \in DOMAIN rows : \/ \E p \in Products : k = Product(p) /\ rows[k] \in ProductRow
                                    \/ \E l \in Range(Lower) : k = Category(l)
      PROVE  TablesOK'
  <2>1. HasShape(Over(mine[i], db)) /\ Distinct(Over(mine[i], db)) BY DEF TablesOK, View
  <2>2. /\ HasShape(Over(Over(rows, mine[i]), db)) /\ Distinct(Over(Over(rows, mine[i]), db))
        /\ \A n : Variant(n) \notin DOMAIN rows
    BY <1>4, <2>1, PlainRowsFit
  <2>3. \A j \in Imports \ {i} : Apart(Over(rows, mine[i]), mine[j])
    BY <2>2 DEF TablesOK, Apart, Over
  <2> QED BY <1>2, <1>4, <2>2, <2>3
<1>5. ASSUME NEW i \in Imports, SaveCategories(i) PROVE TablesOK'
  <2> DEFINE rows == [k \in {Category(l) : l \in LowerOf(NewNames(i))} |-> TRUE]
  <2>1. mine[i] = <<>> /\ UNCHANGED db /\ mine' = [mine EXCEPT ![i] = rows] BY <1>5 DEF SaveCategories, MineOK
  <2>2. rows = Over(rows, mine[i]) BY <2>1, NoRows DEF Over
  <2>3. \A k \in DOMAIN rows : \E l \in Range(Lower) : k = Category(l)
    <3>1. \A k \in DOMAIN feed[i] : feed[i][k].cats \subseteq Names
      BY ElementOf, EntryIs DEF FeedsOK
    <3>2. NewNames(i) \subseteq DOMAIN Lower BY <3>1, CatalogAssumption DEF NewNames, NamesIn
    <3>3. LowerOf(NewNames(i)) \subseteq Range(Lower) BY <3>2 DEF LowerOf, Range
    <3> QED BY <3>3
  <2> HIDE DEF rows
  <2> QED BY <1>4, <2>1, <2>2, <2>3
<1>6. ASSUME NEW i \in Imports, Archive(i) PROVE TablesOK'
  <2> DEFINE rows == [k \in {Product(p) : p \in ToArchive(i)} |-> [View(i)[k] EXCEPT !.status = "archived"]]
  <2>1. UNCHANGED db /\ mine' = [mine EXCEPT ![i] = Over(rows, mine[i])] BY <1>6 DEF Archive, MineOK
  <2>2. ASSUME NEW p \in ToArchive(i) PROVE p \in Products /\ rows[Product(p)] \in ProductRow
    <3>1. p \in Products /\ Product(p) \in DOMAIN View(i) BY DEF ToArchive
    <3>2. View(i)[Product(p)] \in ProductRow BY <3>1, ShapeOfProduct DEF TablesOK
    <3>3. [View(i)[Product(p)] EXCEPT !.status = "archived"] \in ProductRow
      BY <3>2 DEF ProductRow, Statuses
    <3> QED BY <3>1, <3>3
  <2>3. \A k \in DOMAIN rows : \E p \in Products : k = Product(p) /\ rows[k] \in ProductRow
    BY <2>2
  <2> HIDE DEF rows
  <2> QED BY <1>4, <2>1, <2>3
<1>7. ASSUME NEW i \in Imports, \E F : SaveNextEntry(i, F) PROVE TablesOK'
  <2>1. PICK F : SaveNextEntry(i, F) BY <1>7
  <2>2. PICK o \in Outcomes(i, F) :
          ~EntryWaits(i, Entry(i), o.rows) /\ mine' = [mine EXCEPT ![i] = Over(o.rows, mine[i])]
    BY <2>1 DEF SaveNextEntry, MineOK
  <2>3. pc[i] = "entry" /\ UNCHANGED db BY <2>1 DEF SaveNextEntry
  <2>4. HasShape(Over(o.rows, View(i))) /\ Distinct(Over(o.rows, View(i)))
    BY <2>3, EntryFound, OutcomeFits DEF TablesOK
  <2>5. Over(Over(o.rows, mine[i]), db) = Over(o.rows, View(i)) BY OverOver DEF View
  <2>6. \A j \in Imports \ {i} : Apart(Over(o.rows, mine[i]), mine[j])
    BY <2>2, <2>3, EntryStaysApart
  <2> QED BY <1>2, <2>2, <2>3, <2>4, <2>5, <2>6
<1>8. ASSUME NEW i \in Imports, Committed(i) PROVE TablesOK'
  <2>1. db' = Over(mine[i], db) /\ mine'[i] = <<>> /\ \A j \in Imports \ {i} : mine'[j] = mine[j]
    BY <1>8 DEF Committed, View, MineOK
  <2>2. HasShape(db') /\ Distinct(db') BY <2>1 DEF TablesOK, View
  <2>3. ASSUME NEW j \in Imports
        PROVE  HasShape(Over(mine'[j], db')) /\ Distinct(Over(mine'[j], db'))
    <3>1. CASE j = i BY <2>1, <2>2, <3>1, Bare
    <3>2. CASE j # i
      <4>1. HasShape(Over(mine[j], Over(mine[i], db))) BY ShapeOver DEF TablesOK, View
      <4>2. Apart(mine[i], mine[j]) /\ Apart(mine[j], mine[i]) BY <3>2 DEF TablesOK
      <4>3. Distinct(Over(mine[j], Over(mine[i], db))) BY <4>2, DistinctOver DEF TablesOK, View
      <4> QED BY <2>1, <3>2, <4>1, <4>3
    <3> QED BY <3>1, <3>2
  <2>4. ASSUME NEW j \in Imports, NEW k \in Imports, j # k PROVE Apart(mine'[j], mine'[k])
    BY <2>1, <2>4, NoRows DEF TablesOK, Apart
  <2> QED BY <2>2, <2>3, <2>4 DEF TablesOK, View
<1>9. ASSUME NEW s \in Stocks, StockWrites(s) PROVE TablesOK'
  <2>0. UNCHANGED mine BY <1>9 DEF StockWrites
  <2>1. at[s] \in 1 .. Len(feed[s]) BY <1>9 DEF StockWrites, AtOK
  <2>2. feed[s] \in Seq(ItemType) BY DEF FeedsOK
  <2>3. Item(s) \in ItemType BY <2>1, <2>2, ElementOf DEF Item
  <2>4. Item(s).qty \in Nat BY <2>3 DEF ItemType
  <2>5. \E b : /\ DOMAIN db' = DOMAIN db \cup {Balance(b)}
               /\ \A k \in DOMAIN db : k # Balance(b) => db'[k] = db[k]
               /\ db'[Balance(b)] \in BalanceRow(db)
    <3>1. CASE /\ pc[s] = "insert"
               /\ db' = Over([k \in {Balance(<<s, at[s], 0>>)} |-> [of |-> row[s], qty |-> Item(s).qty]], db)
      <4>1. row[s] \in IdsOf(db, "variant") BY <3>1, KeyOf DEF RowOK
      <4>2. [of |-> row[s], qty |-> Item(s).qty] \in BalanceRow(db) BY <2>4, <4>1 DEF BalanceRow
      <4> DEFINE b == <<s, at[s], 0>>
      <4>3. /\ DOMAIN db' = DOMAIN db \cup {Balance(b)}
            /\ \A k \in DOMAIN db : k # Balance(b) => db'[k] = db[k]
            /\ db'[Balance(b)] = [of |-> row[s], qty |-> Item(s).qty]
        BY <3>1 DEF Over
      <4> QED BY <4>2, <4>3
    <3>2. CASE pc[s] = "update" /\ db' = [db EXCEPT ![Balance(row[s])].qty = Item(s).qty]
      <4>1. Balance(row[s]) \in DOMAIN db BY <3>2 DEF RowOK
      <4>2. db[Balance(row[s])] \in BalanceRow(db) BY <4>1, ShapeOfBalance DEF TablesOK
      <4>3. [db[Balance(row[s])] EXCEPT !.qty = Item(s).qty] \in BalanceRow(db)
        BY <2>4, <4>2 DEF BalanceRow
      <4>4. /\ DOMAIN db' = DOMAIN db \cup {Balance(row[s])}
            /\ \A k \in DOMAIN db : k # Balance(row[s]) => db'[k] = db[k]
            /\ db'[Balance(row[s])] = [db[Balance(row[s])] EXCEPT !.qty = Item(s).qty]
        BY <3>2, <4>1
      <4> QED BY <4>3, <4>4
    <3> QED BY <1>9, <3>1, <3>2 DEF StockWrites
  <2>6. PICK b : /\ DOMAIN db' = DOMAIN db \cup {Balance(b)}
                 /\ \A k \in DOMAIN db : k # Balance(b) => db'[k] = db[k]
                 /\ db'[Balance(b)] \in BalanceRow(db)
    BY <2>5
  <2>7. ASSUME NEW f, HasShape(Over(f, db)), Distinct(Over(f, db))
        PROVE  HasShape(Over(f, db')) /\ Distinct(Over(f, db'))
    BY <2>6, <2>7, BalanceWritten DEF TablesOK
  <2>8. \A j \in Imports : HasShape(Over(mine'[j], db')) /\ Distinct(Over(mine'[j], db'))
    BY <2>0, <2>7 DEF TablesOK, View
  <2>9. HasShape(db') /\ Distinct(db') BY <2>7, Bare DEF TablesOK
  <2> QED BY <2>0, <2>8, <2>9 DEF TablesOK, View
<1>10. CASE UNCHANGED vars BY <1>1, <1>10 DEF vars, txVars
<1>11. CASE \E r \in Requests, f \in Feeds \cup Lists : Request(r, f) BY <1>1, <1>11 DEF Request, txVars
<1>12. CASE \E r \in Requests : Jobs(r) \/ MarkRunningFails(r) \/ MarkDoneFails(r) \/ MarkFailedFails(r)
  BY <1>1, <1>12 DEF Jobs, MarkJobRunning, MarkJobDone, MarkJobFailed, MarkRunningFails, MarkDoneFails,
     MarkFailedFails, txVars
<1>13. ASSUME NEW i \in Imports, Import(i) \/ Fails(i) PROVE TablesOK'
  <2>1. CASE FindCategories(i) \/ EntryFails(i) BY <1>1, <2>1 DEF FindCategories, EntryFails
  <2>2. CASE TransactionFails(i) BY <1>3, <2>2 DEF TransactionFails
  <2>3. CASE Commit(i) \/ CommitUnheard(i) BY <1>8, <2>3 DEF Commit, CommitUnheard
  <2> QED BY <1>13, <1>5, <1>6, <1>7, <2>1, <2>2, <2>3 DEF Import, Fails, DeadlockFailsEntry, DeadlockFailsAll
<1>14. ASSUME NEW s \in Stocks, Stock(s) \/ StockItemFails(s) PROVE TablesOK'
  BY <1>1, <1>9, <1>14 DEF Stock, StockFinds, StockSkips, StockLooks, StockItemFails, txVars
<1>15. CASE Crash
  <2>1. UNCHANGED db /\ \A i \in Imports : mine'[i] = <<>> BY <1>15 DEF Crash
  <2>2. \A i \in Imports : HasShape(Over(mine'[i], db')) /\ Distinct(Over(mine'[i], db'))
    BY <2>1, Bare DEF TablesOK
  <2> QED BY <2>1, <2>2, NoRows DEF TablesOK, View, Apart
<1> QED BY <1>10, <1>11, <1>12, <1>13, <1>14, <1>15 DEF Next

CatalogInv == PcOK /\ JobsOK /\ FeedsOK /\ AtOK /\ MineOK /\ LoadedOK /\ RowOK /\ TablesOK

LEMMA CatalogInvInit == Init => CatalogInv
<1> SUFFICES ASSUME Init PROVE CatalogInv OBVIOUS
<1>1. PcOK /\ JobsOK BY JobsInit
<1>2. FeedsOK /\ AtOK /\ MineOK /\ RowOK
  BY DEF Init, FeedsOK, AtOK, MineOK, RowOK, Requests
<1>3. LoadedOK BY DEF Init, LoadedOK, NothingLoaded
<1>4. HasShape(db) /\ Distinct(db) BY ShopsAssumption, CodesAre DEF Init
<1>5. \A i \in Imports : mine[i] = <<>> BY DEF Init
<1>6. TablesOK BY <1>4, <1>5, Bare, NoRows DEF TablesOK, View, Apart
<1> QED BY <1>1, <1>2, <1>3, <1>6 DEF CatalogInv

LEMMA CatalogInvStep == CatalogInv /\ [Next]_vars => CatalogInv'
BY PlacesStep, JobsStep, FeedsStep, AtStep, MineStep, LoadedStep, RowStep, TablesStep DEF CatalogInv

LEMMA CatalogInvariant == Spec => []CatalogInv
<1> QED BY CatalogInvInit, CatalogInvStep, PTL DEF Spec

\* The tables keep their shape and a bar code stays one variant's, however imports and
\* stock lists interleave; a request that is in no transaction holds no row.
THEOREM CatalogTypes == Spec => []CatalogTypeOK
<1>1. CatalogInv => CatalogTypeOK
  BY CodesAre DEF CatalogInv, CatalogTypeOK, TablesOK, MineOK, JobsOK, JobStatuses
<1> QED BY <1>1, CatalogInvariant, PTL

(***************************************************************************)
(* What one entry leaves                                                   *)
(***************************************************************************)
\* An outcome and the choices it comes from.
Made(base, e, new, found, failing, to, saved, of, in, o) ==
    /\ to \in Targets(base, e, new) /\ saved \in Saved(base, e, failing, to)
    /\ of \in Homes(Over(BaseRows(base, e, found, to, saved), base), e) /\ in \in Balances(base, of, new)
    /\ o.saved = saved
    /\ o.rows = Over(StockRows(base, e, of, in), BaseRows(base, e, found, to, saved))

LEMMA OutcomeMade ==
    ASSUME NEW i, NEW failing, NEW o \in Outcomes(i, failing)
    PROVE  \E to, saved, of, in :
             Made(View(i), Entry(i), NewRows(i), loaded[i][Entry(i).product], failing, to, saved, of, in, o)
<1> DEFINE base == View(i)
           e == Entry(i)
           found == loaded[i][e.product]
<1>1. PICK to \in Targets(base, e, NewRows(i)) :
        \E saved \in Saved(base, e, failing, to) :
           LET rows == BaseRows(base, e, found, to, saved) IN
           \E of \in Homes(Over(rows, base), e) : \E in \in Balances(base, of, NewRows(i)) :
              /\ o.saved = saved
              /\ o.rows = Over(StockRows(base, e, of, in), rows)
  BY OutcomeIs
<1>2. PICK saved \in Saved(base, e, failing, to) :
           LET rows == BaseRows(base, e, found, to, saved) IN
           \E of \in Homes(Over(rows, base), e) : \E in \in Balances(base, of, NewRows(i)) :
              /\ o.saved = saved
              /\ o.rows = Over(StockRows(base, e, of, in), rows)
  BY <1>1
<1>3. PICK of \in Homes(Over(BaseRows(base, e, found, to, saved), base), e) :
        \E in \in Balances(base, of, NewRows(i)) :
              /\ o.saved = saved
              /\ o.rows = Over(StockRows(base, e, of, in), BaseRows(base, e, found, to, saved))
  BY <1>2
<1>4. PICK in \in Balances(base, of, NewRows(i)) :
              /\ o.saved = saved
              /\ o.rows = Over(StockRows(base, e, of, in), BaseRows(base, e, found, to, saved))
  BY <1>3
<1> HIDE DEF base, e, found
<1>5. Made(base, e, NewRows(i), found, failing, to, saved, of, in, o) BY <1>4 DEF Made
<1> QED BY <1>5 DEF base, e, found

\* The rows of a kind that an entry does not write are as they were.
ProductsLeft(base, e, found, u) ==
    /\ Product(e.product) \in DOMAIN u /\ u[Product(e.product)] = SaveProduct(base, e, found)
    /\ \A p : p # e.product =>
         /\ Product(p) \in DOMAIN u <=> Product(p) \in DOMAIN base
         /\ Product(p) \in DOMAIN base => u[Product(p)] = base[Product(p)]
VariantsLeft(base, e, to, saved, u) ==
    /\ \A n : n \in {to[x] : x \in saved} =>
         Variant(n) \in DOMAIN u /\ u[Variant(n)] = Standing(base, e, to, saved, n)
    /\ \A n : n \notin {to[x] : x \in saved} =>
         /\ Variant(n) \in DOMAIN u <=> Variant(n) \in DOMAIN base
         /\ Variant(n) \in DOMAIN base => u[Variant(n)] = base[Variant(n)]
BalancesLeft(base, stock, u) ==
    /\ \A k : Balance(k) \in DOMAIN stock =>
         Balance(k) \in DOMAIN u /\ u[Balance(k)] = stock[Balance(k)]
    /\ \A k : Balance(k) \notin DOMAIN stock =>
         /\ Balance(k) \in DOMAIN u <=> Balance(k) \in DOMAIN base
         /\ Balance(k) \in DOMAIN base => u[Balance(k)] = base[Balance(k)]

LEMMA MadeRows ==
    ASSUME NEW base, NEW e \in EntryType, NEW new, NEW found, NEW failing,
           NEW to, NEW saved, NEW of, NEW in, NEW o,
           Made(base, e, new, found, failing, to, saved, of, in, o)
    PROVE  /\ DOMAIN base \subseteq DOMAIN Over(o.rows, base)
           /\ \A l : Category(l) \notin DOMAIN o.rows
           /\ ProductsLeft(base, e, found, Over(o.rows, base))
           /\ VariantsLeft(base, e, to, saved, Over(o.rows, base))
           /\ BalancesLeft(base, StockRows(base, e, of, in), Over(o.rows, base))
<1> DEFINE product == ProductRows(base, e, found)
           variants == VariantRows(base, e, to, saved)
           stock == StockRows(base, e, of, in)
           u == Over(o.rows, base)
           P == Product(e.product)
<1>1. DOMAIN product = {P} /\ product[P] = SaveProduct(base, e, found) BY DEF ProductRows
<1>2. /\ DOMAIN variants = {Variant(to[x]) : x \in saved}
      /\ \A n : Variant(n) \in DOMAIN variants => variants[Variant(n)] = Standing(base, e, to, saved, n)
  BY DEF VariantRows, Variant
<1>3. \A k \in DOMAIN stock : k = Balance(k[2]) BY StockRowsFit DEF Made
<1>4. o.rows = Over(stock, Over(product, variants)) BY DEF Made, BaseRows
<1> HIDE DEF product, variants, stock
<1>5. /\ DOMAIN u = DOMAIN stock \cup {P} \cup DOMAIN variants \cup DOMAIN base
      /\ \A k \in DOMAIN u : u[k] = IF k \in DOMAIN stock THEN stock[k] ELSE IF k = P THEN product[k]
                                    ELSE IF k \in DOMAIN variants THEN variants[k] ELSE base[k]
  BY <1>1, <1>4 DEF Over
<1> HIDE DEF u, P
<1>6. \A n : Variant(n) \in DOMAIN variants <=> n \in {to[x] : x \in saved} BY <1>2 DEF Variant
<1>7. \A l, n, p : /\ Category(l) # Product(p) /\ Category(l) # Variant(n) /\ Category(l) # Balance(n)
                   /\ Product(p) # Variant(n) /\ Product(p) # Balance(n)
  BY DEF Category, Product, Variant, Balance
<1>8. \A n, m : Variant(n) # Balance(m) /\ (Product(n) = Product(m) => n = m)
  BY DEF Product, Variant, Balance
<1>9. \A l, p : Category(l) \notin DOMAIN variants /\ Product(p) \notin DOMAIN variants /\ Balance(p) \notin DOMAIN variants
  BY <1>2, <1>7, <1>8
<1>10. \A l : Category(l) \notin DOMAIN stock /\ Product(l) \notin DOMAIN stock /\ Variant(l) \notin DOMAIN stock
  BY <1>3, <1>7, <1>8
<1>11. DOMAIN base \subseteq DOMAIN u /\ \A l : Category(l) \notin DOMAIN o.rows
  <2>1. DOMAIN o.rows = DOMAIN stock \cup {P} \cup DOMAIN variants BY <1>1, <1>4 DEF Over
  <2> QED BY <2>1, <1>5, <1>7, <1>9, <1>10 DEF P
<1>12. /\ Product(e.product) \in DOMAIN u /\ u[Product(e.product)] = SaveProduct(base, e, found)
       /\ \A p : p # e.product =>
             /\ Product(p) \in DOMAIN u <=> Product(p) \in DOMAIN base
             /\ Product(p) \in DOMAIN base => u[Product(p)] = base[Product(p)]
  BY <1>1, <1>5, <1>8, <1>9, <1>10 DEF P
<1>13. \A n : Variant(n) # P /\ Balance(n) # P BY <1>7 DEF P
<1>14. /\ \A n : n \in {to[x] : x \in saved} =>
            Variant(n) \in DOMAIN u /\ u[Variant(n)] = Standing(base, e, to, saved, n)
       /\ \A n : n \notin {to[x] : x \in saved} =>
            /\ Variant(n) \in DOMAIN u <=> Variant(n) \in DOMAIN base
            /\ Variant(n) \in DOMAIN base => u[Variant(n)] = base[Variant(n)]
  BY <1>2, <1>5, <1>6, <1>10, <1>13
<1>15. /\ \A k : Balance(k) \in DOMAIN stock =>
            Balance(k) \in DOMAIN u /\ u[Balance(k)] = stock[Balance(k)]
       /\ \A k : Balance(k) \notin DOMAIN stock =>
            /\ Balance(k) \in DOMAIN u <=> Balance(k) \in DOMAIN base
            /\ Balance(k) \in DOMAIN base => u[Balance(k)] = base[Balance(k)]
  BY <1>5, <1>9, <1>13
<1> QED BY <1>11, <1>12, <1>14, <1>15 DEF u, stock, ProductsLeft, VariantsLeft, BalancesLeft

\* Where an entry finds its rows.
VariantFrom(base, e, new, to) ==
    \A x \in DOMAIN e.variants :
        IF Found(base, e, x) = {} THEN to[x] = new[x]
        ELSE Variant(to[x]) \in DOMAIN base /\ base[Variant(to[x])].ext = e.variants[x].ext
HomeFrom(e, of, u) ==
    /\ \A x \in DOMAIN e.variants :
         /\ e.variants[x].qty # NoQty
         /\ \E n : /\ Variant(n) \in DOMAIN u /\ u[Variant(n)].ext = e.variants[x].ext
                   /\ u[Variant(n)].product = e.product
         => x \in DOMAIN of
    /\ \A x \in DOMAIN of :
         /\ x \in DOMAIN e.variants /\ e.variants[x].qty \in Int
         /\ Variant(of[x]) \in DOMAIN u /\ u[Variant(of[x])].ext = e.variants[x].ext
BalanceFrom(base, new, of, in) ==
    \A x \in DOMAIN of :
        IF BalancesOf(base, of[x]) = {}
        THEN \E y \in DOMAIN of : /\ of[y] = of[x] /\ y = (CHOOSE z \in DOMAIN of : of[z] = of[x])
                                  /\ in[x] = new[y]
        ELSE Balance(in[x]) \in DOMAIN base /\ base[Balance(in[x])].of = of[x]

LEMMA MadeFrom ==
    ASSUME NEW base, HasShape(base), Distinct(base), NEW e \in EntryType, NEW new, NEW found, NEW failing,
           found # NoRow => Product(e.product) \in DOMAIN base,
           DOMAIN new = DOMAIN e.variants, NEW to, NEW saved, NEW of, NEW in, NEW o,
           Made(base, e, new, found, failing, to, saved, of, in, o)
    PROVE  /\ o.saved = saved /\ saved \subseteq DOMAIN e.variants
           /\ VariantFrom(base, e, new, to)
           /\ HomeFrom(e, of, Over(o.rows, base))
           /\ BalanceFrom(base, new, of, in)
<1> DEFINE rows == BaseRows(base, e, found, to, saved)
           w == Over(rows, base)
           u == Over(o.rows, base)
           stock == StockRows(base, e, of, in)
<1>1. /\ to \in Targets(base, e, new) /\ saved \in Saved(base, e, failing, to)
      /\ of \in Homes(w, e) /\ in \in Balances(base, of, new)
      /\ o.saved = saved /\ o.rows = Over(stock, rows)
  BY DEF Made
<1>2. saved \subseteq DOMAIN e.variants BY <1>1, SavedIs
<1>3. HasShape(w) BY <1>1, RowsFit
<1>4. \A n : Variant(n) \in DOMAIN u <=> Variant(n) \in DOMAIN w
  <2>1. \A n : Variant(n) \notin DOMAIN stock BY <1>1, StockRowsFit DEF Variant, Balance
  <2> HIDE DEF stock, rows
  <2> QED BY <1>1, <2>1 DEF Over
<1>5. \A n : Variant(n) \in DOMAIN w => u[Variant(n)] = w[Variant(n)]
  <2>1. \A n : Variant(n) \notin DOMAIN stock BY <1>1, StockRowsFit DEF Variant, Balance
  <2> HIDE DEF stock, rows
  <2> QED BY <1>1, <2>1 DEF Over
<1> HIDE DEF w, u, rows, stock
<1>6. ASSUME NEW x \in DOMAIN e.variants
      PROVE  IF Found(base, e, x) = {} THEN to[x] = new[x]
             ELSE Variant(to[x]) \in DOMAIN base /\ base[Variant(to[x])].ext = e.variants[x].ext
  <2>1. DOMAIN to = DOMAIN e.variants BY <1>1 DEF Targets
  <2>2. IF Found(base, e, x) = {} THEN to[x] = new[x] ELSE to[x] \in Found(base, e, x)
    BY <1>1, <2>1 DEF Targets
  <2> QED BY <2>2, IdsAre DEF Found, VariantsOf
<1>7. ASSUME NEW x \in DOMAIN e.variants, e.variants[x].qty # NoQty,
             NEW n, Variant(n) \in DOMAIN u, u[Variant(n)].ext = e.variants[x].ext,
             u[Variant(n)].product = e.product
      PROVE  x \in DOMAIN of
  <2>1. Variant(n) \in DOMAIN w /\ w[Variant(n)] = u[Variant(n)] BY <1>4, <1>5, <1>7
  <2>2. n \in Home(w, e, x) BY <2>1, <1>7, <1>3, IdsAre DEF Home, VariantsOf
  <2>3. x \in Stocked(w, e) BY <1>7, <2>2 DEF Stocked
  <2> QED BY <1>1, <2>3 DEF Homes
<1>8. ASSUME NEW x \in DOMAIN of
      PROVE  /\ x \in DOMAIN e.variants /\ e.variants[x].qty \in Int
             /\ Variant(of[x]) \in DOMAIN u /\ u[Variant(of[x])].ext = e.variants[x].ext
             /\ IF BalancesOf(base, of[x]) = {}
                THEN \E y \in DOMAIN of : of[y] = of[x] /\ y = (CHOOSE z \in DOMAIN of : of[z] = of[x])
                                          /\ in[x] = new[y]
                ELSE Balance(in[x]) \in DOMAIN base /\ base[Balance(in[x])].of = of[x]
  <2>1. DOMAIN of = Stocked(w, e) /\ of[x] \in Home(w, e, x) BY <1>1 DEF Homes
  <2>2. x \in DOMAIN e.variants /\ e.variants[x].qty # NoQty BY <2>1 DEF Stocked
  <2>3. e.variants[x].qty \in Int BY <2>2, EntryIs
  <2>4. Variant(of[x]) \in DOMAIN w /\ w[Variant(of[x])].ext = e.variants[x].ext
    BY <2>1, <1>3, IdsAre DEF Home, VariantsOf
  <2>5. IF BalancesOf(base, of[x]) # {} THEN in[x] \in BalancesOf(base, of[x])
        ELSE in[x] = new[CHOOSE y \in DOMAIN of : of[y] = of[x]]
    BY <1>1 DEF Balances
  <2>6. CASE BalancesOf(base, of[x]) # {}
    BY <2>2, <2>3, <2>4, <2>5, <2>6, <1>4, <1>5, IdsAre DEF BalancesOf
  <2>7. CASE BalancesOf(base, of[x]) = {}
    <3> DEFINE y == CHOOSE z \in DOMAIN of : of[z] = of[x]
    <3>1. y \in DOMAIN of /\ of[y] = of[x] OBVIOUS
    <3>2. in[x] = new[y] BY <2>5, <2>7
    <3>3. \E z \in DOMAIN of : of[z] = of[x] /\ z = (CHOOSE zz \in DOMAIN of : of[zz] = of[x]) /\ in[x] = new[z]
      BY <3>1, <3>2
    <3> QED BY <2>2, <2>3, <2>4, <2>7, <3>3, <1>4, <1>5
  <2> QED BY <2>6, <2>7
<1> QED BY <1>1, <1>2, <1>6, <1>7, <1>8 DEF u, VariantFrom, HomeFrom, BalanceFrom

\* The row a saved variant was written to says what one of the variants of that row says.
LEMMA MadeVariant ==
    ASSUME NEW base, NEW e \in EntryType, NEW new, NEW found, NEW failing,
           NEW to, NEW saved, NEW of, NEW in, NEW o,
           Made(base, e, new, found, failing, to, saved, of, in, o),
           NEW n, Variant(n) \in DOMAIN Over(o.rows, base)
    PROVE  \/ \E y \in saved : to[y] = n /\ Over(o.rows, base)[Variant(n)] = SaveVariant(e, y)
           \/ /\ n \notin {to[x] : x \in saved}
              /\ Variant(n) \in DOMAIN base /\ Over(o.rows, base)[Variant(n)] = base[Variant(n)]
<1> DEFINE u == Over(o.rows, base)
<1>1. saved \subseteq DOMAIN e.variants BY SavedIs DEF Made
<1>2. /\ n \in {to[x] : x \in saved} => u[Variant(n)] = Standing(base, e, to, saved, n)
      /\ n \notin {to[x] : x \in saved} =>
            Variant(n) \in DOMAIN base /\ u[Variant(n)] = base[Variant(n)]
  <2>1. VariantsLeft(base, e, to, saved, u) BY MadeRows
  <2> HIDE DEF u
  <2> QED BY <2>1 DEF VariantsLeft, u
<1> HIDE DEF u
<1>3. CASE n \in {to[x] : x \in saved}
  <2>1. \E y \in saved : to[y] = n /\ Standing(base, e, to, saved, n) = SaveVariant(e, y)
    BY <1>1, <1>3, StandingIsSaved
  <2> QED BY <2>1, <1>2, <1>3 DEF u
<1>4. CASE n \notin {to[x] : x \in saved} BY <1>2, <1>4 DEF u
<1> QED BY <1>3, <1>4

LEMMA MadeBalance ==
    ASSUME NEW base, NEW e \in EntryType, NEW new, NEW found, NEW failing,
           NEW to, NEW saved, NEW of, NEW in, NEW o,
           Made(base, e, new, found, failing, to, saved, of, in, o),
           NEW k, Balance(k) \in DOMAIN Over(o.rows, base)
    PROVE  \/ \E x \in DOMAIN of :
                /\ in[x] = k
                /\ Over(o.rows, base)[Balance(k)] = [of |-> of[x], qty |-> Clamped(e.variants[x].qty)]
           \/ /\ Balance(k) \in DOMAIN base /\ Over(o.rows, base)[Balance(k)] = base[Balance(k)]
              /\ \A x \in DOMAIN of : in[x] = k => base[Balance(k)].qty = Clamped(e.variants[x].qty)
<1> DEFINE u == Over(o.rows, base)
           stock == StockRows(base, e, of, in)
<1>1. /\ Balance(k) \in DOMAIN stock => u[Balance(k)] = stock[Balance(k)]
      /\ Balance(k) \notin DOMAIN stock =>
            /\ Balance(k) \in DOMAIN base
            /\ u[Balance(k)] = base[Balance(k)]
  <2>1. BalancesLeft(base, stock, u) BY MadeRows
  <2> HIDE DEF stock, u
  <2> QED BY <2>1 DEF BalancesLeft, u
<1>2. Balance(k)[2] = k BY DEF Balance
<1>3. CASE Balance(k) \in DOMAIN stock
  <2>1. \E x \in DOMAIN of :
           /\ in[x] = k
           /\ stock[Balance(k)] = [of |-> of[x], qty |-> Clamped(e.variants[x].qty)]
    BY <1>2, <1>3, StockRowsFit DEF Made
  <2> QED BY <2>1, <1>1, <1>3
<1>4. CASE Balance(k) \notin DOMAIN stock
  <2>1. \A x \in DOMAIN of : in[x] = k => base[Balance(k)].qty = Clamped(e.variants[x].qty)
    BY <1>1, <1>4 DEF StockRows
  <2> QED BY <2>1, <1>1, <1>4
<1> QED BY <1>3, <1>4

(***************************************************************************)
(* Variants and balances that are there once                               *)
(***************************************************************************)
Single(view) ==
    /\ \A n, m : Variant(n) \in DOMAIN view /\ Variant(m) \in DOMAIN view /\ n # m =>
          view[Variant(n)].ext # view[Variant(m)].ext
    /\ \A n, m : Balance(n) \in DOMAIN view /\ Balance(m) \in DOMAIN view /\ n # m =>
          view[Balance(n)].of # view[Balance(m)].of

LEMMA SinglesAre ==
    ASSUME NEW view, HasShape(view)
    PROVE  HasDoubles(view) <=> ~Single(view)
<1>1. \A n : /\ n \in IdsOf(view, "variant") <=> Variant(n) \in DOMAIN view
             /\ n \in IdsOf(view, "balance") <=> Balance(n) \in DOMAIN view
  BY IdsAre
<1> QED BY <1>1 DEF HasDoubles, Single

\* An entry that lists nothing twice doubles nothing.
LEMMA MadeSingle ==
    ASSUME NEW base, HasShape(base), Distinct(base), Single(base),
           NEW e \in EntryType, ~RepeatsVariant(e), NEW new, NEW found, NEW failing,
           found # NoRow => Product(e.product) \in DOMAIN base,
           DOMAIN new = DOMAIN e.variants, NEW to, NEW saved, NEW of, NEW in, NEW o,
           Made(base, e, new, found, failing, to, saved, of, in, o)
    PROVE  Single(Over(o.rows, base))
<1> DEFINE u == Over(o.rows, base)
<1>1. saved \subseteq DOMAIN e.variants BY MadeFrom
<1>2. \A x \in DOMAIN e.variants :
         IF Found(base, e, x) = {} THEN to[x] = new[x]
         ELSE Variant(to[x]) \in DOMAIN base /\ base[Variant(to[x])].ext = e.variants[x].ext
  <2>1. VariantFrom(base, e, new, to) BY MadeFrom
  <2> QED BY <2>1 DEF VariantFrom
<1>3. \A n : Variant(n) \in DOMAIN u =>
         \/ \E y \in saved : to[y] = n /\ u[Variant(n)] = SaveVariant(e, y)
         \/ n \notin {to[x] : x \in saved} /\ Variant(n) \in DOMAIN base /\ u[Variant(n)] = base[Variant(n)]
  BY MadeVariant
<1>4. \A k : Balance(k) \in DOMAIN u =>
         \/ \E x \in DOMAIN of : in[x] = k /\ u[Balance(k)].of = of[x]
         \/ Balance(k) \in DOMAIN base /\ u[Balance(k)] = base[Balance(k)]
  <2> SUFFICES ASSUME NEW k, Balance(k) \in DOMAIN u
               PROVE \/ \E x \in DOMAIN of : in[x] = k /\ u[Balance(k)].of = of[x]
                     \/ Balance(k) \in DOMAIN base /\ u[Balance(k)] = base[Balance(k)]
    OBVIOUS
  <2>1. \/ \E x \in DOMAIN of : in[x] = k /\ u[Balance(k)] = [of |-> of[x], qty |-> Clamped(e.variants[x].qty)]
        \/ Balance(k) \in DOMAIN base /\ u[Balance(k)] = base[Balance(k)]
    <3>1. \/ \E x \in DOMAIN of : in[x] = k /\ u[Balance(k)] = [of |-> of[x], qty |-> Clamped(e.variants[x].qty)]
          \/ /\ Balance(k) \in DOMAIN base /\ u[Balance(k)] = base[Balance(k)]
             /\ \A x \in DOMAIN of : in[x] = k => base[Balance(k)].qty = Clamped(e.variants[x].qty)
      BY MadeBalance
    <3> HIDE DEF u
    <3> QED BY <3>1
  <2> HIDE DEF u
  <2> QED BY <2>1
<1>5. \A x \in DOMAIN of :
         IF BalancesOf(base, of[x]) = {}
         THEN \E y \in DOMAIN of : of[y] = of[x] /\ y = (CHOOSE z \in DOMAIN of : of[z] = of[x]) /\ in[x] = new[y]
         ELSE Balance(in[x]) \in DOMAIN base /\ base[Balance(in[x])].of = of[x]
  <2>1. BalanceFrom(base, new, of, in) BY MadeFrom
  <2> QED BY <2>1 DEF BalanceFrom
<1> HIDE DEF u
<1>6. \A y \in saved : SaveVariant(e, y).ext = e.variants[y].ext BY DEF SaveVariant
<1>7. ASSUME NEW n, Variant(n) \in DOMAIN u, NEW m, Variant(m) \in DOMAIN u, NEW y \in saved, to[y] = n,
             u[Variant(n)] = SaveVariant(e, y), u[Variant(n)].ext = u[Variant(m)].ext
      PROVE  n = m
  <2>1. u[Variant(m)].ext = e.variants[y].ext BY <1>6, <1>7
  <2>2. CASE \E z \in saved : to[z] = m /\ u[Variant(m)] = SaveVariant(e, z)
    <3>1. PICK z \in saved : to[z] = m /\ u[Variant(m)] = SaveVariant(e, z) BY <2>2
    <3>2. e.variants[z].ext = e.variants[y].ext BY <3>1, <2>1, <1>6
    <3>3. z = y BY <3>2, <1>1 DEF RepeatsVariant
    <3> QED BY <3>1, <3>3, <1>7
  <2>3. CASE m \notin {to[x] : x \in saved} /\ Variant(m) \in DOMAIN base /\ u[Variant(m)] = base[Variant(m)]
    <3>1. base[Variant(m)].ext = e.variants[y].ext BY <2>1, <2>3
    <3>2. m \in Found(base, e, y) BY <3>1, <2>3, IdsAre DEF Found, VariantsOf
    <3>3. Variant(n) \in DOMAIN base /\ base[Variant(n)].ext = e.variants[y].ext BY <1>1, <1>2, <1>7, <3>2
    <3> QED BY <3>1, <3>3, <2>3 DEF Single
  <2> QED BY <1>3, <1>7, <2>2, <2>3
<1>8. ASSUME NEW n, NEW m, Variant(n) \in DOMAIN u, Variant(m) \in DOMAIN u,
             u[Variant(n)].ext = u[Variant(m)].ext
      PROVE  n = m
  <2>1. CASE \E y \in saved : to[y] = n /\ u[Variant(n)] = SaveVariant(e, y) BY <1>7, <1>8, <2>1
  <2>2. CASE \E y \in saved : to[y] = m /\ u[Variant(m)] = SaveVariant(e, y) BY <1>7, <1>8, <2>2
  <2>3. CASE /\ Variant(n) \in DOMAIN base /\ u[Variant(n)] = base[Variant(n)]
             /\ Variant(m) \in DOMAIN base /\ u[Variant(m)] = base[Variant(m)]
    BY <1>8, <2>3 DEF Single
  <2> QED BY <1>3, <1>8, <2>1, <2>2, <2>3
<1>9. ASSUME NEW k, Balance(k) \in DOMAIN u, NEW l, Balance(l) \in DOMAIN u, NEW x \in DOMAIN of, in[x] = k,
             u[Balance(k)].of = of[x], u[Balance(k)].of = u[Balance(l)].of
      PROVE  k = l
  <2>1. CASE \E z \in DOMAIN of : in[z] = l /\ u[Balance(l)].of = of[z]
    <3>1. PICK z \in DOMAIN of : in[z] = l /\ u[Balance(l)].of = of[z] BY <2>1
    <3>2. of[z] = of[x] BY <3>1, <1>9
    <3>3. CASE BalancesOf(base, of[x]) = {}
      <4>1. PICK a \in DOMAIN of : a = (CHOOSE q \in DOMAIN of : of[q] = of[x]) /\ in[x] = new[a] BY <1>5, <3>3
      <4>2. PICK c \in DOMAIN of : c = (CHOOSE q \in DOMAIN of : of[q] = of[z]) /\ in[z] = new[c] BY <1>5, <3>2, <3>3
      <4>3. a = c BY <4>1, <4>2, <3>2
      <4> QED BY <4>1, <4>2, <4>3, <3>1, <1>9
    <3>4. CASE BalancesOf(base, of[x]) # {}
      <4>1. Balance(in[x]) \in DOMAIN base /\ base[Balance(in[x])].of = of[x] BY <1>5, <3>4
      <4>2. Balance(in[z]) \in DOMAIN base /\ base[Balance(in[z])].of = of[z] BY <1>5, <3>2, <3>4
      <4> QED BY <4>1, <4>2, <3>1, <3>2, <1>9 DEF Single
    <3> QED BY <3>3, <3>4
  <2>2. CASE Balance(l) \in DOMAIN base /\ u[Balance(l)] = base[Balance(l)]
    <3>1. base[Balance(l)].of = of[x] BY <2>2, <1>9
    <3>2. l \in BalancesOf(base, of[x]) BY <2>2, <3>1, IdsAre DEF BalancesOf
    <3>3. Balance(k) \in DOMAIN base /\ base[Balance(k)].of = of[x] BY <1>5, <1>9, <3>2
    <3> QED BY <3>1, <3>3, <2>2 DEF Single
  <2> QED BY <1>4, <1>9, <2>1, <2>2
<1>10. ASSUME NEW n, NEW m, Balance(n) \in DOMAIN u, Balance(m) \in DOMAIN u,
              u[Balance(n)].of = u[Balance(m)].of
       PROVE  n = m
  <2>1. CASE \E x \in DOMAIN of : in[x] = n /\ u[Balance(n)].of = of[x] BY <1>9, <1>10, <2>1
  <2>2. CASE \E x \in DOMAIN of : in[x] = m /\ u[Balance(m)].of = of[x] BY <1>9, <1>10, <2>2
  <2>3. CASE /\ Balance(n) \in DOMAIN base /\ u[Balance(n)] = base[Balance(n)]
             /\ Balance(m) \in DOMAIN base /\ u[Balance(m)] = base[Balance(m)]
    BY <1>10, <2>3 DEF Single
  <2> QED BY <1>4, <1>10, <2>1, <2>2, <2>3
<1>11. Single(u) BY <1>8, <1>10 DEF Single
<1> QED BY <1>11 DEF u

(***************************************************************************)
(* Requests that meet                                                      *)
(***************************************************************************)
\* Of two requests at work each has met the other.
MetOK ==
    /\ DOMAIN met = Requests
    /\ \A r \in Requests : pc[r] \in {"idle", "queued"} => met[r] = {}
    /\ \A q, r \in Requests : q # r /\ AtWork(q) /\ AtWork(r) => r \in met[q]

LEMMA MetStep ==
    ASSUME PcOK, MetOK, [Next]_vars
    PROVE  MetOK' /\ \A q \in Requests : met[q] \subseteq met'[q]
<1> USE TwoKinds DEF PcOK, Requests
<1> DEFINE Goal == MetOK' /\ \A q \in Requests : met[q] \subseteq met'[q]
<1>1. ASSUME NEW r \in Requests, NEW where, Goes(r, where), UNCHANGED met,
             where = "queued" => pc[r] = "idle", where # "idle",
             where \notin {"queued", "reporting", "failing", "over"} => AtWork(r)
      PROVE  Goal
  <2>1. pc'[r] = where /\ \A q \in Requests \ {r} : pc'[q] = pc[q] BY <1>1 DEF Goes
  <2>2. \A q \in Requests : AtWork(q)' => AtWork(q) BY <1>1, <2>1 DEF AtWork
  <2>3. \A q \in Requests : pc'[q] \in {"idle", "queued"} => pc[q] \in {"idle", "queued"}
    BY <1>1, <2>1
  <2> QED BY <1>1, <2>2, <2>3 DEF MetOK
<1>2. CASE UNCHANGED vars BY <1>2 DEF vars, histVars, MetOK, AtWork
<1>3. CASE \E r \in Requests, f \in Feeds \cup Lists : Request(r, f) BY <1>1, <1>3 DEF Request, histVars
<1>4. ASSUME NEW r \in Requests, MarkJobRunning(r) PROVE Goal
  <2>1. /\ pc[r] = "queued" /\ \E where \in {"begin", "reporting"} : Goes(r, where)
        /\ Begins(r)
    BY <1>4 DEF MarkJobRunning
  <2>2. ~AtWork(r) /\ pc'[r] \in {"begin", "reporting"} /\ \A q \in Requests \ {r} : pc'[q] = pc[q]
    BY <2>1 DEF AtWork, Goes
  <2>3. DOMAIN met' = Requests BY <2>1 DEF Begins
  <2>4. \A q \in Requests \ {r} : met'[q] = IF AtWork(q) THEN met[q] \cup {r} ELSE met[q]
    BY <2>1 DEF Begins
  <2>5. met'[r] = {x \in Requests : AtWork(x)} /\ met[r] = {} BY <2>1 DEF Begins, MetOK
  <2>6. \A q \in Requests : met[q] \subseteq met'[q] BY <2>4, <2>5
  <2>7. \A q \in Requests : pc'[q] \in {"idle", "queued"} => met'[q] = {}
    BY <2>2, <2>4 DEF MetOK, AtWork
  <2>8. \A q \in Requests \ {r} : AtWork(q)' => AtWork(q) BY <2>2 DEF AtWork
  <2>9. \A q, z \in Requests : q # z /\ AtWork(q)' /\ AtWork(z)' => z \in met'[q]
    <3> SUFFICES ASSUME NEW q \in Requests, NEW z \in Requests, q # z, AtWork(q)', AtWork(z)'
                 PROVE  z \in met'[q]
      OBVIOUS
    <3>1. CASE q = r BY <3>1, <2>5, <2>8
    <3>2. CASE q # r /\ z = r BY <3>2, <2>4, <2>8
    <3>3. CASE q # r /\ z # r
      <4>1. AtWork(q) /\ AtWork(z) BY <3>3, <2>8
      <4>2. z \in met[q] BY <4>1 DEF MetOK
      <4> QED BY <4>2, <2>6
    <3> QED BY <3>1, <3>2, <3>3
  <2> QED BY <2>3, <2>6, <2>7, <2>9 DEF MetOK
<1>5. ASSUME NEW r \in Requests, Jobs(r) \/ MarkRunningFails(r) \/ MarkDoneFails(r) \/ MarkFailedFails(r)
      PROVE  Goal
  BY <1>1, <1>4, <1>5 DEF Jobs, MarkJobDone, MarkJobFailed, MarkRunningFails, MarkDoneFails,
     MarkFailedFails, histVars
<1>6. ASSUME NEW i \in Imports, Import(i) \/ Fails(i) PROVE Goal
  <2>1. CASE FindCategories(i) \/ SaveCategories(i) \/ Archive(i) \/ Commit(i) \/ CommitUnheard(i)
    <3>1. /\ pc[i] \in {"begin", "categories", "archive", "commit"} /\ UNCHANGED met
          /\ \E where \in {"categories", "commit", "entry", "reporting", "failing"} : Goes(i, where)
      BY <2>1 DEF FindCategories, SaveCategories, Archive, Commit, CommitUnheard, Committed, histVars
    <3> QED BY <1>1, <3>1 DEF AtWork
  <2>2. CASE TransactionFails(i) BY <1>1, <2>2 DEF TransactionFails, histVars
  <2>3. CASE EntryFails(i) BY <1>1, <2>3 DEF EntryFails, NextEntry, histVars, AtWork
  <2>4. CASE \E F : SaveNextEntry(i, F) BY <1>1, <2>4 DEF SaveNextEntry, NextEntry, histVars, AtWork
  <2> QED BY <1>6, <2>1, <2>2, <2>3, <2>4 DEF Import, Fails, DeadlockFailsEntry, DeadlockFailsAll
<1>7. ASSUME NEW s \in Stocks, Stock(s) \/ StockItemFails(s) PROVE Goal
  <2>1. pc[s] \in {"begin", "look", "insert", "update"} /\ UNCHANGED met
    BY <1>7 DEF Stock, StockFinds, StockSkips, StockLooks, StockWrites, StockItemFails, histVars
  <2>2. \E where \in {"begin", "look", "insert", "update", "reporting"} : Goes(s, where)
    BY <1>7 DEF Stock, StockFinds, StockSkips, StockLooks, StockWrites, StockItemFails, NextItem
  <2> QED BY <1>1, <2>1, <2>2 DEF AtWork
<1>8. CASE Crash BY <1>8 DEF Crash, histVars, MetOK, AtWork
<1> QED BY <1>2, <1>3, <1>5, <1>6, <1>7, <1>8 DEF Next

HistOK == committed \subseteq Imports /\ (last # NoRow => last \in committed)

LEMMA HistStep ==
    ASSUME HistOK, [Next]_vars
    PROVE  /\ HistOK' /\ committed \subseteq committed'
           /\ committed' # committed =>
                \E i \in Imports : pc[i] = "commit" /\ committed' = committed \cup {i} /\ UNCHANGED feed
<1> DEFINE Goal == /\ HistOK' /\ committed \subseteq committed'
                   /\ committed' # committed =>
                        \E i \in Imports : pc[i] = "commit" /\ committed' = committed \cup {i} /\ UNCHANGED feed
<1>0. ASSUME UNCHANGED <<committed, last>> PROVE Goal BY <1>0 DEF HistOK
<1>1. CASE UNCHANGED vars BY <1>0, <1>1 DEF vars, histVars
<1>2. CASE \E r \in Requests, f \in Feeds \cup Lists : Request(r, f) BY <1>0, <1>2 DEF Request, histVars
<1>3. CASE \E r \in Requests : Jobs(r) \/ MarkRunningFails(r) \/ MarkDoneFails(r) \/ MarkFailedFails(r)
  BY <1>0, <1>3 DEF Jobs, MarkJobRunning, MarkJobDone, MarkJobFailed, MarkRunningFails, MarkDoneFails,
     MarkFailedFails, histVars
<1>4. ASSUME NEW i \in Imports, Import(i) \/ Fails(i) PROVE Goal
  <2>1. CASE Commit(i) \/ CommitUnheard(i)
    <3>1. pc[i] = "commit" /\ Committed(i) BY <2>1 DEF Commit, CommitUnheard
    <3>2. committed' = committed \cup {i} /\ UNCHANGED feed /\ (last' = i \/ UNCHANGED last)
      BY <3>1 DEF Committed
    <3> QED BY <3>1, <3>2 DEF HistOK
  <2> QED BY <1>0, <1>4, <2>1 DEF Import, Fails, DeadlockFailsEntry, DeadlockFailsAll, FindCategories,
        SaveCategories, TransactionFails, EntryFails, SaveNextEntry, Archive, histVars
<1>5. CASE \E s \in Stocks : Stock(s) \/ StockItemFails(s)
  BY <1>0, <1>5 DEF Stock, StockFinds, StockSkips, StockLooks, StockWrites, StockItemFails, histVars
<1>6. CASE Crash BY <1>0, <1>6 DEF Crash, histVars
<1> QED BY <1>1, <1>2, <1>3, <1>4, <1>5, <1>6 DEF Next

\* What a request has brought stays what it is.
LEMMA FeedKept ==
    ASSUME FeedsOK, [Next]_vars
    PROVE  \A r \in Requests : pc[r] # "idle" => feed'[r] = feed[r]
<1>1. CASE UNCHANGED feed BY <1>1
<1>2. CASE \E r \in Requests, f \in Feeds \cup Lists : Request(r, f) BY <1>2 DEF Request, FeedsOK
<1>3. CASE \E r \in Requests : Jobs(r) \/ MarkRunningFails(r) \/ MarkDoneFails(r) \/ MarkFailedFails(r)
  BY <1>1, <1>3 DEF Jobs, MarkJobRunning, MarkJobDone, MarkJobFailed, MarkRunningFails, MarkDoneFails,
     MarkFailedFails
<1>4. CASE \E i \in Imports : Import(i) \/ Fails(i)
  BY <1>1, <1>4 DEF Import, Fails, DeadlockFailsEntry, DeadlockFailsAll, FindCategories, SaveCategories,
     TransactionFails, EntryFails, SaveNextEntry, Archive, Commit, CommitUnheard, Committed
<1>5. CASE \E s \in Stocks : Stock(s) \/ StockItemFails(s)
  BY <1>1, <1>5 DEF Stock, StockFinds, StockSkips, StockLooks, StockWrites, StockItemFails
<1>6. CASE Crash BY <1>1, <1>6 DEF Crash
<1> QED BY <1>1, <1>2, <1>3, <1>4, <1>5, <1>6 DEF Next, vars

Tidy(f) == \A k \in DOMAIN f : ~RepeatsVariant(f[k])
Alone == \A r \in Requests : met[r] = {}
Careful == Alone /\ \A i \in committed : Tidy(feed[i])

LEMMA CarefulBefore ==
    ASSUME PcOK, JobsOK, FeedsOK, MetOK, HistOK, [Next]_vars, Careful'
    PROVE  /\ Careful /\ \A i \in committed' \ committed : Tidy(feed[i])
<1>1. Alone
  <2>1. \A r \in Requests : met[r] \subseteq met'[r] BY MetStep
  <2> QED BY <2>1 DEF Careful, Alone
<1>2. \A i \in committed : pc[i] # "idle" /\ i \in Requests BY DEF JobsOK, Told, HistOK, Requests
<1>3. \A i \in committed : Tidy(feed[i])
  <2>1. \A i \in committed : feed'[i] = feed[i] BY <1>2, FeedKept
  <2> QED BY <2>1, HistStep DEF Careful, Tidy
<1>4. \A i \in committed' \ committed : Tidy(feed[i])
  <2>1. committed' # committed => UNCHANGED feed BY HistStep
  <2> QED BY <2>1 DEF Careful, Tidy
<1> QED BY <1>1, <1>3, <1>4 DEF Careful

\* While nobody has met anybody and no feed listed a variant twice, all is there once.
SinglesOK ==
    Careful =>
        /\ Single(db)
        /\ \A i \in Imports : InTransaction(i) /\ Tidy(feed[i]) => Single(View(i))
        /\ \A s \in Stocks : pc[s] = "insert" => BalancesOf(db, row[s]) = {}

LEMMA SingleBare ==
    ASSUME NEW d
    PROVE  Single(Over(<<>>, d)) <=> Single(d)
<1>1. DOMAIN Over(<<>>, d) = DOMAIN d /\ \A k \in DOMAIN d : Over(<<>>, d)[k] = d[k]
  BY NoRows DEF Over
<1> QED BY <1>1 DEF Single

LEMMA SinglePlain ==
    ASSUME NEW rows, NEW d, \A n : Variant(n) \notin DOMAIN rows /\ Balance(n) \notin DOMAIN rows
    PROVE  Single(Over(rows, d)) <=> Single(d)
<1>1. \A n : /\ Variant(n) \in DOMAIN Over(rows, d) <=> Variant(n) \in DOMAIN d
             /\ Balance(n) \in DOMAIN Over(rows, d) <=> Balance(n) \in DOMAIN d
  BY DEF Over
<1>2. \A n : /\ Variant(n) \in DOMAIN d => Over(rows, d)[Variant(n)] = d[Variant(n)]
             /\ Balance(n) \in DOMAIN d => Over(rows, d)[Balance(n)] = d[Balance(n)]
  BY DEF Over
<1> QED BY <1>1, <1>2 DEF Single

\* What a step of an import writes besides the rows of an entry.
LEMMA PlainRows ==
    ASSUME PcOK, FeedsOK, MineOK, NEW i \in Imports, SaveCategories(i) \/ Archive(i)
    PROVE  \E rows : /\ \A n : Variant(n) \notin DOMAIN rows /\ Balance(n) \notin DOMAIN rows
                     /\ mine' = [mine EXCEPT ![i] = Over(rows, mine[i])]
<1>1. CASE SaveCategories(i)
  <2> DEFINE rows == [k \in {Category(l) : l \in LowerOf(NewNames(i))} |-> TRUE]
  <2>1. mine[i] = <<>> /\ mine' = [mine EXCEPT ![i] = rows] BY <1>1 DEF SaveCategories, MineOK
  <2>2. rows = Over(rows, mine[i]) BY <2>1, NoRows DEF Over
  <2>3. \A n : Variant(n) \notin DOMAIN rows /\ Balance(n) \notin DOMAIN rows
    BY DEF Variant, Balance, Category
  <2> HIDE DEF rows
  <2> QED BY <2>1, <2>2, <2>3
<1>2. CASE Archive(i)
  <2> DEFINE rows == [k \in {Product(p) : p \in ToArchive(i)} |-> [View(i)[k] EXCEPT !.status = "archived"]]
  <2>1. mine' = [mine EXCEPT ![i] = Over(rows, mine[i])] BY <1>2 DEF Archive, MineOK
  <2>2. \A n : Variant(n) \notin DOMAIN rows /\ Balance(n) \notin DOMAIN rows
    BY DEF Variant, Balance, Product
  <2> HIDE DEF rows
  <2> QED BY <2>1, <2>2
<1> QED BY <1>1, <1>2

LEMMA SinglesStep ==
    ASSUME CatalogInv, MetOK, HistOK, SinglesOK, [Next]_vars
    PROVE  SinglesOK'
<1> USE TwoKinds DEF PcOK, Requests
<1> SUFFICES ASSUME Careful' PROVE SinglesOK' BY DEF SinglesOK
<1> USE DEF CatalogInv
<1>0. Careful /\ \A i \in committed' \ committed : Tidy(feed[i]) BY CarefulBefore
<1>a. \A q, r \in Requests : AtWork(q) /\ AtWork(r) => q = r BY <1>0 DEF Careful, Alone, MetOK
<1>b. /\ Single(db)
      /\ \A i \in Imports : InTransaction(i) /\ Tidy(feed[i]) => Single(Over(mine[i], db))
      /\ \A s \in Stocks : pc[s] = "insert" => BalancesOf(db, row[s]) = {}
  BY <1>0 DEF SinglesOK, View
<1>c. /\ Single(db')
      /\ \A i \in Imports : InTransaction(i)' /\ Tidy(feed'[i]) => Single(Over(mine'[i], db'))
      /\ \A s \in Stocks : pc'[s] = "insert" => BalancesOf(db', row'[s]) = {}
      => SinglesOK'
  BY DEF SinglesOK, View
<1>1. ASSUME UNCHANGED <<db, mine, row>>, NEW r \in Requests, NEW where, Goes(r, where),
             where \in {"categories", "entry", "archive", "commit"} =>
                (InTransaction(r) \/ mine[r] = <<>>) /\ UNCHANGED feed,
             where # "insert"
      PROVE  SinglesOK'
  <2>1. pc'[r] = where /\ \A q \in Requests \ {r} : pc'[q] = pc[q] BY <1>1 DEF Goes
  <2>2. ASSUME NEW i \in Imports, InTransaction(i)', Tidy(feed'[i]) PROVE Single(Over(mine[i], db))
    <3>1. CASE i # r
      <4>1. InTransaction(i) /\ pc[i] # "idle" BY <2>1, <2>2, <3>1 DEF InTransaction
      <4>2. feed'[i] = feed[i] BY <4>1, FeedKept
      <4> QED BY <4>1, <4>2, <1>b, <2>2
    <3>2. CASE i = r
      <4>1. (InTransaction(r) \/ mine[r] = <<>>) /\ UNCHANGED feed BY <1>1, <2>1, <2>2, <3>2 DEF InTransaction
      <4> QED BY <4>1, <3>2, <2>2, <1>b, SingleBare
    <3> QED BY <3>1, <3>2
  <2>3. \A s \in Stocks : pc'[s] = "insert" => BalancesOf(db', row'[s]) = {}
    BY <1>1, <1>b, <2>1
  <2> QED BY <1>1, <1>b, <1>c, <2>2, <2>3
<1>2. ASSUME UNCHANGED <<db, row, feed>>, NEW i \in Imports, NEW where, Goes(i, where), NEW f,
             mine' = [mine EXCEPT ![i] = f],
             where \in {"categories", "entry", "archive", "commit"} /\ Tidy(feed[i]) => Single(Over(f, db))
      PROVE  SinglesOK'
  <2>1. pc'[i] = where /\ \A q \in Requests \ {i} : pc'[q] = pc[q] BY <1>2 DEF Goes
  <2>2. mine'[i] = f /\ \A j \in Imports \ {i} : mine'[j] = mine[j] BY <1>2 DEF MineOK
  <2>3. \A j \in Imports : InTransaction(j)' /\ Tidy(feed'[j]) => Single(Over(mine'[j], db'))
    BY <1>2, <1>b, <2>1, <2>2 DEF InTransaction
  <2>4. \A s \in Stocks : pc'[s] = "insert" => BalancesOf(db', row'[s]) = {}
    BY <1>2, <1>b, <2>1
  <2> QED BY <1>2, <1>b, <1>c, <2>3, <2>4
\* When the tables change, whoever changes them is alone at work, and goes on outside.
<1>3. ASSUME NEW r \in Requests, AtWork(r), Single(db'),
             \A q \in Requests \ {r} : pc'[q] = pc[q],
             pc'[r] \notin {"categories", "entry", "archive", "commit", "insert"}
      PROVE  SinglesOK'
  <2>1. \A q \in Requests : pc'[q] \notin {"categories", "entry", "archive", "commit", "insert"}
    BY <1>3, <1>a DEF AtWork
  <2> QED BY <1>3, <1>c, <2>1 DEF InTransaction
<1>4. ASSUME NEW i \in Imports, Commit(i) \/ CommitUnheard(i) PROVE SinglesOK'
  <2>1. /\ pc[i] = "commit" /\ db' = View(i) /\ committed' = committed \cup {i}
        /\ \E where \in {"reporting", "failing"} : Goes(i, where)
    BY <1>4 DEF Commit, CommitUnheard, Committed
  <2>2. Tidy(feed[i])
    <3>1. i \notin committed BY <2>1 DEF JobsOK, Told
    <3> QED BY <2>1, <3>1, <1>0
  <2>3. Single(db') BY <2>1, <2>2, <1>b DEF InTransaction, View
  <2> QED BY <1>3, <2>1, <2>3 DEF AtWork, Goes
<1>5. ASSUME NEW s \in Stocks, StockWrites(s) PROVE SinglesOK'
  <2>1. pc[s] \in {"insert", "update"} /\ \E where \in {"begin", "reporting"} : Goes(s, where)
    BY <1>5 DEF StockWrites, NextItem
  <2>2. Single(db')
    <3>1. CASE /\ pc[s] = "insert"
               /\ db' = Over([k \in {Balance(<<s, at[s], 0>>)} |-> [of |-> row[s], qty |-> Item(s).qty]], db)
      <4> DEFINE b == <<s, at[s], 0>>
      <4>1. /\ DOMAIN db' = DOMAIN db \cup {Balance(b)}
            /\ \A k \in DOMAIN db : k # Balance(b) => db'[k] = db[k]
            /\ db'[Balance(b)].of = row[s]
        BY <3>1 DEF Over
      <4>2. \A k : Balance(k) \in DOMAIN db => db[Balance(k)].of # row[s]
        BY <1>b, <3>1, KeyOf DEF BalancesOf
      <4>3. \A k, n : Balance(k) # Variant(n) /\ (Balance(k) = Balance(n) => k = n) BY DEF Balance, Variant
      <4> HIDE DEF b
      <4> QED BY <1>b, <4>1, <4>2, <4>3 DEF Single
    <3>2. CASE pc[s] = "update" /\ db' = [db EXCEPT ![Balance(row[s])].qty = Item(s).qty]
      <4>1. Balance(row[s]) \in DOMAIN db BY <3>2 DEF RowOK
      <4>2. db[Balance(row[s])] \in BalanceRow(db) BY <4>1, ShapeOfBalance DEF TablesOK
      <4>3. db'[Balance(row[s])] = [db[Balance(row[s])] EXCEPT !.qty = Item(s).qty] BY <3>2, <4>1
      <4>4. db'[Balance(row[s])].of = db[Balance(row[s])].of BY <4>2, <4>3 DEF BalanceRow
      <4>5. DOMAIN db' = DOMAIN db /\ \A k \in DOMAIN db : k # Balance(row[s]) => db'[k] = db[k] BY <3>2
      <4>6. \A n : Variant(n) # Balance(row[s]) BY DEF Variant, Balance
      <4>7. \A n : Balance(n) \in DOMAIN db => db'[Balance(n)].of = db[Balance(n)].of BY <4>4, <4>5
      <4> QED BY <1>b, <4>5, <4>6, <4>7 DEF Single
    <3> QED BY <1>5, <3>1, <3>2 DEF StockWrites
  <2> QED BY <1>3, <2>1, <2>2 DEF AtWork, Goes
<1>6. ASSUME NEW i \in Imports, \E F : SaveNextEntry(i, F) PROVE SinglesOK'
  <2>1. PICK F : SaveNextEntry(i, F) BY <1>6
  <2>2. PICK o \in Outcomes(i, F) : mine' = [mine EXCEPT ![i] = Over(o.rows, mine[i])]
    BY <2>1 DEF SaveNextEntry, MineOK
  <2>3. pc[i] = "entry" /\ UNCHANGED <<db, row, feed>> BY <2>1 DEF SaveNextEntry
  <2>4. \E where \in {"entry", "archive"} : Goes(i, where) BY <2>1 DEF SaveNextEntry, NextEntry
  <2>5. ASSUME Tidy(feed[i]) PROVE Single(Over(Over(o.rows, mine[i]), db))
    <3> DEFINE base == View(i)
               e == Entry(i)
               new == NewRows(i)
               found == loaded[i][e.product]
    <3>1. PICK to, saved, of, in : Made(base, e, new, found, F, to, saved, of, in, o) BY OutcomeMade
    <3>2. at[i] \in DOMAIN feed[i] /\ e \in EntryType /\ (found # NoRow => Product(e.product) \in DOMAIN base)
      BY <2>3, EntryFound
    <3>3. HasShape(base) /\ Distinct(base) BY DEF TablesOK
    <3>4. Single(base) BY <1>b, <2>3, <2>5 DEF View, InTransaction
    <3>5. ~RepeatsVariant(e) BY <2>5, <3>2 DEF Tidy, Entry
    <3>6. DOMAIN new = DOMAIN e.variants BY DEF NewRows
    <3> HIDE DEF base, e, new, found
    <3>7. Single(Over(o.rows, base)) BY <3>1, <3>2, <3>3, <3>4, <3>5, <3>6, MadeSingle
    <3> QED BY <3>7, OverOver DEF View, base
  <2> QED BY <1>2, <2>2, <2>3, <2>4, <2>5
<1>7. ASSUME NEW i \in Imports, SaveCategories(i) \/ Archive(i) PROVE SinglesOK'
  <2>1. PICK rows : /\ \A n : Variant(n) \notin DOMAIN rows /\ Balance(n) \notin DOMAIN rows
                    /\ mine' = [mine EXCEPT ![i] = Over(rows, mine[i])]
    BY <1>7, PlainRows
  <2>2. InTransaction(i) /\ UNCHANGED <<db, row, feed>> /\ \E where : Goes(i, where)
    BY <1>7 DEF SaveCategories, Archive, InTransaction
  <2>3. ASSUME Tidy(feed[i]) PROVE Single(Over(Over(rows, mine[i]), db))
    <3>1. Single(Over(mine[i], db)) BY <1>b, <2>2, <2>3
    <3> QED BY <2>1, <3>1, SinglePlain, OverOver
  <2> QED BY <1>2, <2>1, <2>2, <2>3
<1>8. CASE UNCHANGED vars BY <1>8, <1>b, <1>c DEF vars, txVars, InTransaction
<1>9. CASE \E r \in Requests, f \in Feeds \cup Lists : Request(r, f) BY <1>1, <1>9 DEF Request, txVars
<1>10. ASSUME NEW r \in Requests, Jobs(r) \/ MarkRunningFails(r) \/ MarkDoneFails(r) \/ MarkFailedFails(r)
       PROVE  SinglesOK'
  BY <1>1, <1>10 DEF Jobs, MarkJobRunning, MarkJobDone, MarkJobFailed, MarkRunningFails, MarkDoneFails,
     MarkFailedFails, txVars
<1>11. ASSUME NEW i \in Imports, Import(i) \/ Fails(i) PROVE SinglesOK'
  <2>1. CASE FindCategories(i)
    <3>1. mine[i] = <<>> BY <2>1 DEF FindCategories, MineOK, InTransaction
    <3> QED BY <1>1, <2>1, <3>1 DEF FindCategories
  <2>2. CASE TransactionFails(i)
    <3>1. \E f : mine' = [mine EXCEPT ![i] = f] BY <2>2 DEF TransactionFails
    <3>2. Goes(i, "failing") /\ UNCHANGED <<db, row, feed>> BY <2>2 DEF TransactionFails
    <3>3. "failing" \notin {"categories", "entry", "archive", "commit"} OBVIOUS
    <3> QED BY <1>2, <3>1, <3>2, <3>3
  <2>3. CASE EntryFails(i) BY <1>1, <2>3 DEF EntryFails, NextEntry, InTransaction
  <2> QED BY <1>11, <1>4, <1>6, <1>7, <2>1, <2>2, <2>3 DEF Import, Fails, DeadlockFailsEntry, DeadlockFailsAll
<1>12. ASSUME NEW s \in Stocks, Stock(s) \/ StockItemFails(s) PROVE SinglesOK'
  <2>1. ASSUME UNCHANGED <<db, mine, feed>>, \A q \in Requests \ {s} : pc'[q] = pc[q],
               \A t \in Stocks \ {s} : row'[t] = row[t],
               pc'[s] \in StockPlaces, pc'[s] = "insert" => BalancesOf(db, row'[s]) = {}
        PROVE  SinglesOK'
    <3>1. \A i \in Imports : pc'[i] = pc[i] BY <2>1
    <3> QED BY <1>b, <1>c, <2>1, <3>1 DEF InTransaction
  <2>2. CASE StockFinds(s) BY <2>1, <2>2 DEF StockFinds, txVars, Goes, StockPlaces, RowOK
  <2>3. CASE StockLooks(s) BY <2>1, <2>3 DEF StockLooks, txVars, Goes, StockPlaces, RowOK
  <2>4. CASE StockSkips(s) \/ StockItemFails(s)
    BY <2>1, <2>4 DEF StockSkips, StockItemFails, NextItem, Goes, StockPlaces, RowOK
  <2> QED BY <1>12, <1>5, <2>2, <2>3, <2>4 DEF Stock
<1>13. CASE Crash
  <2>1. \A q \in Requests : pc'[q] \in {"idle", "over"} BY <1>13 DEF Crash
  <2>2. UNCHANGED db BY <1>13 DEF Crash
  <2> QED BY <1>b, <1>c, <2>1, <2>2 DEF InTransaction
<1> QED BY <1>8, <1>9, <1>10, <1>11, <1>12, <1>13 DEF Next

OverlapInv == CatalogInv /\ MetOK /\ HistOK /\ SinglesOK

LEMMA OverlapInvariant == Spec => []OverlapInv
<1>1. Init => OverlapInv
  <2> SUFFICES ASSUME Init PROVE OverlapInv OBVIOUS
  <2>1. CatalogInv BY CatalogInvInit
  <2>2. MetOK /\ HistOK BY DEF Init, MetOK, HistOK, AtWork
  <2>3. HasShape(db) /\ ~HasDoubles(db) BY ShopsAssumption DEF Init
  <2>4. Single(db) BY <2>3, SinglesAre
  <2>5. SinglesOK BY <2>4 DEF Init, SinglesOK, InTransaction, Requests
  <2> QED BY <2>1, <2>2, <2>5 DEF OverlapInv
<1>2. OverlapInv /\ [Next]_vars => OverlapInv'
  <2> SUFFICES ASSUME OverlapInv, [Next]_vars PROVE OverlapInv' OBVIOUS
  <2>1. CatalogInv' BY CatalogInvStep DEF OverlapInv
  <2>2. MetOK' BY MetStep DEF OverlapInv, CatalogInv
  <2> QED BY <2>1, <2>2, HistStep, SinglesStep DEF OverlapInv
<1> QED BY <1>1, <1>2, PTL DEF Spec

\* A variant or a balance is there twice only when two requests were at work at once, or one
\* product of a committed feed listed the variant twice.
THEOREM DoubledByOverlap == Spec => []DoublesOnlyByOverlap
<1>1. OverlapInv => DoublesOnlyByOverlap
  <2> SUFFICES ASSUME OverlapInv, Doubles,
                      \A r \in Requests : met[r] = {},
                      \A i \in committed : \A k \in DOMAIN feed[i] : ~RepeatsVariant(feed[i][k])
               PROVE  FALSE
    BY DEF DoublesOnlyByOverlap
  <2>1. Careful BY DEF Careful, Alone, Tidy
  <2>2. Single(db) /\ HasShape(db) BY <2>1 DEF OverlapInv, SinglesOK, CatalogInv, TablesOK
  <2> QED BY <2>2, SinglesAre DEF Doubles
<1> QED BY <1>1, OverlapInvariant, PTL

(***************************************************************************)
(* What a step does to one request                                         *)
(***************************************************************************)
ImportStays(i) ==
    /\ pc'[i] = pc[i] /\ mine'[i] = mine[i] /\ at'[i] = at[i] /\ feed'[i] = feed[i]
    /\ loaded'[i] = loaded[i] /\ errors'[i] = errors[i] /\ known'[i] = known[i]
    /\ i \in wrote' <=> i \in wrote

WroteOK ==
    /\ DOMAIN known = Imports /\ DOMAIN errors = Imports
    /\ \A i \in wrote : i \in Imports /\ InTransaction(i) /\ pc[i] # "categories"
    /\ \A i \in Imports : pc[i] \in {"entry", "archive"} => feed[i] # <<>>

LEMMA ImportMoves ==
    ASSUME PcOK, FeedsOK, MineOK, LoadedOK, WroteOK, [Next]_vars, NEW i \in Imports
    PROVE  \/ ImportStays(i) \/ ~InTransaction(i)'
           \/ FindCategories(i) \/ SaveCategories(i) \/ (\E F : SaveNextEntry(i, F))
           \/ EntryFails(i) \/ Archive(i)
<1> USE TwoKinds DEF PcOK, Requests
<1>1. CASE UNCHANGED vars BY <1>1 DEF vars, txVars, ImportStays
<1>2. ASSUME NEW r \in Requests, NEW f \in Feeds \cup Lists, Request(r, f)
      PROVE  ImportStays(i) \/ ~InTransaction(i)'
  BY <1>2 DEF Request, Goes, txVars, ImportStays, InTransaction, FeedsOK
<1>3. ASSUME NEW r \in Requests, Jobs(r) \/ MarkRunningFails(r) \/ MarkDoneFails(r) \/ MarkFailedFails(r)
      PROVE  ImportStays(i) \/ ~InTransaction(i)'
  <2>1. UNCHANGED <<txVars, feed>> /\ \E where \in {"begin", "reporting", "failing", "over"} : Goes(r, where)
    BY <1>3 DEF Jobs, MarkJobRunning, MarkJobDone, MarkJobFailed, MarkRunningFails, MarkDoneFails,
       MarkFailedFails
  <2> QED BY <2>1 DEF Goes, txVars, ImportStays, InTransaction
<1>4. ASSUME NEW j \in Imports, Import(j) \/ Fails(j)
      PROVE  \/ ImportStays(i) \/ ~InTransaction(i)'
             \/ FindCategories(i) \/ SaveCategories(i) \/ (\E F : SaveNextEntry(i, F))
             \/ EntryFails(i) \/ Archive(i)
  <2>0. \/ FindCategories(j) \/ SaveCategories(j) \/ (\E F : SaveNextEntry(j, F))
        \/ EntryFails(j) \/ Archive(j) \/ Commit(j) \/ CommitUnheard(j) \/ TransactionFails(j)
    BY <1>4 DEF Import, Fails, DeadlockFailsEntry, DeadlockFailsAll
  <2>1. CASE j = i
    <3>1. ASSUME Commit(i) \/ CommitUnheard(i) \/ TransactionFails(i) PROVE ~InTransaction(i)'
      BY <3>1 DEF Commit, CommitUnheard, TransactionFails, Goes, InTransaction
    <3> QED BY <2>0, <2>1, <3>1
  <2>2. CASE j # i
    <3>1. ASSUME NextEntry(j) PROVE pc'[i] = pc[i] /\ at'[i] = at[i] /\ loaded'[i] = loaded[i]
      BY <2>2, <3>1 DEF NextEntry, Goes, FeedsOK, LoadedOK
    <3>2. CASE FindCategories(j)
      BY <2>2, <3>2 DEF FindCategories, Goes, ImportStays, WroteOK
    <3>3. CASE SaveCategories(j)
      BY <2>2, <3>3 DEF SaveCategories, Goes, ImportStays, WroteOK, MineOK, LoadedOK
    <3>4. CASE \E F : SaveNextEntry(j, F)
      <4>1. NextEntry(j) /\ UNCHANGED <<known, feed>> BY <3>4 DEF SaveNextEntry
      <4>2. \E f, g : mine' = [mine EXCEPT ![j] = f] /\ errors' = [errors EXCEPT ![j] = g]
        BY <3>4 DEF SaveNextEntry
      <4>3. wrote' = wrote \/ wrote' = wrote \cup {j} BY <3>4 DEF SaveNextEntry
      <4> QED BY <2>2, <3>1, <4>1, <4>2, <4>3 DEF ImportStays, WroteOK, MineOK
    <3>5. CASE EntryFails(j)
      BY <2>2, <3>1, <3>5 DEF EntryFails, ImportStays, WroteOK
    <3>6. CASE Archive(j)
      <4>1. \E f : mine' = [mine EXCEPT ![j] = f] BY <3>6 DEF Archive
      <4> QED BY <2>2, <3>6, <4>1 DEF Archive, Goes, ImportStays, MineOK
    <3>7. CASE Commit(j) \/ CommitUnheard(j)
      BY <2>2, <3>7 DEF Commit, CommitUnheard, Committed, Goes, ImportStays, MineOK
    <3>8. CASE TransactionFails(j)
      <4>1. \E f, g : mine' = [mine EXCEPT ![j] = f] /\ loaded' = [loaded EXCEPT ![j] = g]
        BY <3>8 DEF TransactionFails
      <4> QED BY <2>2, <3>8, <4>1 DEF TransactionFails, Goes, ImportStays, WroteOK, MineOK, FeedsOK, LoadedOK
    <3> QED BY <2>0, <3>2, <3>3, <3>4, <3>5, <3>6, <3>7, <3>8
  <2> QED BY <2>1, <2>2
<1>5. ASSUME NEW s \in Stocks, Stock(s) \/ StockItemFails(s) PROVE ImportStays(i)
  <2>1. s # i OBVIOUS
  <2>2. CASE StockFinds(s) \/ StockLooks(s)
    BY <2>1, <2>2 DEF StockFinds, StockLooks, Goes, txVars, ImportStays
  <2>3. CASE StockSkips(s) \/ StockWrites(s) \/ StockItemFails(s)
    BY <2>1, <2>3 DEF StockSkips, StockWrites, StockItemFails, NextItem, Goes, ImportStays, FeedsOK
  <2> QED BY <1>5, <2>2, <2>3 DEF Stock
<1>6. CASE Crash BY <1>6 DEF Crash, InTransaction
<1> QED BY <1>1, <1>2, <1>3, <1>4, <1>5, <1>6 DEF Next

LEMMA WroteStep ==
    ASSUME PcOK, FeedsOK, MineOK, LoadedOK, WroteOK, [Next]_vars
    PROVE  WroteOK'
<1> USE TwoKinds DEF PcOK, Requests
<1>1. DOMAIN known' = Imports /\ DOMAIN errors' = Imports
  <2>1. CASE UNCHANGED <<known, errors>> BY <2>1 DEF WroteOK
  <2>2. CASE \E r \in Requests, f \in Feeds \cup Lists : Request(r, f) BY <2>1, <2>2 DEF Request, txVars
  <2>3. CASE \E r \in Requests : Jobs(r) \/ MarkRunningFails(r) \/ MarkDoneFails(r) \/ MarkFailedFails(r)
    BY <2>1, <2>3 DEF Jobs, MarkJobRunning, MarkJobDone, MarkJobFailed, MarkRunningFails, MarkDoneFails,
       MarkFailedFails, txVars
  <2>4. ASSUME NEW i \in Imports, Import(i) \/ Fails(i)
        PROVE  DOMAIN known' = Imports /\ DOMAIN errors' = Imports
    <3>1. CASE \E F : SaveNextEntry(i, F)
      <4>1. (\E g : errors' = [errors EXCEPT ![i] = g]) /\ UNCHANGED known BY <3>1 DEF SaveNextEntry
      <4> QED BY <4>1 DEF WroteOK
    <3> QED BY <2>4, <2>1, <3>1 DEF Import, Fails, DeadlockFailsEntry, DeadlockFailsAll, FindCategories,
          SaveCategories, EntryFails, TransactionFails, Archive, Commit, CommitUnheard, Committed, WroteOK
  <2>5. CASE \E s \in Stocks : Stock(s) \/ StockItemFails(s)
    BY <2>1, <2>5 DEF Stock, StockFinds, StockSkips, StockLooks, StockWrites, StockItemFails, txVars
  <2>6. CASE Crash BY <2>6 DEF Crash, WroteOK
  <2>7. CASE UNCHANGED vars BY <2>1, <2>7 DEF vars, txVars
  <2> QED BY <2>2, <2>3, <2>4, <2>5, <2>6, <2>7 DEF Next
<1>2. wrote' \subseteq Imports /\ \A i \in Imports : i \in wrote' => InTransaction(i)' /\ pc'[i] # "categories"
  <2>0. ASSUME UNCHANGED wrote, NEW r \in Requests, NEW where, Goes(r, where),
               r \in wrote => where \in {"entry", "archive", "commit"}
        PROVE  wrote' \subseteq Imports /\ \A i \in Imports : i \in wrote' => InTransaction(i)' /\ pc'[i] # "categories"
    BY <2>0 DEF Goes, WroteOK, InTransaction
  <2>1. ASSUME NEW i \in Imports, NEW where, Goes(i, where), wrote' \subseteq wrote \cup {i},
               i \in wrote' => where \in {"entry", "archive", "commit"}
        PROVE  wrote' \subseteq Imports /\ \A j \in Imports : j \in wrote' => InTransaction(j)' /\ pc'[j] # "categories"
    BY <2>1 DEF Goes, WroteOK, InTransaction
  <2>2. CASE \E r \in Requests, f \in Feeds \cup Lists : Request(r, f)
    BY <2>0, <2>2 DEF Request, txVars, WroteOK, InTransaction
  <2>3. CASE \E r \in Requests : Jobs(r) \/ MarkRunningFails(r) \/ MarkDoneFails(r) \/ MarkFailedFails(r)
    <3>1. PICK r \in Requests : Jobs(r) \/ MarkRunningFails(r) \/ MarkDoneFails(r) \/ MarkFailedFails(r)
      BY <2>3
    <3>2. /\ pc[r] \in {"queued", "reporting", "failing"} /\ UNCHANGED wrote
          /\ \E where : Goes(r, where)
      BY <3>1 DEF Jobs, MarkJobRunning, MarkJobDone, MarkJobFailed, MarkRunningFails, MarkDoneFails,
         MarkFailedFails, txVars
    <3> QED BY <2>0, <3>2 DEF WroteOK, InTransaction
  <2>4. ASSUME NEW i \in Imports, Import(i) \/ Fails(i)
        PROVE  wrote' \subseteq Imports /\ \A j \in Imports : j \in wrote' => InTransaction(j)' /\ pc'[j] # "categories"
    <3>0. ASSUME NextEntry(i), wrote' \subseteq wrote \cup {i}
          PROVE  wrote' \subseteq Imports /\ \A j \in Imports : j \in wrote' => InTransaction(j)' /\ pc'[j] # "categories"
      BY <2>1, <3>0 DEF NextEntry
    <3>1. CASE \E F : SaveNextEntry(i, F)
      <4>1. NextEntry(i) /\ wrote' \subseteq wrote \cup {i} BY <3>1 DEF SaveNextEntry
      <4> QED BY <4>1, <3>0
    <3>2. CASE FindCategories(i)
      <4>1. pc[i] = "begin" /\ UNCHANGED wrote /\ Goes(i, "categories") BY <3>2 DEF FindCategories
      <4> QED BY <4>1, <2>0 DEF WroteOK, InTransaction
    <3>3. CASE SaveCategories(i)
      <4>1. wrote' \subseteq wrote \cup {i} /\ \E where \in {"commit", "entry"} : Goes(i, where)
        BY <3>3 DEF SaveCategories
      <4> QED BY <4>1, <2>1
    <3>4. CASE EntryFails(i) BY <3>0, <3>4 DEF EntryFails
    <3>5. CASE TransactionFails(i)
      <4>1. wrote' = wrote \ {i} /\ Goes(i, "failing") BY <3>5 DEF TransactionFails
      <4> QED BY <4>1, <2>1
    <3>6. CASE Archive(i)
      <4>1. wrote' \subseteq wrote \cup {i} /\ Goes(i, "commit") BY <3>6 DEF Archive
      <4> QED BY <4>1, <2>1
    <3>7. CASE Commit(i) \/ CommitUnheard(i)
      <4>1. wrote' = wrote \ {i} /\ \E where : Goes(i, where) BY <3>7 DEF Commit, CommitUnheard, Committed
      <4> QED BY <4>1, <2>1
    <3> QED BY <2>4, <3>1, <3>2, <3>3, <3>4, <3>5, <3>6, <3>7
          DEF Import, Fails, DeadlockFailsEntry, DeadlockFailsAll
  <2>5. ASSUME NEW s \in Stocks, Stock(s) \/ StockItemFails(s)
        PROVE  wrote' \subseteq Imports /\ \A j \in Imports : j \in wrote' => InTransaction(j)' /\ pc'[j] # "categories"
    <3>1. UNCHANGED wrote /\ s \notin wrote
      BY <2>5 DEF Stock, StockFinds, StockSkips, StockLooks, StockWrites, StockItemFails, txVars, WroteOK
    <3>2. \E where : Goes(s, where)
      BY <2>5 DEF Stock, StockFinds, StockSkips, StockLooks, StockWrites, StockItemFails, NextItem
    <3> QED BY <2>0, <3>1, <3>2
  <2>6. CASE Crash BY <2>6 DEF Crash
  <2>7. CASE UNCHANGED vars BY <2>7 DEF vars, txVars, WroteOK, InTransaction
  <2> QED BY <2>2, <2>3, <2>4, <2>5, <2>6, <2>7 DEF Next
<1>3. ASSUME NEW i \in Imports, pc'[i] \in {"entry", "archive"} PROVE feed'[i] # <<>>
  <2>1. CASE ImportStays(i) BY <1>3, <2>1 DEF ImportStays, WroteOK
  <2>2. CASE SaveCategories(i) BY <1>3, <2>2 DEF SaveCategories, Goes
  <2>3. CASE (\E F : SaveNextEntry(i, F)) \/ EntryFails(i)
    BY <1>3, <2>3 DEF SaveNextEntry, EntryFails, WroteOK
  <2>4. CASE FindCategories(i) \/ Archive(i) BY <1>3, <2>4 DEF FindCategories, Archive, Goes
  <2>5. InTransaction(i)' BY <1>3 DEF InTransaction
  <2> QED BY <2>1, <2>2, <2>3, <2>4, <2>5, ImportMoves
<1> QED BY <1>1, <1>2, <1>3 DEF WroteOK

StockStays(s) == pc'[s] = pc[s] /\ at'[s] = at[s] /\ row'[s] = row[s] /\ feed'[s] = feed[s]

\* At an item of a list.
AtItem(s) == pc[s] \in {"begin", "look", "insert", "update"}

LEMMA StockMoves ==
    ASSUME PcOK, FeedsOK, RowOK, [Next]_vars, NEW s \in Stocks
    PROVE  \/ StockStays(s)
           \/ ~AtItem(s)' /\ (pc'[s] \in {"idle", "queued"} => pc[s] \in {"idle", "queued"})
           \/ pc[s] = "queued" /\ pc'[s] = "begin"
           \/ StockFinds(s) \/ StockLooks(s)
           \/ AtItem(s) /\ pc'[s] = "begin" /\ at'[s] = at[s] + 1 /\ feed'[s] = feed[s]
<1> DEFINE Goal == \/ StockStays(s)
                   \/ ~AtItem(s)' /\ (pc'[s] \in {"idle", "queued"} => pc[s] \in {"idle", "queued"})
                   \/ pc[s] = "queued" /\ pc'[s] = "begin"
                   \/ StockFinds(s) \/ StockLooks(s)
                   \/ AtItem(s) /\ pc'[s] = "begin" /\ at'[s] = at[s] + 1 /\ feed'[s] = feed[s]
<1> USE TwoKinds DEF PcOK, Requests
<1>1. CASE UNCHANGED vars BY <1>1 DEF vars, txVars, StockStays
<1>2. ASSUME NEW r \in Requests, NEW f \in Feeds \cup Lists, Request(r, f) PROVE Goal
  BY <1>2 DEF Request, Goes, txVars, StockStays, FeedsOK, AtItem
<1>3. ASSUME NEW r \in Requests, Jobs(r) \/ MarkRunningFails(r) \/ MarkDoneFails(r) \/ MarkFailedFails(r)
      PROVE  Goal
  <2>1. UNCHANGED <<txVars, feed, row>>
    BY <1>3 DEF Jobs, MarkJobRunning, MarkJobDone, MarkJobFailed, MarkRunningFails, MarkDoneFails,
       MarkFailedFails
  <2>2. \/ pc[r] = "queued" /\ Goes(r, "begin")
        \/ \E where \in {"reporting", "failing", "over"} : Goes(r, where)
    BY <1>3 DEF Jobs, MarkJobRunning, MarkJobDone, MarkJobFailed, MarkRunningFails, MarkDoneFails,
       MarkFailedFails
  <2> QED BY <2>1, <2>2 DEF Goes, txVars, StockStays, AtItem
<1>4. ASSUME NEW i \in Imports, Import(i) \/ Fails(i) PROVE StockStays(s)
  <2>0. s # i /\ s \in Requests OBVIOUS
  <2>1. UNCHANGED <<row, feed>>
    <3>1. CASE Commit(i) \/ CommitUnheard(i) BY <3>1 DEF Commit, CommitUnheard, Committed
    <3>2. CASE \E F : SaveNextEntry(i, F) BY <3>2 DEF SaveNextEntry
    <3> QED BY <1>4, <3>1, <3>2 DEF Import, Fails, DeadlockFailsEntry, DeadlockFailsAll, FindCategories,
          SaveCategories, EntryFails, TransactionFails, Archive
  <2>2. (\E where : Goes(i, where)) /\ (UNCHANGED at \/ \E a : at' = [at EXCEPT ![i] = a])
    <3>1. CASE Commit(i) \/ CommitUnheard(i) BY <3>1 DEF Commit, CommitUnheard, Committed
    <3>2. CASE (\E F : SaveNextEntry(i, F)) \/ EntryFails(i)
      <4>1. NextEntry(i) BY <3>2 DEF SaveNextEntry, EntryFails
      <4> QED BY <4>1 DEF NextEntry
    <3> QED BY <1>4, <3>1, <3>2 DEF Import, Fails, DeadlockFailsEntry, DeadlockFailsAll, FindCategories,
          SaveCategories, TransactionFails, Archive
  <2> QED BY <2>0, <2>1, <2>2 DEF Goes, StockStays, FeedsOK
<1>5. ASSUME NEW t \in Stocks, Stock(t) \/ StockItemFails(t) PROVE Goal
  <2>1. CASE t = s
    <3>1. CASE StockSkips(s) \/ StockWrites(s) \/ StockItemFails(s)
      <4>1. AtItem(s) /\ NextItem(s) /\ UNCHANGED feed
        BY <3>1 DEF StockSkips, StockWrites, StockItemFails, AtItem
      <4>2. CASE at' = [at EXCEPT ![s] = @ + 1] /\ Goes(s, "begin")
        BY <4>1, <4>2 DEF Goes, FeedsOK
      <4>3. CASE Goes(s, "reporting") BY <4>3 DEF Goes, AtItem
      <4> QED BY <4>1, <4>2, <4>3 DEF NextItem
    <3> QED BY <1>5, <2>1, <3>1 DEF Stock
  <2>2. CASE t # s
    <3>1. CASE StockFinds(t) \/ StockLooks(t)
      <4>1. (UNCHANGED row \/ \E n : row' = [row EXCEPT ![t] = n]) /\ UNCHANGED <<at, feed>>
            /\ \E where : Goes(t, where)
        BY <3>1 DEF StockFinds, StockLooks, txVars
      <4> QED BY <2>2, <4>1 DEF Goes, StockStays, RowOK
    <3>2. CASE StockSkips(t) \/ StockWrites(t) \/ StockItemFails(t)
      BY <2>2, <3>2 DEF StockSkips, StockWrites, StockItemFails, NextItem, Goes, StockStays, FeedsOK, RowOK
    <3> QED BY <1>5, <3>1, <3>2 DEF Stock
  <2> QED BY <2>1, <2>2
<1>6. CASE Crash BY <1>6 DEF Crash, AtItem
<1> QED BY <1>1, <1>2, <1>3, <1>4, <1>5, <1>6 DEF Next

(***************************************************************************)
(* Rows live on                                                            *)
(***************************************************************************)
\* The rows of b are in a, of the same variants.
Kept(a, b) ==
    /\ DOMAIN b \subseteq DOMAIN a
    /\ \A n : Variant(n) \in DOMAIN b => a[Variant(n)].ext = b[Variant(n)].ext
    /\ \A n : Balance(n) \in DOMAIN b => a[Balance(n)].of = b[Balance(n)].of

LEMMA KeptSingle ==
    ASSUME NEW a, NEW b, Kept(a, b), Single(a)
    PROVE  Single(b)
BY DEF Kept, Single

LEMMA KeptBy ==
    ASSUME NEW a, NEW b, NEW c, Kept(a, b), Kept(b, c)
    PROVE  Kept(a, c)
BY DEF Kept

\* The rows of a that are not in b have ids in ids.
Newer(a, b, ids) ==
    \A n : /\ Variant(n) \in DOMAIN a /\ Variant(n) \notin DOMAIN b => n \in ids
           /\ Balance(n) \in DOMAIN a /\ Balance(n) \notin DOMAIN b => n \in ids

LEMMA MadeKeeps ==
    ASSUME NEW base, HasShape(base), Distinct(base),
           NEW e \in EntryType, NEW new, NEW found, NEW failing,
           found # NoRow => Product(e.product) \in DOMAIN base,
           DOMAIN new = DOMAIN e.variants, NEW to, NEW saved, NEW of, NEW in, NEW o,
           Made(base, e, new, found, failing, to, saved, of, in, o)
    PROVE  /\ Newer(Over(o.rows, base), base, {new[x] : x \in DOMAIN e.variants})
           /\ (\A x \in DOMAIN e.variants : Variant(new[x]) \notin DOMAIN base /\ Balance(new[x]) \notin DOMAIN base)
                => Kept(Over(o.rows, base), base)
<1> DEFINE u == Over(o.rows, base)
<1>1. DOMAIN base \subseteq DOMAIN u BY MadeRows
<1>2. saved \subseteq DOMAIN e.variants BY MadeFrom
<1>3. \A x \in DOMAIN e.variants :
         to[x] = new[x] \/ (Variant(to[x]) \in DOMAIN base /\ base[Variant(to[x])].ext = e.variants[x].ext)
  <2>1. VariantFrom(base, e, new, to) BY MadeFrom
  <2> QED BY <2>1 DEF VariantFrom
<1>4. \A x \in DOMAIN of :
         \/ \E y \in DOMAIN e.variants : in[x] = new[y]
         \/ Balance(in[x]) \in DOMAIN base /\ base[Balance(in[x])].of = of[x]
  <2>1. BalanceFrom(base, new, of, in) /\ HomeFrom(e, of, u) BY MadeFrom
  <2> HIDE DEF u
  <2> QED BY <2>1 DEF BalanceFrom, HomeFrom
<1>5. \A n : Variant(n) \in DOMAIN u =>
         \/ \E y \in saved : to[y] = n /\ u[Variant(n)] = SaveVariant(e, y)
         \/ n \notin {to[x] : x \in saved} /\ Variant(n) \in DOMAIN base /\ u[Variant(n)] = base[Variant(n)]
  BY MadeVariant
<1>6. ASSUME NEW k, Balance(k) \in DOMAIN u
      PROVE  \/ \E x \in DOMAIN of : in[x] = k /\ u[Balance(k)].of = of[x]
             \/ Balance(k) \in DOMAIN base /\ u[Balance(k)] = base[Balance(k)]
  <2>1. \/ \E x \in DOMAIN of : in[x] = k /\ u[Balance(k)] = [of |-> of[x], qty |-> Clamped(e.variants[x].qty)]
        \/ /\ Balance(k) \in DOMAIN base /\ u[Balance(k)] = base[Balance(k)]
           /\ \A x \in DOMAIN of : in[x] = k => base[Balance(k)].qty = Clamped(e.variants[x].qty)
    BY <1>6, MadeBalance
  <2>2. CASE \E x \in DOMAIN of : in[x] = k /\ u[Balance(k)] = [of |-> of[x], qty |-> Clamped(e.variants[x].qty)]
    <3>1. PICK x \in DOMAIN of : in[x] = k /\ u[Balance(k)] = [of |-> of[x], qty |-> Clamped(e.variants[x].qty)]
      BY <2>2
    <3> HIDE DEF u
    <3>2. u[Balance(k)].of = of[x] BY <3>1
    <3> QED BY <3>1, <3>2
  <2> HIDE DEF u
  <2> QED BY <2>1, <2>2
<1> HIDE DEF u
<1>7. \A y \in saved : SaveVariant(e, y).ext = e.variants[y].ext BY DEF SaveVariant
<1>8. ASSUME NEW n
      PROVE  /\ Variant(n) \in DOMAIN u /\ Variant(n) \notin DOMAIN base => n \in {new[x] : x \in DOMAIN e.variants}
             /\ Balance(n) \in DOMAIN u /\ Balance(n) \notin DOMAIN base => n \in {new[x] : x \in DOMAIN e.variants}
  <2>1. ASSUME Variant(n) \in DOMAIN u, Variant(n) \notin DOMAIN base
        PROVE  n \in {new[x] : x \in DOMAIN e.variants}
    BY <2>1, <1>2, <1>3, <1>5
  <2>2. ASSUME Balance(n) \in DOMAIN u, Balance(n) \notin DOMAIN base
        PROVE  n \in {new[x] : x \in DOMAIN e.variants}
    BY <2>2, <1>4, <1>6
  <2> QED BY <2>1, <2>2
<1>9. ASSUME \A x \in DOMAIN e.variants : Variant(new[x]) \notin DOMAIN base /\ Balance(new[x]) \notin DOMAIN base
      PROVE  Kept(u, base)
  <2>1. ASSUME NEW n, Variant(n) \in DOMAIN base PROVE u[Variant(n)].ext = base[Variant(n)].ext
    BY <2>1, <1>1, <1>2, <1>3, <1>5, <1>7, <1>9
  <2>2. ASSUME NEW n, Balance(n) \in DOMAIN base PROVE u[Balance(n)].of = base[Balance(n)].of
    BY <2>2, <1>1, <1>4, <1>6, <1>9
  <2> QED BY <1>1, <2>1, <2>2 DEF Kept
<1>10. Newer(u, base, {new[x] : x \in DOMAIN e.variants}) BY <1>8 DEF Newer
<1> QED BY <1>9, <1>10 DEF u

InDb(n) == Variant(n) \in DOMAIN db \/ Balance(n) \in DOMAIN db
NewIn(n, i) ==
    \/ Variant(n) \in DOMAIN mine[i] /\ Variant(n) \notin DOMAIN db
    \/ Balance(n) \in DOMAIN mine[i] /\ Balance(n) \notin DOMAIN db

\* An id is of the request that has inserted the row, at an entry or item it is past.
FreshOK ==
    /\ \A n : InDb(n) /\ n[1] \in Imports => n[1] \in committed
    /\ \A i \in Imports : \A n : NewIn(n, i) =>
          n[1] = i /\ (pc[i] = "entry" => n[2] \in Nat /\ n[2] < at[i])
    /\ \A s \in Stocks : \A n : InDb(n) /\ n[1] = s =>
          pc[s] \notin {"idle", "queued"} /\ (AtItem(s) => n[2] \in Nat /\ n[2] < at[s])

KeptOK == \A i \in Imports : Kept(View(i), db)

LEMMA NewRowsAreNew ==
    ASSUME CatalogInv, FreshOK, NEW i \in Imports, pc[i] = "entry"
    PROVE  \A x \in DOMAIN Entry(i).variants :
             Variant(NewRows(i)[x]) \notin DOMAIN View(i) /\ Balance(NewRows(i)[x]) \notin DOMAIN View(i)
<1> SUFFICES ASSUME NEW x \in DOMAIN Entry(i).variants, NEW n, n = NewRows(i)[x],
                    Variant(n) \in DOMAIN View(i) \/ Balance(n) \in DOMAIN View(i)
             PROVE  FALSE
  OBVIOUS
<1>1. n[1] = i /\ n[2] = at[i] BY DEF NewRows
<1>2. at[i] \in Nat BY DEF CatalogInv, AtOK, Requests
<1>3. InDb(n) \/ NewIn(n, i) BY DEF View, Over, InDb, NewIn
<1>4. i \notin committed BY DEF CatalogInv, JobsOK, Told
<1> QED BY <1>1, <1>2, <1>3, <1>4 DEF FreshOK

\* The step of an import that changes what it has written keeps the rows it saw.
LEMMA ViewKept ==
    ASSUME CatalogInv, FreshOK, NEW i \in Imports,
           FindCategories(i) \/ SaveCategories(i) \/ (\E F : SaveNextEntry(i, F)) \/ EntryFails(i) \/ Archive(i)
    PROVE  /\ UNCHANGED db /\ Kept(Over(mine'[i], db), View(i))
           /\ Newer(Over(mine'[i], db), View(i), {<<i, at[i], x>> : x \in DOMAIN Entry(i).variants})
           /\ (\E F : SaveNextEntry(i, F)) \/ Newer(Over(mine'[i], db), View(i), {})
<1> USE DEF CatalogInv
<1>0. UNCHANGED db BY DEF FindCategories, SaveCategories, SaveNextEntry, EntryFails, Archive
<1>1. CASE FindCategories(i) \/ EntryFails(i)
  <2>1. mine'[i] = mine[i] BY <1>1 DEF FindCategories, EntryFails
  <2> QED BY <1>0, <2>1 DEF Kept, Newer, View
<1>2. CASE SaveCategories(i) \/ Archive(i)
  <2>1. PICK rows : /\ \A n : Variant(n) \notin DOMAIN rows /\ Balance(n) \notin DOMAIN rows
                    /\ mine' = [mine EXCEPT ![i] = Over(rows, mine[i])]
    BY <1>2, PlainRows
  <2>2. Over(mine'[i], db) = Over(rows, View(i)) BY <2>1, OverOver DEF MineOK, View
  <2> DEFINE base == View(i)
             u == Over(rows, base)
  <2>3. DOMAIN u = DOMAIN rows \cup DOMAIN base /\ \A k \in DOMAIN u : u[k] = IF k \in DOMAIN rows THEN rows[k] ELSE base[k]
    BY DEF Over
  <2> HIDE DEF u, base
  <2>4. Kept(u, base) /\ \A ids : Newer(u, base, ids) BY <2>1, <2>3 DEF Kept, Newer
  <2> QED BY <1>0, <2>2, <2>4 DEF u, base
<1>3. CASE \E F : SaveNextEntry(i, F)
  <2>1. PICK F : SaveNextEntry(i, F) BY <1>3
  <2>2. PICK o \in Outcomes(i, F) : mine' = [mine EXCEPT ![i] = Over(o.rows, mine[i])]
    BY <2>1 DEF SaveNextEntry, MineOK
  <2>3. pc[i] = "entry" BY <2>1 DEF SaveNextEntry
  <2> DEFINE base == View(i)
             e == Entry(i)
             new == NewRows(i)
             found == loaded[i][e.product]
  <2>4. PICK to, saved, of, in : Made(base, e, new, found, F, to, saved, of, in, o) BY OutcomeMade
  <2>5. e \in EntryType /\ (found # NoRow => Product(e.product) \in DOMAIN base) BY <2>3, EntryFound
  <2>6. HasShape(base) /\ Distinct(base) BY DEF TablesOK
  <2>7. DOMAIN new = DOMAIN e.variants /\ \A x \in DOMAIN e.variants : new[x] = <<i, at[i], x>> BY DEF NewRows
  <2>8. \A x \in DOMAIN e.variants : Variant(new[x]) \notin DOMAIN base /\ Balance(new[x]) \notin DOMAIN base
    BY <2>3, NewRowsAreNew
  <2>9. Over(mine'[i], db) = Over(o.rows, base) BY <2>2, OverOver DEF MineOK, View
  <2> HIDE DEF base, e, new, found
  <2>10. Kept(Over(o.rows, base), base) /\ Newer(Over(o.rows, base), base, {new[x] : x \in DOMAIN e.variants})
    BY <2>4, <2>5, <2>6, <2>7, <2>8, MadeKeeps
  <2>11. {new[x] : x \in DOMAIN e.variants} = {<<i, at[i], x>> : x \in DOMAIN e.variants} BY <2>7
  <2> QED BY <1>0, <1>3, <2>9, <2>10, <2>11 DEF base, e
<1> QED BY <1>1, <1>2, <1>3

\* The row n is inserted.
Inserted(n) ==
    \/ Variant(n) \in DOMAIN db' /\ Variant(n) \notin DOMAIN db
    \/ Balance(n) \in DOMAIN db' /\ Balance(n) \notin DOMAIN db

LEMMA DbMoves ==
    ASSUME CatalogInv, FreshOK, KeptOK, [Next]_vars
    PROVE  /\ Kept(db', db)
           /\ \/ TablesRest
              \/ \E j \in Imports : Ends(j) /\ \A n : Inserted(n) => n[1] = j
              \/ \E s \in Stocks : StockWrites(s) /\ \A n : Inserted(n) => n = <<s, at[s], 0>>
<1> USE TwoKinds DEF CatalogInv
<1>1. ASSUME db' = db PROVE Kept(db', db) BY <1>1 DEF Kept
<1>2. ASSUME NEW j \in Imports, Committed(j)
      PROVE  Kept(db', db) /\ \A n : Inserted(n) => n[1] = j
  <2>1. db' = View(j) BY <1>2 DEF Committed
  <2>2. \A n : Inserted(n) => NewIn(n, j) BY <2>1 DEF Inserted, NewIn, View, Over
  <2> QED BY <2>1, <2>2 DEF KeptOK, FreshOK
<1>3. ASSUME NEW s \in Stocks, StockWrites(s)
      PROVE  Kept(db', db) /\ \A n : Inserted(n) => n = <<s, at[s], 0>>
  <2>1. CASE /\ pc[s] = "insert"
             /\ db' = Over([k \in {Balance(<<s, at[s], 0>>)} |-> [of |-> row[s], qty |-> Item(s).qty]], db)
    <3> DEFINE b == <<s, at[s], 0>>
    <3>1. b[1] = s /\ b[2] = at[s] OBVIOUS
    <3>2. at[s] \in Nat /\ AtItem(s) BY <2>1 DEF AtOK, Requests, AtItem
    <3> HIDE DEF b
    <3>3. Balance(b) \notin DOMAIN db BY <3>1, <3>2 DEF FreshOK, InDb
    <3>4. DOMAIN db' = DOMAIN db \cup {Balance(b)} /\ \A k \in DOMAIN db : k # Balance(b) => db'[k] = db[k]
      BY <2>1 DEF Over, b
    <3>5. \A n : Variant(n) # Balance(b) /\ (Balance(n) = Balance(b) => n = b) BY DEF Variant, Balance
    <3>6. Kept(db', db) BY <3>3, <3>4, <3>5 DEF Kept
    <3>7. \A n : Inserted(n) => n = b BY <3>4, <3>5 DEF Inserted
    <3> QED BY <3>6, <3>7 DEF b
  <2>2. CASE pc[s] = "update" /\ db' = [db EXCEPT ![Balance(row[s])].qty = Item(s).qty]
    <3>1. Balance(row[s]) \in DOMAIN db BY <2>2 DEF RowOK
    <3>2. db[Balance(row[s])] \in BalanceRow(db) BY <3>1, ShapeOfBalance DEF TablesOK
    <3>3. db'[Balance(row[s])] = [db[Balance(row[s])] EXCEPT !.qty = Item(s).qty] BY <2>2, <3>1
    <3>4. db'[Balance(row[s])].of = db[Balance(row[s])].of BY <3>2, <3>3 DEF BalanceRow
    <3>5. DOMAIN db' = DOMAIN db /\ \A k \in DOMAIN db : k # Balance(row[s]) => db'[k] = db[k] BY <2>2
    <3>6. \A n : Variant(n) # Balance(row[s]) BY DEF Variant, Balance
    <3> QED BY <3>4, <3>5, <3>6 DEF Kept, Inserted
  <2> QED BY <1>3, <2>1, <2>2 DEF StockWrites
<1> QED BY <1>1, <1>2, <1>3, DbStep DEF TablesRest, Ends

LEMMA KeptStep ==
    ASSUME CatalogInv, FreshOK, KeptOK, WroteOK, [Next]_vars
    PROVE  KeptOK'
<1> USE TwoKinds DEF CatalogInv
<1>1. Kept(db', db) BY DbMoves
<1> SUFFICES ASSUME NEW i \in Imports PROVE Kept(Over(mine'[i], db'), db') BY DEF KeptOK, View
<1>2. ASSUME mine'[i] = <<>> PROVE Kept(Over(mine'[i], db'), db') BY <1>2, NoRows DEF Kept, Over
<1>3. CASE ~InTransaction(i)'
  <2>1. MineOK' BY MineStep
  <2>2. mine'[i] = <<>> BY <1>3, <2>1 DEF MineOK
  <2> QED BY <2>2, <1>2
<1>4. CASE FindCategories(i) \/ SaveCategories(i) \/ (\E F : SaveNextEntry(i, F)) \/ EntryFails(i) \/ Archive(i)
  <2>1. UNCHANGED db /\ Kept(Over(mine'[i], db), View(i)) BY <1>4, ViewKept
  <2> QED BY <2>1, KeptBy DEF KeptOK
<1>5. CASE ImportStays(i)
  <2>1. mine'[i] = mine[i] BY <1>5 DEF ImportStays
  <2>2. CASE TablesRest BY <2>1, <2>2 DEF KeptOK, View, TablesRest
  <2>3. ASSUME NEW r, r # i, \A n : Inserted(n) => n[1] = r PROVE Kept(Over(mine'[i], db'), db')
    <3>1. \A n : Inserted(n) => ~NewIn(n, i) BY <2>3 DEF FreshOK
    <3>2. Kept(Over(mine[i], db), db) BY DEF KeptOK, View
    <3> DEFINE f == mine[i]
    <3>3. ASSUME NEW n, Variant(n) \in DOMAIN db' PROVE Over(f, db')[Variant(n)].ext = db'[Variant(n)].ext
      <4>1. CASE Variant(n) \notin DOMAIN f BY <4>1, <3>3 DEF Over
      <4>2. CASE Variant(n) \in DOMAIN f
        <5>1. Variant(n) \in DOMAIN db BY <3>1, <3>3, <4>2 DEF Inserted, NewIn
        <5>2. Over(f, db)[Variant(n)] = f[Variant(n)] /\ Over(f, db')[Variant(n)] = f[Variant(n)] BY <4>2 DEF Over
        <5> QED BY <5>1, <5>2, <3>2, <1>1 DEF Kept
      <4> QED BY <4>1, <4>2
    <3>4. ASSUME NEW n, Balance(n) \in DOMAIN db' PROVE Over(f, db')[Balance(n)].of = db'[Balance(n)].of
      <4>1. CASE Balance(n) \notin DOMAIN f BY <4>1, <3>4 DEF Over
      <4>2. CASE Balance(n) \in DOMAIN f
        <5>1. Balance(n) \in DOMAIN db BY <3>1, <3>4, <4>2 DEF Inserted, NewIn
        <5>2. Over(f, db)[Balance(n)] = f[Balance(n)] /\ Over(f, db')[Balance(n)] = f[Balance(n)] BY <4>2 DEF Over
        <5> QED BY <5>1, <5>2, <3>2, <1>1 DEF Kept
      <4> QED BY <4>1, <4>2
    <3>5. DOMAIN db' \subseteq DOMAIN Over(f, db') BY DEF Over
    <3> QED BY <2>1, <3>3, <3>4, <3>5 DEF Kept
  <2>4. ASSUME NEW j \in Imports, Committed(j), \A n : Inserted(n) => n[1] = j
        PROVE  Kept(Over(mine'[i], db'), db')
    <3>1. CASE j # i BY <2>3, <2>4, <3>1
    <3>2. CASE j = i
      <4>1. mine'[i] = <<>> BY <2>4, <3>2 DEF Committed, MineOK
      <4> QED BY <4>1, <1>2
    <3> QED BY <3>1, <3>2
  <2>5. ASSUME NEW s \in Stocks, \A n : Inserted(n) => n = <<s, at[s], 0>>
        PROVE  Kept(Over(mine'[i], db'), db')
    <3>1. \A n : Inserted(n) => n[1] = s BY <2>5
    <3> QED BY <2>3, <3>1
  <2> QED BY <2>2, <2>4, <2>5, DbMoves DEF Ends
<1> QED BY <1>3, <1>4, <1>5, ImportMoves

LEMMA FreshStep ==
    ASSUME CatalogInv, HistOK, FreshOK, KeptOK, WroteOK, [Next]_vars
    PROVE  FreshOK'
<1> USE TwoKinds DEF CatalogInv
<1>1. Kept(db', db) BY DbMoves
<1>2. \A n : InDb(n)' => InDb(n) \/ Inserted(n) BY DEF InDb, Inserted
<1>3. committed \subseteq committed' BY HistStep
<1>4. ASSUME NEW n, InDb(n)', n[1] \in Imports PROVE n[1] \in committed'
  <2>1. CASE InDb(n) BY <2>1, <1>3, <1>4 DEF FreshOK
  <2>2. CASE Inserted(n)
    <3>1. CASE TablesRest BY <2>2, <3>1 DEF Inserted, TablesRest
    <3>2. ASSUME NEW j \in Imports, Committed(j), n[1] = j PROVE n[1] \in committed'
      BY <3>2 DEF Committed
    <3>3. ASSUME NEW s \in Stocks, n = <<s, at[s], 0>> PROVE FALSE BY <3>3, <1>4
    <3> QED BY <2>2, <3>1, <3>2, <3>3, DbMoves DEF Ends
  <2> QED BY <1>2, <1>4, <2>1, <2>2
<1>5. ASSUME NEW i \in Imports, NEW n, NewIn(n, i)'
      PROVE  n[1] = i /\ (pc'[i] = "entry" => n[2] \in Nat /\ n[2] < at'[i])
  <2>0. (Variant(n) \in DOMAIN mine'[i] /\ Variant(n) \notin DOMAIN db)
        \/ (Balance(n) \in DOMAIN mine'[i] /\ Balance(n) \notin DOMAIN db)
    BY <1>1, <1>5 DEF NewIn, Kept
  <2>1. CASE ImportStays(i)
    <3>1. NewIn(n, i) BY <2>0, <2>1 DEF NewIn, ImportStays
    <3> QED BY <2>1, <3>1 DEF FreshOK, ImportStays
  <2>2. CASE ~InTransaction(i)'
    <3>1. MineOK' BY MineStep
    <3>2. mine'[i] = <<>> BY <2>2, <3>1 DEF MineOK
    <3> QED BY <2>0, <3>2, NoRows
  <2>3. CASE FindCategories(i) \/ SaveCategories(i) \/ (\E F : SaveNextEntry(i, F)) \/ EntryFails(i) \/ Archive(i)
    <3>1. Newer(Over(mine'[i], db), View(i), {<<i, at[i], x>> : x \in DOMAIN Entry(i).variants})
          /\ ((\E F : SaveNextEntry(i, F)) \/ Newer(Over(mine'[i], db), View(i), {}))
      BY <2>3, ViewKept
    <3>2. NewIn(n, i) \/ ((\E F : SaveNextEntry(i, F)) /\ n \in {<<i, at[i], x>> : x \in DOMAIN Entry(i).variants})
      BY <2>0, <3>1 DEF Newer, View, Over, NewIn
    <3>3. ASSUME (\E F : SaveNextEntry(i, F)) \/ EntryFails(i), pc'[i] = "entry"
          PROVE  pc[i] = "entry" /\ at[i] \in Nat /\ at'[i] = at[i] + 1
      <4>1. pc[i] = "entry" /\ NextEntry(i) BY <3>3 DEF SaveNextEntry, EntryFails
      <4>2. at[i] \in Nat BY <4>1 DEF AtOK, Requests
      <4>3. at[i] < Len(feed[i])
        BY <3>3, <4>1 DEF NextEntry, Goes, PcOK, Requests
      <4> QED BY <4>1, <4>2, <4>3 DEF NextEntry, FeedsOK, Requests
    <3>4. CASE (\E F : SaveNextEntry(i, F)) /\ n \in {<<i, at[i], x>> : x \in DOMAIN Entry(i).variants}
      <4>1. n[1] = i /\ n[2] = at[i] BY <3>4
      <4> QED BY <3>3, <3>4, <4>1
    <3>5. CASE NewIn(n, i)
      <4>1. n[1] = i /\ (pc[i] = "entry" => n[2] \in Nat /\ n[2] < at[i]) BY <3>5 DEF FreshOK
      <4>2. CASE (\E F : SaveNextEntry(i, F)) \/ EntryFails(i)
        <5>1. ASSUME pc'[i] = "entry" PROVE n[2] \in Nat /\ n[2] < at'[i]
          BY <5>1, <3>3, <4>1, <4>2
        <5> QED BY <4>1, <5>1
      <4>3. CASE FindCategories(i) \/ SaveCategories(i)
        <5>1. mine[i] = <<>> BY <4>3 DEF FindCategories, SaveCategories, MineOK, InTransaction
        <5> QED BY <5>1, <3>5, NoRows DEF NewIn
      <4>4. CASE Archive(i)
        <5>1. pc'[i] = "commit" BY <4>4 DEF Archive, Goes, PcOK, Requests
        <5> QED BY <4>1, <5>1
      <4> QED BY <2>3, <4>2, <4>3, <4>4
    <3> QED BY <3>2, <3>4, <3>5
  <2> QED BY <2>1, <2>2, <2>3, ImportMoves
<1>6. ASSUME NEW s \in Stocks, NEW n, InDb(n)', n[1] = s
      PROVE  pc'[s] \notin {"idle", "queued"} /\ (AtItem(s)' => n[2] \in Nat /\ n[2] < at'[s])
  <2>0. s \in Requests BY DEF Requests
  <2>1. CASE InDb(n)
    <3>1. pc[s] \notin {"idle", "queued"} /\ (AtItem(s) => n[2] \in Nat /\ n[2] < at[s])
      BY <2>1, <1>6 DEF FreshOK
    <3>2. AtItem(s) => at[s] \in Nat BY <2>0 DEF AtItem, AtOK
    <3>3. CASE StockStays(s) BY <3>1, <3>3 DEF StockStays, AtItem
    <3>4. CASE ~AtItem(s)' /\ (pc'[s] \in {"idle", "queued"} => pc[s] \in {"idle", "queued"})
      BY <3>1, <3>4
    <3>5. CASE pc[s] = "queued" /\ pc'[s] = "begin" BY <3>1, <3>5
    <3>6. CASE StockFinds(s) \/ StockLooks(s)
      <4>1. AtItem(s) /\ UNCHANGED at /\ pc'[s] \in {"look", "insert", "update"}
        BY <3>6, <2>0 DEF StockFinds, StockLooks, AtItem, txVars, Goes, PcOK
      <4> QED BY <3>1, <4>1
    <3>7. CASE AtItem(s) /\ pc'[s] = "begin" /\ at'[s] = at[s] + 1
      BY <3>1, <3>2, <3>7
    <3> QED BY <3>3, <3>4, <3>5, <3>6, <3>7, StockMoves
  <2>2. CASE Inserted(n)
    <3>1. CASE TablesRest BY <2>2, <3>1 DEF Inserted, TablesRest
    <3>2. ASSUME NEW j \in Imports, n[1] = j PROVE FALSE BY <3>2, <1>6
    <3>3. ASSUME NEW t \in Stocks, StockWrites(t), n = <<t, at[t], 0>>
          PROVE  pc'[s] \notin {"idle", "queued"} /\ (AtItem(s)' => n[2] \in Nat /\ n[2] < at'[s])
      <4>1. t = s /\ n[2] = at[s] BY <3>3, <1>6
      <4>2. at[s] \in Nat /\ NextItem(s) BY <2>0, <3>3, <4>1 DEF StockWrites, AtOK
      <4>3. CASE at' = [at EXCEPT ![s] = @ + 1] /\ Goes(s, "begin")
        <5>1. pc'[s] = "begin" /\ at'[s] = at[s] + 1 BY <2>0, <4>3 DEF Goes, PcOK, FeedsOK
        <5> QED BY <4>1, <4>2, <5>1
      <4>4. CASE Goes(s, "reporting")
        <5>1. pc'[s] = "reporting" BY <2>0, <4>4 DEF Goes, PcOK
        <5> QED BY <5>1 DEF AtItem
      <4> QED BY <4>2, <4>3, <4>4 DEF NextItem
    <3> QED BY <2>2, <3>1, <3>2, <3>3, DbMoves DEF Ends
  <2> QED BY <1>2, <1>6, <2>1, <2>2
<1> QED BY <1>4, <1>5, <1>6 DEF FreshOK

(***************************************************************************)
(* What a request knows of the tables stays true                           *)
(***************************************************************************)
\* While an import that has met nobody is at work, only it changes the tables.
LEMMA Undisturbed ==
    ASSUME MetOK, [Next]_vars, NEW i \in Imports, AtWork(i), met[i] = {}
    PROVE  TablesRest \/ Ends(i)
<1>1. \A r \in Requests : AtWork(r) => r = i BY DEF MetOK, Requests
<1>2. ASSUME NEW j \in Imports, Ends(j) PROVE j = i
  BY <1>1, <1>2 DEF Ends, AtWork, Requests
<1>3. ASSUME NEW s \in Stocks, StockWrites(s) PROVE FALSE
  <2>1. pc[s] \in {"insert", "update"} BY <1>3 DEF StockWrites
  <2> QED BY <1>1, <2>1, TwoKinds DEF AtWork, Requests
<1> QED BY <1>2, <1>3, DbStep

LEMMA ErrorsKept ==
    ASSUME PcOK, WroteOK, [Next]_vars, NEW i \in Imports, ~InTransaction(i)
    PROVE  errors'[i] = errors[i]
<1> USE TwoKinds
<1>1. CASE UNCHANGED vars BY <1>1 DEF vars, txVars
<1>2. CASE \E r \in Requests, f \in Feeds \cup Lists : Request(r, f) BY <1>2 DEF Request, txVars
<1>3. CASE \E r \in Requests : Jobs(r) \/ MarkRunningFails(r) \/ MarkDoneFails(r) \/ MarkFailedFails(r)
  BY <1>3 DEF Jobs, MarkJobRunning, MarkJobDone, MarkJobFailed, MarkRunningFails, MarkDoneFails,
     MarkFailedFails, txVars
<1>4. ASSUME NEW j \in Imports, Import(j) \/ Fails(j) PROVE errors'[i] = errors[i]
  <2>1. CASE FindCategories(j) \/ SaveCategories(j) \/ Archive(j) \/ Commit(j) \/ CommitUnheard(j)
    BY <2>1 DEF FindCategories, SaveCategories, Archive, Commit, CommitUnheard, Committed
  <2>2. CASE TransactionFails(j) \/ EntryFails(j) \/ \E F : SaveNextEntry(j, F)
    <3>1. InTransaction(j) BY <2>2 DEF TransactionFails, EntryFails, SaveNextEntry, InTransaction
    <3>2. \E g : errors' = [errors EXCEPT ![j] = g] BY <2>2 DEF TransactionFails, EntryFails, SaveNextEntry
    <3> QED BY <3>1, <3>2 DEF WroteOK
  <2> QED BY <1>4, <2>1, <2>2 DEF Import, Fails, DeadlockFailsEntry, DeadlockFailsAll
<1>5. CASE \E s \in Stocks : Stock(s) \/ StockItemFails(s)
  BY <1>5 DEF Stock, StockFinds, StockSkips, StockLooks, StockWrites, StockItemFails, txVars
<1>6. CASE Crash BY <1>6 DEF Crash
<1> QED BY <1>1, <1>2, <1>3, <1>4, <1>5, <1>6 DEF Next

\* The row a stock list has found is of the variant of its item.
RowExtOK ==
    \A s \in Stocks :
        /\ pc[s] \in {"look", "insert"} => db[Variant(row[s])].ext = Item(s).ext
        /\ pc[s] = "update" => db[Variant(db[Balance(row[s])].of)].ext = Item(s).ext

LEMMA RowExtStep ==
    ASSUME CatalogInv, FreshOK, KeptOK, RowExtOK, [Next]_vars
    PROVE  RowExtOK'
<1> USE DEF CatalogInv
<1>1. Kept(db', db) BY DbMoves
<1>2. ASSUME NEW k, Balance(k) \in DOMAIN db
      PROVE  Variant(db[Balance(k)].of) \in DOMAIN db /\ db'[Balance(k)].of = db[Balance(k)].of
  <2>1. db[Balance(k)] \in BalanceRow(db) BY <1>2, ShapeOfBalance DEF TablesOK
  <2>2. db[Balance(k)].of \in IdsOf(db, "variant") BY <2>1 DEF BalanceRow
  <2>3. Variant(db[Balance(k)].of) \in DOMAIN db BY <2>2, IdsAre DEF TablesOK
  <2> QED BY <1>1, <1>2, <2>3 DEF Kept
<1> SUFFICES ASSUME NEW s \in Stocks
             PROVE  /\ pc'[s] \in {"look", "insert"} => db'[Variant(row'[s])].ext = Item(s)'.ext
                    /\ pc'[s] = "update" => db'[Variant(db'[Balance(row'[s])].of)].ext = Item(s)'.ext
  BY DEF RowExtOK
<1>3. s \in Requests BY DEF Requests
<1>4. CASE StockStays(s)
  <2>1. Item(s)' = Item(s) /\ row'[s] = row[s] /\ pc'[s] = pc[s] BY <1>4 DEF StockStays, Item
  <2>2. CASE pc[s] \in {"look", "insert"}
    <3>1. Variant(row[s]) \in DOMAIN db /\ db[Variant(row[s])].ext = Item(s).ext BY <2>2 DEF RowOK, RowExtOK
    <3>2. db'[Variant(row[s])].ext = Item(s).ext BY <3>1, <1>1 DEF Kept
    <3> QED BY <2>1, <2>2, <3>2
  <2>3. CASE pc[s] = "update"
    <3>1. Balance(row[s]) \in DOMAIN db /\ db[Variant(db[Balance(row[s])].of)].ext = Item(s).ext
      BY <2>3 DEF RowOK, RowExtOK
    <3>2. db'[Variant(db[Balance(row[s])].of)].ext = Item(s).ext BY <3>1, <1>1, <1>2 DEF Kept
    <3>3. db'[Balance(row[s])].of = db[Balance(row[s])].of BY <3>1, <1>2
    <3> QED BY <2>1, <2>3, <3>2, <3>3
  <2> QED BY <2>1, <2>2, <2>3
<1>5. CASE StockFinds(s)
  <2>1. pc'[s] = "look" /\ UNCHANGED <<db, at, feed>> BY <1>5, <1>3 DEF StockFinds, Goes, txVars, PcOK
  <2>2. row'[s] \in VariantsOf(db, Item(s).ext) BY <1>5 DEF StockFinds, RowOK
  <2>3. Item(s)' = Item(s) BY <2>1 DEF Item
  <2> QED BY <2>1, <2>2, <2>3 DEF VariantsOf
<1>6. CASE StockLooks(s)
  <2>1. pc[s] = "look" /\ UNCHANGED <<db, at, feed>> BY <1>6 DEF StockLooks, txVars
  <2>2. Item(s)' = Item(s) /\ db[Variant(row[s])].ext = Item(s).ext BY <2>1 DEF Item, RowExtOK
  <2>3. \/ pc'[s] = "insert" /\ row' = row
        \/ pc'[s] = "update" /\ row'[s] \in BalancesOf(db, row[s])
    BY <1>6, <1>3 DEF StockLooks, Goes, PcOK, RowOK
  <2> QED BY <2>1, <2>2, <2>3 DEF BalancesOf
<1>7. CASE pc'[s] \notin {"look", "insert", "update"} BY <1>7
<1> QED BY <1>4, <1>5, <1>6, <1>7, StockMoves DEF AtItem

\* An import of nothing writes nothing.
EmptyOK == \A i \in Imports : feed[i] = <<>> => DOMAIN mine[i] = {}

LEMMA EmptyStep ==
    ASSUME CatalogInv, WroteOK, EmptyOK, [Next]_vars
    PROVE  EmptyOK'
<1> USE DEF CatalogInv
<1> SUFFICES ASSUME NEW i \in Imports, feed'[i] = <<>> PROVE DOMAIN mine'[i] = {} BY DEF EmptyOK
<1>1. CASE ImportStays(i) BY <1>1 DEF ImportStays, EmptyOK
<1>2. CASE ~InTransaction(i)'
  <2>1. MineOK' BY MineStep
  <2> QED BY <1>2, <2>1, NoRows DEF MineOK
<1>3. CASE FindCategories(i) BY <1>3 DEF FindCategories, EmptyOK
<1>4. CASE SaveCategories(i)
  <2>1. feed[i] = <<>> BY <1>4 DEF SaveCategories
  <2>2. NewNames(i) = {} BY <2>1, NoRows DEF NewNames, NamesIn
  <2>3. mine'[i] = [k \in {Category(l) : l \in LowerOf(NewNames(i))} |-> TRUE]
    BY <1>4 DEF SaveCategories, MineOK
  <2> QED BY <2>2, <2>3 DEF LowerOf
<1>5. CASE (\E F : SaveNextEntry(i, F)) \/ EntryFails(i) \/ Archive(i)
  <2>1. pc[i] \in {"entry", "archive"} /\ feed' = feed BY <1>5 DEF SaveNextEntry, EntryFails, Archive
  <2> QED BY <2>1 DEF WroteOK
<1> QED BY <1>1, <1>2, <1>3, <1>4, <1>5, ImportMoves

(***************************************************************************)
(* The categories of a feed                                                *)
(***************************************************************************)
CategoriesOf(view) == {l \in Range(Lower) : Category(l) \in DOMAIN view}
CategoriesIn(view, f) == LowerOf(NamesIn(f)) \subseteq CategoriesOf(view)

\* The categories an import has found are there, and they are all when it has met nobody.
KnownOK ==
    \A i \in Imports : pc[i] = "categories" =>
        /\ known[i] \subseteq CategoriesOf(db)
        /\ met[i] = {} => known[i] = CategoriesOf(db)

LEMMA KnownStep ==
    ASSUME CatalogInv, MetOK, WroteOK, KnownOK, [Next]_vars
    PROVE  KnownOK'
<1> USE DEF CatalogInv
<1> SUFFICES ASSUME NEW i \in Imports, pc'[i] = "categories"
             PROVE  /\ known'[i] \subseteq CategoriesOf(db')
                    /\ met'[i] = {} => known'[i] = CategoriesOf(db')
  BY DEF KnownOK, CategoriesOf
<1>0. i \in Requests BY DEF Requests
<1>1. CASE ImportStays(i)
  <2>1. pc[i] = "categories" /\ known'[i] = known[i] BY <1>1 DEF ImportStays
  <2>2. CategoriesOf(db) \subseteq CategoriesOf(db') BY NothingDeleted DEF CategoriesOf
  <2>3. ASSUME met'[i] = {} PROVE db' = db
    <3>1. met[i] = {} BY <1>0, <2>3, MetStep
    <3>2. AtWork(i) BY <2>1 DEF AtWork
    <3>3. ~Ends(i) BY <2>1 DEF Ends
    <3> QED BY <3>1, <3>2, <3>3, Undisturbed DEF TablesRest
  <2>4. met'[i] = {} => met[i] = {} BY <1>0, MetStep
  <2> QED BY <2>1, <2>2, <2>3, <2>4 DEF KnownOK
<1>2. CASE ~InTransaction(i)' BY <1>2 DEF InTransaction
<1>3. CASE FindCategories(i)
  BY <1>3 DEF FindCategories, WroteOK, CategoriesOf
<1>4. CASE SaveCategories(i) BY <1>4, <1>0 DEF SaveCategories, Goes, PcOK
<1>5. CASE (\E F : SaveNextEntry(i, F)) \/ EntryFails(i)
  <2>1. NextEntry(i) BY <1>5 DEF SaveNextEntry, EntryFails
  <2> QED BY <2>1, <1>0 DEF NextEntry, Goes, PcOK
<1>6. CASE Archive(i) BY <1>6, <1>0 DEF Archive, Goes, PcOK
<1> QED BY <1>1, <1>2, <1>3, <1>4, <1>5, <1>6, ImportMoves

LEMMA NamesLower ==
    ASSUME FeedsOK, NEW i \in Imports
    PROVE  LowerOf(NamesIn(feed[i])) \subseteq Range(Lower)
<1>1. \A k \in DOMAIN feed[i] : feed[i][k] \in EntryType BY ElementOf DEF FeedsOK
<1>2. \A k \in DOMAIN feed[i] : feed[i][k].cats \subseteq Names BY <1>1, EntryIs
<1>3. NamesIn(feed[i]) \subseteq DOMAIN Lower BY <1>2, CatalogAssumption DEF NamesIn
<1> QED BY <1>3 DEF LowerOf, Range

\* What an import that has saved its categories sees has those of its feed.
LEMMA CategoriesSaved ==
    ASSUME FeedsOK, MineOK, KnownOK, NEW i \in Imports, SaveCategories(i)
    PROVE  CategoriesIn(View(i)', feed[i])
<1> DEFINE rows == [k \in {Category(l) : l \in LowerOf(NewNames(i))} |-> TRUE]
<1>1. pc[i] = "categories" /\ db' = db /\ mine'[i] = rows BY DEF SaveCategories, MineOK
<1>2. \A l \in LowerOf(NewNames(i)) : Category(l) \in DOMAIN rows OBVIOUS
<1> HIDE DEF rows
<1>3. \A l : Category(l) \in DOMAIN rows \/ Category(l) \in DOMAIN db => Category(l) \in DOMAIN View(i)'
  BY <1>1 DEF View, Over
<1>4. ASSUME NEW l \in LowerOf(NamesIn(feed[i])) PROVE l \in CategoriesOf(View(i)')
  <2>1. l \in Range(Lower) BY NamesLower
  <2>2. l \in known[i] \/ l \in LowerOf(NewNames(i)) BY DEF LowerOf, NewNames
  <2>3. l \in known[i] => Category(l) \in DOMAIN db BY <1>1 DEF KnownOK, CategoriesOf
  <2> QED BY <1>2, <1>3, <2>1, <2>2, <2>3 DEF CategoriesOf
<1> QED BY <1>4 DEF CategoriesIn

(***************************************************************************)
(* Entries the rows mirror                                                 *)
(***************************************************************************)
ProductMirrored(view, e) ==
    /\ Product(e.product) \in DOMAIN view
    /\ view[Product(e.product)] = [status |-> e.status, text |-> e.text, cats |-> LowerOf(e.cats)]
StockMirrored(view, n, qty) ==
    \E k : /\ Balance(k) \in DOMAIN view /\ view[Balance(k)].of = n
           /\ view[Balance(k)].qty = Clamped(qty)
RowMirrored(view, e, x, n, freed) ==
    /\ Variant(n) \in DOMAIN view /\ view[Variant(n)].ext = e.variants[x].ext
    /\ view[Variant(n)].product = e.product /\ view[Variant(n)].code = e.variants[x].code
    /\ \/ e.variants[x].qty = NoQty \/ e.variants[x].ext \in freed
       \/ StockMirrored(view, n, e.variants[x].qty)
VariantMirrored(view, e, x, failed, freed) ==
    e.variants[x].ext \in failed \/ \E n : RowMirrored(view, e, x, n, freed)
MirroredIn(view, e, failed, freed) ==
    e.product \in failed \/
    /\ ProductMirrored(view, e)
    /\ \A x \in DOMAIN e.variants : VariantMirrored(view, e, x, failed, freed)

LEMMA MirrorsAre ==
    ASSUME HasShape(db), NEW e, NEW failed
    PROVE  Mirrors(e, failed) <=> MirroredIn(db, e, failed, restocked)
<1>1. ASSUME NEW x \in DOMAIN e.variants, NEW n
      PROVE  RowMirrored(db, e, x, n, restocked) <=>
                LET sent == e.variants[x] IN
                /\ n \in VariantsOf(db, sent.ext)
                /\ db[Variant(n)].product = e.product /\ db[Variant(n)].code = sent.code
                /\ \/ sent.qty = NoQty \/ sent.ext \in restocked
                   \/ \E k \in BalancesOf(db, n) : db[Balance(k)].qty = IF sent.qty < 0 THEN 0 ELSE sent.qty
  <2>1. n \in VariantsOf(db, e.variants[x].ext) <=>
          Variant(n) \in DOMAIN db /\ db[Variant(n)].ext = e.variants[x].ext
    BY IdsAre DEF VariantsOf
  <2>2. \A k : k \in BalancesOf(db, n) <=> Balance(k) \in DOMAIN db /\ db[Balance(k)].of = n
    BY IdsAre DEF BalancesOf
  <2>3. StockMirrored(db, n, e.variants[x].qty) <=>
          \E k \in BalancesOf(db, n) : db[Balance(k)].qty = IF e.variants[x].qty < 0 THEN 0 ELSE e.variants[x].qty
    BY <2>2 DEF StockMirrored, Clamped
  <2> QED BY <2>1, <2>3 DEF RowMirrored
<1>2. ASSUME NEW x \in DOMAIN e.variants
      PROVE  VariantMirrored(db, e, x, failed, restocked) <=>
                LET sent == e.variants[x] IN
                sent.ext \in failed \/ \E n \in VariantsOf(db, sent.ext) :
                    /\ db[Variant(n)].product = e.product /\ db[Variant(n)].code = sent.code
                    /\ \/ sent.qty = NoQty \/ sent.ext \in restocked
                       \/ \E k \in BalancesOf(db, n) : db[Balance(k)].qty = IF sent.qty < 0 THEN 0 ELSE sent.qty
  BY <1>1 DEF VariantMirrored
<1> QED BY <1>2 DEF Mirrors, MirroredIn, ProductMirrored

\* More failures, and more stock a list has set, ask less.
LEMMA MirroredMore ==
    ASSUME NEW view, NEW e, NEW failed, NEW freed, MirroredIn(view, e, failed, freed),
           NEW more, failed \subseteq more
    PROVE  MirroredIn(view, e, more, freed)
<1>1. \A x : VariantMirrored(view, e, x, failed, freed) => VariantMirrored(view, e, x, more, freed)
  BY DEF VariantMirrored
<1> QED BY <1>1 DEF MirroredIn

\* A mirrored entry stays mirrored when its product row and its variants stay, and so does
\* the stock of those variants that no list has set.
LEMMA MirroredStays ==
    ASSUME NEW v, NEW u, NEW e, NEW failed, NEW freed, NEW free, freed \subseteq free,
           MirroredIn(v, e, failed, freed),
           Product(e.product) \in DOMAIN v =>
               Product(e.product) \in DOMAIN u /\ u[Product(e.product)] = v[Product(e.product)],
           \A x \in DOMAIN e.variants : \A n : Variant(n) \in DOMAIN v /\ v[Variant(n)].ext = e.variants[x].ext
               => /\ Variant(n) \in DOMAIN u /\ u[Variant(n)] = v[Variant(n)]
                  /\ \/ e.variants[x].ext \in free
                     \/ \A k : Balance(k) \in DOMAIN v /\ v[Balance(k)].of = n
                          => Balance(k) \in DOMAIN u /\ u[Balance(k)] = v[Balance(k)]
    PROVE  MirroredIn(u, e, failed, free)
<1>1. CASE e.product \in failed BY <1>1 DEF MirroredIn
<1>2. CASE e.product \notin failed
  <2>1. ProductMirrored(u, e) BY <1>2 DEF MirroredIn, ProductMirrored
  <2>2. ASSUME NEW x \in DOMAIN e.variants, e.variants[x].ext \notin failed
        PROVE  \E n : RowMirrored(u, e, x, n, free)
    <3>1. VariantMirrored(v, e, x, failed, freed) BY <1>2 DEF MirroredIn
    <3>2. PICK n : RowMirrored(v, e, x, n, freed) BY <2>2, <3>1 DEF VariantMirrored
    <3>3. Variant(n) \in DOMAIN v /\ v[Variant(n)].ext = e.variants[x].ext BY <3>2 DEF RowMirrored
    <3>4. Variant(n) \in DOMAIN u /\ u[Variant(n)] = v[Variant(n)] BY <3>3
    <3>5. \/ e.variants[x].ext \in free
          \/ \A k : Balance(k) \in DOMAIN v /\ v[Balance(k)].of = n
               => Balance(k) \in DOMAIN u /\ u[Balance(k)] = v[Balance(k)]
      BY <3>3
    <3>6. e.variants[x].ext \in free \/ (StockMirrored(v, n, e.variants[x].qty) => StockMirrored(u, n, e.variants[x].qty))
      BY <3>5 DEF StockMirrored
    <3>7. RowMirrored(u, e, x, n, free) BY <3>2, <3>4, <3>6 DEF RowMirrored
    <3> QED BY <3>7
  <2>3. \A x \in DOMAIN e.variants : VariantMirrored(u, e, x, failed, free) BY <2>2 DEF VariantMirrored
  <2> QED BY <2>1, <2>3 DEF MirroredIn
<1> QED BY <1>1, <1>2

\* What an entry writes leaves the entries mirrored that share no product and no variant with it.
LEMMA MadeLeavesMirror ==
    ASSUME NEW base, HasShape(base), Distinct(base),
           NEW e \in EntryType, NEW new, NEW found, NEW failing,
           found # NoRow => Product(e.product) \in DOMAIN base,
           DOMAIN new = DOMAIN e.variants, NEW to, NEW saved, NEW of, NEW in, NEW o,
           Made(base, e, new, found, failing, to, saved, of, in, o), Kept(Over(o.rows, base), base),
           NEW f, f.product # e.product,
           \A x \in DOMAIN e.variants, y \in DOMAIN f.variants : e.variants[x].ext # f.variants[y].ext,
           NEW failed, NEW freed, MirroredIn(base, f, failed, freed)
    PROVE  MirroredIn(Over(o.rows, base), f, failed, freed)
<1> DEFINE u == Over(o.rows, base)
<1>1. ProductsLeft(base, e, found, u) /\ VariantsLeft(base, e, to, saved, u) BY MadeRows
<1>2. saved \subseteq DOMAIN e.variants /\ HomeFrom(e, of, u) BY MadeFrom
<1>3. \A n : Variant(n) \in DOMAIN u =>
        \/ \E y \in saved : to[y] = n /\ u[Variant(n)] = SaveVariant(e, y)
        \/ Variant(n) \in DOMAIN base /\ u[Variant(n)] = base[Variant(n)]
  BY MadeVariant
<1>4. \A k : Balance(k) \in DOMAIN u =>
        \/ \E x \in DOMAIN of : u[Balance(k)] = [of |-> of[x], qty |-> Clamped(e.variants[x].qty)]
        \/ Balance(k) \in DOMAIN base /\ u[Balance(k)] = base[Balance(k)]
  <2> SUFFICES ASSUME NEW k, Balance(k) \in DOMAIN u
               PROVE \/ \E x \in DOMAIN of : u[Balance(k)] = [of |-> of[x], qty |-> Clamped(e.variants[x].qty)]
                     \/ Balance(k) \in DOMAIN base /\ u[Balance(k)] = base[Balance(k)]
    OBVIOUS
  <2> QED BY MadeBalance
<1>5. Kept(u, base) OBVIOUS
<1> HIDE DEF u
<1>6. Product(f.product) \in DOMAIN base =>
        Product(f.product) \in DOMAIN u /\ u[Product(f.product)] = base[Product(f.product)]
  BY <1>1 DEF ProductsLeft
<1>7. ASSUME NEW x \in DOMAIN f.variants, NEW n, Variant(n) \in DOMAIN base,
             base[Variant(n)].ext = f.variants[x].ext
      PROVE  /\ Variant(n) \in DOMAIN u /\ u[Variant(n)] = base[Variant(n)]
             /\ \A k : Balance(k) \in DOMAIN base /\ base[Balance(k)].of = n
                  => Balance(k) \in DOMAIN u /\ u[Balance(k)] = base[Balance(k)]
  <2>1. Variant(n) \in DOMAIN u /\ u[Variant(n)].ext = f.variants[x].ext BY <1>5, <1>7 DEF Kept
  <2>2. ASSUME NEW y \in saved, u[Variant(n)] = SaveVariant(e, y) PROVE FALSE
    BY <2>1, <2>2, <1>2 DEF SaveVariant
  <2>3. u[Variant(n)] = base[Variant(n)] BY <1>3, <2>1, <2>2
  <2>4. ASSUME NEW k, Balance(k) \in DOMAIN base, base[Balance(k)].of = n
        PROVE  Balance(k) \in DOMAIN u /\ u[Balance(k)] = base[Balance(k)]
    <3>1. Balance(k) \in DOMAIN u /\ u[Balance(k)].of = n BY <1>5, <2>4 DEF Kept
    <3>2. ASSUME NEW z \in DOMAIN of, u[Balance(k)] = [of |-> of[z], qty |-> Clamped(e.variants[z].qty)]
          PROVE  FALSE
      <4>1. of[z] = n BY <3>1, <3>2
      <4>2. z \in DOMAIN e.variants /\ u[Variant(n)].ext = e.variants[z].ext BY <4>1, <1>2 DEF HomeFrom
      <4> QED BY <4>2, <2>1
    <3> QED BY <3>1, <3>2, <1>4
  <2> QED BY <2>1, <2>3, <2>4
<1>8. MirroredIn(u, f, failed, freed) BY <1>6, <1>7, MirroredStays
<1> QED BY <1>8 DEF u

\* The balance of a saved variant says what the entry says.
LEMMA MadeStock ==
    ASSUME NEW base, HasShape(base), Distinct(base), Single(base),
           NEW e \in EntryType, ~RepeatsVariant(e), NEW new, NEW found, NEW failing,
           found # NoRow => Product(e.product) \in DOMAIN base,
           DOMAIN new = DOMAIN e.variants, NEW to, NEW saved, NEW of, NEW in, NEW o,
           \A x, y \in DOMAIN new : new[x] = new[y] => x = y,
           \A x \in DOMAIN new : Variant(new[x]) \notin DOMAIN base /\ Balance(new[x]) \notin DOMAIN base,
           Made(base, e, new, found, failing, to, saved, of, in, o), Kept(Over(o.rows, base), base),
           NEW x \in DOMAIN of
    PROVE  StockMirrored(Over(o.rows, base), of[x], e.variants[x].qty)
<1> DEFINE u == Over(o.rows, base)
           stock == StockRows(base, e, of, in)
           k == in[x]
<1>1. BalancesLeft(base, stock, u) BY MadeRows
<1>2. HomeFrom(e, of, u) /\ BalanceFrom(base, new, of, in) BY MadeFrom
<1>3. Balance(k) \in DOMAIN u =>
        \/ \E z \in DOMAIN of : in[z] = k /\ u[Balance(k)] = [of |-> of[z], qty |-> Clamped(e.variants[z].qty)]
        \/ /\ Balance(k) \in DOMAIN base /\ u[Balance(k)] = base[Balance(k)]
           /\ \A z \in DOMAIN of : in[z] = k => base[Balance(k)].qty = Clamped(e.variants[z].qty)
  BY MadeBalance
<1>4. Balance(k) \notin DOMAIN base => Balance(k) \in DOMAIN stock BY DEF StockRows
<1>5. Kept(u, base) OBVIOUS
<1> HIDE DEF u, stock
<1>6. Balance(k) \in DOMAIN u BY <1>1, <1>4, <1>5 DEF BalancesLeft, Kept
<1>7. \A y, z \in DOMAIN of : of[y] = of[z] => y = z
  <2> SUFFICES ASSUME NEW y \in DOMAIN of, NEW z \in DOMAIN of, of[y] = of[z] PROVE y = z OBVIOUS
  <2>1. /\ y \in DOMAIN e.variants /\ u[Variant(of[y])].ext = e.variants[y].ext
        /\ z \in DOMAIN e.variants /\ u[Variant(of[z])].ext = e.variants[z].ext
    BY <1>2 DEF HomeFrom
  <2> QED BY <2>1 DEF RepeatsVariant
<1>8. ASSUME NEW z \in DOMAIN of, in[z] = k PROVE z = x
  <2>1. CASE BalancesOf(base, of[x]) = {}
    <3>1. k = new[x] /\ x \in DOMAIN new BY <1>2, <1>7, <2>1 DEF BalanceFrom, HomeFrom
    <3>2. CASE BalancesOf(base, of[z]) = {}
      <4>1. k = new[z] /\ z \in DOMAIN new BY <1>2, <1>7, <1>8, <3>2 DEF BalanceFrom, HomeFrom
      <4> QED BY <4>1, <3>1
    <3>3. CASE BalancesOf(base, of[z]) # {}
      <4>1. Balance(k) \in DOMAIN base BY <1>2, <1>8, <3>3 DEF BalanceFrom
      <4> QED BY <4>1, <3>1
    <3> QED BY <3>2, <3>3
  <2>2. CASE BalancesOf(base, of[x]) # {}
    <3>1. Balance(k) \in DOMAIN base /\ base[Balance(k)].of = of[x] BY <1>2, <2>2 DEF BalanceFrom
    <3>2. CASE BalancesOf(base, of[z]) = {}
      <4>1. k = new[z] /\ z \in DOMAIN new BY <1>2, <1>7, <1>8, <3>2 DEF BalanceFrom, HomeFrom
      <4> QED BY <4>1, <3>1
    <3>3. CASE BalancesOf(base, of[z]) # {}
      <4>1. base[Balance(k)].of = of[z] BY <1>2, <1>8, <3>3 DEF BalanceFrom
      <4> QED BY <4>1, <3>1, <1>7
    <3> QED BY <3>2, <3>3
  <2> QED BY <2>1, <2>2
<1>9. CASE \E z \in DOMAIN of : in[z] = k /\ u[Balance(k)] = [of |-> of[z], qty |-> Clamped(e.variants[z].qty)]
  <2>1. u[Balance(k)] = [of |-> of[x], qty |-> Clamped(e.variants[x].qty)] BY <1>8, <1>9
  <2>2. u[Balance(k)].of = of[x] /\ u[Balance(k)].qty = Clamped(e.variants[x].qty) BY <2>1
  <2>3. StockMirrored(u, of[x], e.variants[x].qty) BY <1>6, <2>2 DEF StockMirrored
  <2> QED BY <2>3 DEF u
<1>10. CASE /\ Balance(k) \in DOMAIN base /\ u[Balance(k)] = base[Balance(k)]
            /\ base[Balance(k)].qty = Clamped(e.variants[x].qty)
  <2>1. BalancesOf(base, of[x]) # {}
    <3>1. ASSUME BalancesOf(base, of[x]) = {} PROVE FALSE
      <4>1. k = new[x] /\ x \in DOMAIN new BY <1>2, <1>7, <3>1 DEF BalanceFrom, HomeFrom
      <4> QED BY <4>1, <1>10
    <3> QED BY <3>1
  <2>2. base[Balance(k)].of = of[x] BY <1>2, <2>1 DEF BalanceFrom
  <2>3. StockMirrored(u, of[x], e.variants[x].qty) BY <1>6, <1>10, <2>2 DEF StockMirrored
  <2> QED BY <2>3 DEF u
<1> QED BY <1>3, <1>6, <1>9, <1>10

\* An entry that lists no variant twice is mirrored by what it writes, but for the variants
\* that were not saved.
LEMMA MadeMirrors ==
    ASSUME NEW base, HasShape(base), Distinct(base), Single(base),
           NEW e \in EntryType, ~RepeatsVariant(e), NEW new, NEW found, NEW failing,
           found # NoRow => Product(e.product) \in DOMAIN base /\ base[Product(e.product)] = found,
           DOMAIN new = DOMAIN e.variants, NEW to, NEW saved, NEW of, NEW in, NEW o,
           \A x, y \in DOMAIN new : new[x] = new[y] => x = y,
           \A x \in DOMAIN new : Variant(new[x]) \notin DOMAIN base /\ Balance(new[x]) \notin DOMAIN base,
           Made(base, e, new, found, failing, to, saved, of, in, o), Kept(Over(o.rows, base), base),
           NEW failed, \A x \in DOMAIN e.variants \ saved : e.variants[x].ext \in failed
    PROVE  MirroredIn(Over(o.rows, base), e, failed, {})
<1> DEFINE u == Over(o.rows, base)
<1>1. ProductsLeft(base, e, found, u) /\ VariantsLeft(base, e, to, saved, u) BY MadeRows
<1>2. /\ saved \subseteq DOMAIN e.variants /\ HomeFrom(e, of, u)
      /\ VariantFrom(base, e, new, to)
  BY MadeFrom
<1>3. \A n : Variant(n) \in DOMAIN u =>
        \/ \E y \in saved : to[y] = n /\ u[Variant(n)] = SaveVariant(e, y)
        \/ n \notin {to[x] : x \in saved} /\ Variant(n) \in DOMAIN base /\ u[Variant(n)] = base[Variant(n)]
  BY MadeVariant
<1>4. Single(u) BY MadeSingle
<1>5. \A x \in DOMAIN of : StockMirrored(u, of[x], e.variants[x].qty) BY MadeStock
<1> HIDE DEF u
<1>6. ProductMirrored(u, e)
  <2>1. SaveProduct(base, e, found) = [status |-> e.status, text |-> e.text, cats |-> LowerOf(e.cats)]
    BY DEF SaveProduct
  <2> QED BY <1>1, <2>1 DEF ProductsLeft, ProductMirrored
<1>7. ASSUME NEW x \in saved PROVE RowMirrored(u, e, x, to[x], {})
  <2>1. Variant(to[x]) \in DOMAIN u BY <1>1 DEF VariantsLeft
  <2>2. PICK y \in saved : to[y] = to[x] /\ u[Variant(to[x])] = SaveVariant(e, y) BY <1>3, <2>1
  <2>3. x \in DOMAIN e.variants /\ y \in DOMAIN e.variants BY <1>2
  <2>4. y = x
    <3>1. CASE Found(base, e, x) = {}
      <4>1. to[x] = new[x] BY <1>2, <2>3, <3>1 DEF VariantFrom
      <4>2. Found(base, e, y) = {} BY <1>2, <2>2, <2>3, <4>1 DEF VariantFrom
      <4> QED BY <1>2, <2>2, <2>3, <4>1, <4>2 DEF VariantFrom
    <3>2. CASE Found(base, e, x) # {}
      <4>1. Variant(to[x]) \in DOMAIN base /\ base[Variant(to[x])].ext = e.variants[x].ext
        BY <1>2, <2>3, <3>2 DEF VariantFrom
      <4>2. base[Variant(to[y])].ext = e.variants[y].ext BY <1>2, <2>2, <2>3, <4>1 DEF VariantFrom
      <4> QED BY <2>2, <2>3, <4>1, <4>2 DEF RepeatsVariant
    <3> QED BY <3>1, <3>2
  <2>5. /\ u[Variant(to[x])].ext = e.variants[x].ext /\ u[Variant(to[x])].product = e.product
        /\ u[Variant(to[x])].code = e.variants[x].code
    BY <2>2, <2>4 DEF SaveVariant
  <2>6. ASSUME e.variants[x].qty # NoQty PROVE StockMirrored(u, to[x], e.variants[x].qty)
    <3>1. x \in DOMAIN of BY <1>2, <2>1, <2>3, <2>5, <2>6 DEF HomeFrom
    <3>2. Variant(of[x]) \in DOMAIN u /\ u[Variant(of[x])].ext = e.variants[x].ext BY <3>1, <1>2 DEF HomeFrom
    <3>3. of[x] = to[x] BY <2>1, <2>5, <3>2, <1>4 DEF Single
    <3> QED BY <1>5, <3>1, <3>3
  <2> QED BY <2>1, <2>5, <2>6 DEF RowMirrored
<1>8. \A x \in DOMAIN e.variants : VariantMirrored(u, e, x, failed, {}) BY <1>7 DEF VariantMirrored
<1>9. MirroredIn(u, e, failed, {}) BY <1>6, <1>8 DEF MirroredIn
<1> QED BY <1>9 DEF u

AllThere(rows, base) == \A k \in DOMAIN rows : k \in DOMAIN base /\ base[k] = rows[k]

\* An entry the rows mirror already writes what is there.
LEMMA QuietEntry ==
    ASSUME NEW base, HasShape(base), Distinct(base), Single(base),
           NEW e \in EntryType, NEW new, NEW found, NEW failing,
           DOMAIN new = DOMAIN e.variants, NEW to, NEW saved, NEW of, NEW in, NEW o,
           Made(base, e, new, found, failing, to, saved, of, in, o), Kept(Over(o.rows, base), base),
           MirroredIn(base, e, {}, {})
    PROVE  AllThere(o.rows, base)
<1> DEFINE u == Over(o.rows, base)
           product == ProductRows(base, e, found)
           variants == VariantRows(base, e, to, saved)
           stock == StockRows(base, e, of, in)
<1>0. ProductMirrored(base, e) /\ \A x \in DOMAIN e.variants : \E n : RowMirrored(base, e, x, n, {})
  BY DEF MirroredIn, VariantMirrored
<1>1. /\ saved \subseteq DOMAIN e.variants /\ HomeFrom(e, of, u) /\ VariantFrom(base, e, new, to)
      /\ BalanceFrom(base, new, of, in)
  <2>1. found # NoRow => Product(e.product) \in DOMAIN base BY <1>0 DEF ProductMirrored
  <2> QED BY <2>1, MadeFrom
<1>2. o.rows = Over(stock, Over(product, variants)) BY DEF Made, BaseRows
<1>3. ASSUME NEW x \in DOMAIN e.variants
      PROVE  /\ Variant(to[x]) \in DOMAIN base /\ base[Variant(to[x])] = SaveVariant(e, x)
             /\ RowMirrored(base, e, x, to[x], {})
  <2>1. PICK n : RowMirrored(base, e, x, n, {}) BY <1>0
  <2>2. Variant(n) \in DOMAIN base /\ base[Variant(n)].ext = e.variants[x].ext
        /\ base[Variant(n)].product = e.product /\ base[Variant(n)].code = e.variants[x].code
    BY <2>1 DEF RowMirrored
  <2>3. n \in Found(base, e, x) BY <2>2, IdsAre DEF Found, VariantsOf
  <2>4. Variant(to[x]) \in DOMAIN base /\ base[Variant(to[x])].ext = e.variants[x].ext
    BY <1>1, <2>3 DEF VariantFrom
  <2>5. to[x] = n BY <2>2, <2>4 DEF Single
  <2>6. base[Variant(n)] \in VariantRow BY <2>2, ShapeOfVariant
  <2>7. base[Variant(n)] = SaveVariant(e, x) BY <2>2, <2>6 DEF VariantRow, SaveVariant
  <2> QED BY <2>1, <2>4, <2>5, <2>7
<1>4. \A n : Variant(n) \in DOMAIN u => Variant(n) \in DOMAIN base
  <2> SUFFICES ASSUME NEW n, Variant(n) \in DOMAIN u PROVE Variant(n) \in DOMAIN base OBVIOUS
  <2>1. \/ \E y \in saved : to[y] = n /\ u[Variant(n)] = SaveVariant(e, y)
        \/ n \notin {to[x] : x \in saved} /\ Variant(n) \in DOMAIN base /\ u[Variant(n)] = base[Variant(n)]
    BY MadeVariant
  <2> HIDE DEF u
  <2> QED BY <2>1, <1>1, <1>3
<1>5. Kept(u, base) OBVIOUS
<1> HIDE DEF u
<1>6. DOMAIN stock = {}
  <2>1. ASSUME NEW x \in DOMAIN of
        PROVE  Balance(in[x]) \in DOMAIN base /\ base[Balance(in[x])].qty = Clamped(e.variants[x].qty)
    <3>1. /\ x \in DOMAIN e.variants /\ e.variants[x].qty \in Int
          /\ Variant(of[x]) \in DOMAIN u /\ u[Variant(of[x])].ext = e.variants[x].ext
      BY <1>1 DEF HomeFrom
    <3>2. Variant(of[x]) \in DOMAIN base /\ base[Variant(of[x])].ext = e.variants[x].ext
      BY <3>1, <1>4, <1>5 DEF Kept
    <3>3. Variant(to[x]) \in DOMAIN base /\ base[Variant(to[x])].ext = e.variants[x].ext
      BY <3>1, <1>3 DEF RowMirrored
    <3>4. of[x] = to[x] BY <3>2, <3>3 DEF Single
    <3>5. e.variants[x].qty # NoQty BY <3>1, CatalogAssumption
    <3>6. StockMirrored(base, of[x], e.variants[x].qty) BY <3>1, <3>4, <3>5, <1>3 DEF RowMirrored
    <3>7. PICK k : /\ Balance(k) \in DOMAIN base /\ base[Balance(k)].of = of[x]
                   /\ base[Balance(k)].qty = Clamped(e.variants[x].qty)
      BY <3>6 DEF StockMirrored
    <3>8. k \in BalancesOf(base, of[x]) BY <3>7, IdsAre DEF BalancesOf
    <3>9. Balance(in[x]) \in DOMAIN base /\ base[Balance(in[x])].of = of[x] BY <1>1, <3>8 DEF BalanceFrom
    <3>10. in[x] = k BY <3>7, <3>9 DEF Single
    <3> QED BY <3>7, <3>10
  <2> QED BY <2>1 DEF StockRows
<1>7. ASSUME NEW k \in DOMAIN variants PROVE k \in DOMAIN base /\ base[k] = variants[k]
  <2>1. PICK x \in saved : k = Variant(to[x]) BY DEF VariantRows
  <2>2. variants[k] = Standing(base, e, to, saved, to[x]) BY <2>1 DEF VariantRows, Variant
  <2>3. Written(base, e, to, saved, to[x]) = {} BY <1>1, <1>3 DEF Written, Writes
  <2>4. variants[k] = base[k] BY <2>1, <2>2, <2>3, StandingIs
  <2> QED BY <2>1, <2>4, <1>1, <1>3
<1>8. ASSUME NEW k \in DOMAIN product PROVE k \in DOMAIN base /\ base[k] = product[k]
  <2>1. k = Product(e.product) /\ product[k] = SaveProduct(base, e, found) BY DEF ProductRows
  <2>2. SaveProduct(base, e, found) = [status |-> e.status, text |-> e.text, cats |-> LowerOf(e.cats)]
    BY <1>0 DEF SaveProduct, ProductMirrored
  <2> QED BY <2>1, <2>2, <1>0 DEF ProductMirrored
<1> HIDE DEF product, variants, stock
<1>9. /\ DOMAIN o.rows = DOMAIN product \cup DOMAIN variants
      /\ \A k \in DOMAIN o.rows : o.rows[k] = IF k \in DOMAIN product THEN product[k] ELSE variants[k]
  BY <1>2, <1>6 DEF Over
<1> QED BY <1>7, <1>8, <1>9 DEF AllThere

(***************************************************************************)
(* An import that has met nobody                                           *)
(***************************************************************************)
NoStray(view, f) ==
    \A p \in Products :
        Product(p) \in DOMAIN view /\ view[Product(p)].status = "active" => p \in Listed(f)

\* The entries an import is past.
Done(i) == IF pc[i] = "entry" THEN 1 .. (at[i] - 1) ELSE DOMAIN feed[i]

\* The product rows it has read, but for those it has written since, are there.
AsLoaded(i) ==
    \A p \in Products : loaded[i][p] # NoRow /\ (\A k \in Done(i) : feed[i][k].product # p)
        => View(i)[Product(p)] = loaded[i][p]

Faithful(i) ==
    /\ \A k \in Done(i) : MirroredIn(View(i), feed[i][k], errors[i], {})
    /\ pc[i] = "entry" => AsLoaded(i)
    /\ pc[i] = "commit" /\ feed[i] # <<>> => NoStray(View(i), feed[i])

\* What an open import sees.
OpenOK ==
    \A i \in Imports : InTransaction(i) /\ pc[i] # "categories" =>
        /\ CategoriesIn(View(i), feed[i])
        /\ met[i] = {} /\ ~ListsTwice(feed[i]) /\ Single(View(i)) => Faithful(i)

LEMMA OpenAtFirst ==
    ASSUME CatalogInv, NEW i \in Imports, SaveCategories(i)
    PROVE  Faithful(i)'
<1> USE DEF CatalogInv
<1> DEFINE rows == [k \in {Category(l) : l \in LowerOf(NewNames(i))} |-> TRUE]
<1>0. i \in Requests BY DEF Requests
<1>1. /\ pc[i] = "categories" /\ mine'[i] = rows /\ UNCHANGED <<db, at, feed>>
      /\ pc'[i] = IF feed[i] = <<>> THEN "commit" ELSE "entry"
  BY <1>0 DEF SaveCategories, Goes, PcOK, MineOK
<1>2. at'[i] = 1 BY <1>0, <1>1 DEF AtOK
<1>3. Done(i)' = {}
  <2>1. feed[i] = <<>> => DOMAIN feed[i] = {} BY NoRows
  <2> QED BY <1>1, <1>2, <2>1 DEF Done
<1>4. ASSUME NEW p \in Products, loaded'[i][p] # NoRow
      PROVE  View(i)'[Product(p)] = loaded'[i][p]
  <2>1. loaded'[i][p] = IF p \in Listed(feed[i]) /\ Product(p) \in DOMAIN db THEN db[Product(p)] ELSE NoRow
    BY DEF SaveCategories, LoadedOK
  <2>2. Product(p) \in DOMAIN db /\ loaded'[i][p] = db[Product(p)] BY <1>4, <2>1
  <2>3. Product(p) \notin DOMAIN rows BY DEF Product, Category
  <2> HIDE DEF rows
  <2> QED BY <1>1, <2>2, <2>3 DEF View, Over
<1>5. AsLoaded(i)' BY <1>4 DEF AsLoaded
<1> QED BY <1>1, <1>3, <1>5 DEF Faithful

\* An entry is done, whatever becomes of it.
LEMMA DoneGrows ==
    ASSUME CatalogInv, NEW i \in Imports, (\E F : SaveNextEntry(i, F)) \/ EntryFails(i)
    PROVE  /\ pc[i] = "entry" /\ at[i] \in Nat /\ at[i] \in DOMAIN feed[i] /\ UNCHANGED <<db, feed>>
           /\ Done(i) = 1 .. (at[i] - 1) /\ Done(i)' = Done(i) \cup {at[i]} /\ Done(i)' \subseteq DOMAIN feed[i]
           /\ \/ pc'[i] = "entry" /\ loaded'[i] = loaded[i]
              \/ pc'[i] = "archive"
<1> USE DEF CatalogInv
<1>0. i \in Requests BY DEF Requests
<1>1. pc[i] = "entry" /\ NextEntry(i) /\ UNCHANGED <<db, feed>> BY DEF SaveNextEntry, EntryFails
<1>2. at[i] \in 1 .. Len(feed[i]) /\ Len(feed[i]) \in Nat /\ DOMAIN feed[i] = 1 .. Len(feed[i])
  BY <1>0, <1>1 DEF AtOK, FeedsOK
<1>3. Done(i) = 1 .. (at[i] - 1) BY <1>1 DEF Done
<1>4. CASE at[i] < Len(feed[i])
  <2>1. pc'[i] = "entry" /\ at'[i] = at[i] + 1 /\ loaded' = loaded
    BY <1>0, <1>1, <1>4 DEF NextEntry, Goes, PcOK, FeedsOK
  <2>2. Done(i)' = 1 .. at[i] BY <1>2, <2>1 DEF Done
  <2> QED BY <1>1, <1>2, <1>3, <2>1, <2>2
<1>5. CASE ~(at[i] < Len(feed[i]))
  <2>1. pc'[i] = "archive" BY <1>0, <1>1, <1>5 DEF NextEntry, Goes, PcOK
  <2>2. Done(i)' = 1 .. Len(feed[i]) BY <1>1, <1>2, <2>1 DEF Done
  <2>3. at[i] = Len(feed[i]) BY <1>2, <1>5
  <2> QED BY <1>1, <1>2, <1>3, <2>1, <2>2, <2>3
<1> QED BY <1>4, <1>5

\* Of a feed that lists nothing twice, no two entries share anything.
LEMMA EntriesApart ==
    ASSUME NEW f, ~ListsTwice(f), NEW k \in DOMAIN f
    PROVE  /\ ~RepeatsVariant(f[k])
           /\ \A l \in DOMAIN f \ {k} :
                /\ f[l].product # f[k].product
                /\ \A x \in DOMAIN f[k].variants, y \in DOMAIN f[l].variants :
                     f[k].variants[x].ext # f[l].variants[y].ext
<1>1. ASSUME NEW x \in DOMAIN f[k].variants, NEW y \in DOMAIN f[k].variants, x # y
      PROVE  f[k].variants[x].ext # f[k].variants[y].ext
  <2>1. <<k, x>> # <<k, y>> BY <1>1
  <2> QED BY <2>1 DEF ListsTwice
<1>2. ASSUME NEW l \in DOMAIN f \ {k}
      PROVE  /\ f[l].product # f[k].product
             /\ \A x \in DOMAIN f[k].variants, y \in DOMAIN f[l].variants :
                  f[k].variants[x].ext # f[l].variants[y].ext
  <2>1. \A x, y : <<k, x>> # <<l, y>> OBVIOUS
  <2> QED BY <2>1 DEF ListsTwice
<1> QED BY <1>1, <1>2 DEF RepeatsVariant

LEMMA FaithfulFails ==
    ASSUME CatalogInv, WroteOK, NEW i \in Imports, EntryFails(i), Faithful(i)
    PROVE  Faithful(i)'
<1> USE DEF CatalogInv
<1>1. /\ pc[i] = "entry" /\ at[i] \in DOMAIN feed[i] /\ UNCHANGED <<db, feed, mine>>
      /\ Done(i)' = Done(i) \cup {at[i]}
      /\ \/ pc'[i] = "entry" /\ loaded'[i] = loaded[i]
         \/ pc'[i] = "archive"
  BY DoneGrows DEF EntryFails
<1>2. View(i)' = View(i) BY <1>1 DEF View
<1>3. errors'[i] = errors[i] \cup {feed[i][at[i]].product} BY DEF EntryFails, WroteOK, Entry
<1>4. ASSUME NEW k \in Done(i) PROVE MirroredIn(View(i), feed[i][k], errors'[i], {})
  <2>1. MirroredIn(View(i), feed[i][k], errors[i], {}) BY DEF Faithful
  <2> QED BY <1>3, <2>1, MirroredMore
<1>5. MirroredIn(View(i), feed[i][at[i]], errors'[i], {}) BY <1>3 DEF MirroredIn
<1>6. \A k \in Done(i)' : MirroredIn(View(i)', feed'[i][k], errors'[i], {}) BY <1>1, <1>2, <1>4, <1>5
<1>7. pc'[i] = "entry" => AsLoaded(i)'
  <2> SUFFICES ASSUME pc'[i] = "entry" PROVE AsLoaded(i)' OBVIOUS
  <2>1. AsLoaded(i) /\ loaded'[i] = loaded[i] BY <1>1 DEF Faithful
  <2> QED BY <1>1, <1>2, <2>1 DEF AsLoaded
<1> QED BY <1>1, <1>6, <1>7 DEF Faithful

LEMMA FaithfulSaves ==
    ASSUME CatalogInv, WroteOK, FreshOK, KeptOK, NEW i \in Imports, NEW F, SaveNextEntry(i, F), Faithful(i),
           ~ListsTwice(feed[i]), Single(View(i))
    PROVE  Faithful(i)'
<1> USE DEF CatalogInv
<1>1. /\ pc[i] = "entry" /\ at[i] \in Nat /\ at[i] \in DOMAIN feed[i] /\ UNCHANGED <<db, feed>>
      /\ Done(i) = 1 .. (at[i] - 1) /\ Done(i)' = Done(i) \cup {at[i]} /\ Done(i)' \subseteq DOMAIN feed[i]
      /\ \/ pc'[i] = "entry" /\ loaded'[i] = loaded[i]
         \/ pc'[i] = "archive"
  BY DoneGrows
<1>2. PICK o \in Outcomes(i, F) :
        /\ mine' = [mine EXCEPT ![i] = Over(o.rows, mine[i])]
        /\ errors' = [errors EXCEPT ![i] = errors[i] \cup
              {Entry(i).variants[x].ext : x \in DOMAIN Entry(i).variants \ o.saved}]
  BY DEF SaveNextEntry, MineOK, WroteOK
<1> DEFINE base == View(i)
           e == Entry(i)
           new == NewRows(i)
           found == loaded[i][e.product]
           u == Over(o.rows, base)
<1>3. PICK to, saved, of, in : Made(base, e, new, found, F, to, saved, of, in, o) BY OutcomeMade
<1>4. e \in EntryType /\ (found # NoRow => Product(e.product) \in DOMAIN base) BY <1>1, EntryFound
<1>5. HasShape(base) /\ Distinct(base) BY DEF TablesOK
<1>6. DOMAIN new = DOMAIN e.variants /\ \A x \in DOMAIN e.variants : new[x] = <<i, at[i], x>> BY DEF NewRows
<1>7. \A x \in DOMAIN e.variants : Variant(new[x]) \notin DOMAIN base /\ Balance(new[x]) \notin DOMAIN base
  BY <1>1, NewRowsAreNew
<1>8. View(i)' = u BY <1>1, <1>2, OverOver DEF MineOK, View
<1>9. e = feed[i][at[i]] BY DEF Entry
<1>10. errors'[i] = errors[i] \cup {e.variants[x].ext : x \in DOMAIN e.variants \ o.saved}
  BY <1>2 DEF WroteOK
<1>11. /\ ~RepeatsVariant(e)
       /\ \A l \in Done(i) :
            /\ feed[i][l].product # e.product
            /\ \A x \in DOMAIN e.variants, y \in DOMAIN feed[i][l].variants :
                 e.variants[x].ext # feed[i][l].variants[y].ext
  <2>1. \A l \in Done(i) : l \in DOMAIN feed[i] \ {at[i]} BY <1>1
  <2> QED BY <1>1, <1>9, <2>1, EntriesApart
<1>12. found # NoRow => base[Product(e.product)] = found
  <2>1. AsLoaded(i) /\ e.product \in Products BY <1>1, <1>4, EntryIs DEF Faithful
  <2> QED BY <1>11, <2>1 DEF AsLoaded
<1>13. \A k \in Done(i) : MirroredIn(base, feed[i][k], errors[i], {}) BY DEF Faithful
<1>14. \A p \in Products : loaded[i][p] # NoRow => Product(p) \in DOMAIN base
  BY DEF LoadedOK, View, Over
<1> HIDE DEF base, e, new, found
<1>15. Kept(u, base) BY <1>3, <1>4, <1>5, <1>6, <1>7, MadeKeeps
<1>16. o.saved = saved /\ ProductsLeft(base, e, found, u)
  <2>1. o.saved = saved BY <1>3 DEF Made
  <2>2. ProductsLeft(base, e, found, u) BY <1>3, <1>4, MadeRows
  <2> QED BY <2>1, <2>2
<1>17. Single(base) BY DEF base
<1>18. ASSUME NEW k \in Done(i) PROVE MirroredIn(u, feed[i][k], errors'[i], {})
  <2>1. MirroredIn(base, feed[i][k], errors[i], {}) BY <1>13
  <2>2. feed[i][k].product # e.product BY <1>11
  <2>3. \A x \in DOMAIN e.variants, y \in DOMAIN feed[i][k].variants :
          e.variants[x].ext # feed[i][k].variants[y].ext
    BY <1>11
  <2>4. MirroredIn(u, feed[i][k], errors[i], {})
    BY <1>3, <1>4, <1>5, <1>6, <1>15, <2>1, <2>2, <2>3, MadeLeavesMirror
  <2>5. errors[i] \subseteq errors'[i] BY <1>10
  <2> HIDE DEF u
  <2> QED BY <2>4, <2>5, MirroredMore
<1>19. MirroredIn(u, e, errors'[i], {})
  <2>1. \A x \in DOMAIN e.variants \ saved : e.variants[x].ext \in errors'[i] BY <1>10, <1>16
  <2>2. \A x, y \in DOMAIN new : new[x] = new[y] => x = y BY <1>6
  <2> QED BY <1>3, <1>4, <1>5, <1>6, <1>7, <1>11, <1>12, <1>15, <1>17, <2>1, <2>2, MadeMirrors
<1> HIDE DEF u
<1>20. \A k \in Done(i)' : MirroredIn(View(i)', feed'[i][k], errors'[i], {})
  BY <1>1, <1>8, <1>9, <1>18, <1>19
<1>21. pc'[i] = "entry" => AsLoaded(i)'
  <2> SUFFICES ASSUME pc'[i] = "entry", NEW p \in Products, loaded'[i][p] # NoRow,
                      \A k \in Done(i)' : feed'[i][k].product # p
               PROVE  View(i)'[Product(p)] = loaded'[i][p]
    BY DEF AsLoaded
  <2>1. loaded'[i] = loaded[i] /\ AsLoaded(i) BY <1>1 DEF Faithful
  <2>2. p # e.product /\ \A k \in Done(i) : feed[i][k].product # p BY <1>1, <1>9
  <2>3. base[Product(p)] = loaded[i][p] BY <2>1, <2>2 DEF AsLoaded, base
  <2>4. u[Product(p)] = base[Product(p)] BY <1>14, <1>16, <2>1, <2>2 DEF ProductsLeft
  <2> QED BY <1>8, <2>1, <2>3, <2>4
<1> QED BY <1>1, <1>20, <1>21 DEF Faithful

LEMMA FaithfulArchives ==
    ASSUME CatalogInv, WroteOK, NEW i \in Imports, Archive(i), Faithful(i)
    PROVE  Faithful(i)'
<1> USE DEF CatalogInv
<1>0. i \in Requests BY DEF Requests
<1> DEFINE base == View(i)
           rows == [k \in {Product(p) : p \in ToArchive(i)} |-> [base[k] EXCEPT !.status = "archived"]]
           u == Over(rows, base)
<1>1. /\ pc[i] = "archive" /\ pc'[i] = "commit" /\ UNCHANGED <<db, errors, feed>>
      /\ mine' = [mine EXCEPT ![i] = Over(rows, mine[i])]
  BY <1>0 DEF Archive, Goes, PcOK, MineOK
<1>2. View(i)' = u BY <1>1, OverOver DEF MineOK, View
<1>3. Done(i)' = Done(i) /\ Done(i) = DOMAIN feed[i] BY <1>1 DEF Done
<1>4. HasShape(base) BY DEF TablesOK
<1>5. DOMAIN rows = {Product(p) : p \in ToArchive(i)}
      /\ \A p \in ToArchive(i) : rows[Product(p)].status = "archived"
  <2>1. ASSUME NEW p \in ToArchive(i) PROVE rows[Product(p)].status = "archived"
    <3>1. Product(p) \in DOMAIN base BY DEF ToArchive
    <3>2. base[Product(p)] \in ProductRow BY <3>1, <1>4, ShapeOfProduct
    <3> QED BY <3>2 DEF ProductRow
  <2> QED BY <2>1
<1>6. \A p : p \in ToArchive(i) <=> /\ p \in Products /\ p \notin Listed(feed[i])
                                    /\ Product(p) \in DOMAIN base /\ base[Product(p)].status = "active"
  BY DEF ToArchive
<1>7. \A k \in Done(i) : MirroredIn(base, feed[i][k], errors[i], {}) BY DEF Faithful
<1> HIDE DEF base, rows
<1>8. /\ \A p : Product(p) \in DOMAIN rows => p \in ToArchive(i)
      /\ \A n : Variant(n) \notin DOMAIN rows /\ Balance(n) \notin DOMAIN rows
  BY <1>5 DEF Product, Variant, Balance
<1>9. /\ DOMAIN u = DOMAIN rows \cup DOMAIN base
      /\ \A k \in DOMAIN u : u[k] = IF k \in DOMAIN rows THEN rows[k] ELSE base[k]
  BY DEF Over
<1> HIDE DEF u
<1>10. ASSUME NEW k \in Done(i) PROVE MirroredIn(u, feed[i][k], errors[i], {})
  <2> DEFINE f == feed[i][k]
  <2>1. f.product \notin ToArchive(i) BY <1>3, <1>6 DEF Listed
  <2>2. MirroredIn(base, f, errors[i], {}) BY <1>7
  <2> HIDE DEF f
  <2>3. Product(f.product) \in DOMAIN base =>
          Product(f.product) \in DOMAIN u /\ u[Product(f.product)] = base[Product(f.product)]
    BY <1>8, <1>9, <2>1
  <2>4. \A n : /\ Variant(n) \in DOMAIN base => Variant(n) \in DOMAIN u /\ u[Variant(n)] = base[Variant(n)]
               /\ Balance(n) \in DOMAIN base => Balance(n) \in DOMAIN u /\ u[Balance(n)] = base[Balance(n)]
    BY <1>8, <1>9
  <2>5. MirroredIn(u, f, errors[i], {}) BY <2>2, <2>3, <2>4, MirroredStays
  <2> QED BY <2>5 DEF f
<1>11. NoStray(u, feed[i])
  <2> SUFFICES ASSUME NEW p \in Products, Product(p) \in DOMAIN u, u[Product(p)].status = "active"
               PROVE  p \in Listed(feed[i])
    BY DEF NoStray
  <2>1. p \notin ToArchive(i) BY <1>5, <1>9
  <2>2. Product(p) \in DOMAIN base /\ u[Product(p)] = base[Product(p)] BY <1>8, <1>9, <2>1
  <2> QED BY <1>6, <2>1, <2>2
<1> QED BY <1>1, <1>2, <1>3, <1>10, <1>11 DEF Faithful

LEMMA OpenStep ==
    ASSUME CatalogInv, MetOK, WroteOK, FreshOK, KeptOK, KnownOK, OpenOK, [Next]_vars
    PROVE  OpenOK'
<1> USE DEF CatalogInv
<1> SUFFICES ASSUME NEW i \in Imports, InTransaction(i)', pc'[i] # "categories"
             PROVE  /\ CategoriesIn(View(i)', feed'[i])
                    /\ met'[i] = {} /\ ~ListsTwice(feed'[i]) /\ Single(View(i)') => Faithful(i)'
  BY DEF OpenOK
<1>0. i \in Requests /\ (met'[i] = {} => met[i] = {})
  <2>1. i \in Requests BY DEF Requests
  <2> QED BY <2>1, MetStep
<1>1. CASE ImportStays(i)
  <2>1. /\ InTransaction(i) /\ pc[i] # "categories" /\ pc'[i] = pc[i] /\ at'[i] = at[i]
        /\ mine'[i] = mine[i] /\ loaded'[i] = loaded[i] /\ errors'[i] = errors[i] /\ feed'[i] = feed[i]
    BY <1>1 DEF ImportStays, InTransaction
  <2>2. DOMAIN View(i) \subseteq DOMAIN View(i)' BY <2>1, NothingDeleted DEF View, Over
  <2>3. CategoriesIn(View(i)', feed'[i]) BY <2>1, <2>2 DEF OpenOK, CategoriesIn, CategoriesOf
  <2>4. ASSUME met'[i] = {}, ~ListsTwice(feed'[i]), Single(View(i)') PROVE Faithful(i)'
    <3>1. ~Ends(i) BY <2>1, <1>0 DEF Ends, Goes, PcOK
    <3>2. db' = db BY <2>1, <2>4, <1>0, <3>1, Undisturbed DEF TablesRest, AtWork, InTransaction
    <3>3. View(i)' = View(i) BY <2>1, <3>2 DEF View
    <3>4. Faithful(i) BY <2>1, <2>4, <1>0, <3>3 DEF OpenOK
    <3>5. Done(i)' = Done(i) BY <2>1 DEF Done
    <3> QED BY <2>1, <3>3, <3>4, <3>5 DEF Faithful, AsLoaded
  <2> QED BY <2>3, <2>4
<1>2. CASE FindCategories(i) BY <1>2, <1>0 DEF FindCategories, Goes, PcOK
<1>3. CASE SaveCategories(i)
  <2>1. feed'[i] = feed[i] BY <1>3 DEF SaveCategories
  <2>2. CategoriesIn(View(i)', feed[i]) BY <1>3, CategoriesSaved
  <2>3. Faithful(i)' BY <1>3, OpenAtFirst
  <2> QED BY <2>1, <2>2, <2>3
<1>4. CASE (\E F : SaveNextEntry(i, F)) \/ EntryFails(i) \/ Archive(i)
  <2>1. UNCHANGED <<db, feed>> /\ pc[i] \in {"entry", "archive"}
    BY <1>4 DEF SaveNextEntry, EntryFails, Archive
  <2>2. Kept(View(i)', View(i))
    <3>1. Kept(Over(mine'[i], db), View(i)) BY <1>4, ViewKept
    <3>2. View(i)' = Over(mine'[i], db) BY <2>1 DEF View
    <3> QED BY <3>1, <3>2
  <2>3. CategoriesIn(View(i)', feed'[i])
    <3>1. CategoriesIn(View(i), feed[i]) BY <2>1 DEF OpenOK, InTransaction
    <3>2. DOMAIN View(i) \subseteq DOMAIN View(i)' BY <2>2 DEF Kept
    <3> QED BY <2>1, <3>1, <3>2 DEF CategoriesIn, CategoriesOf
  <2>4. ASSUME met'[i] = {}, ~ListsTwice(feed'[i]), Single(View(i)') PROVE Faithful(i)'
    <3>1. Single(View(i)) BY <2>2, <2>4, KeptSingle
    <3>2. Faithful(i) /\ ~ListsTwice(feed[i]) BY <1>0, <2>1, <2>4, <3>1 DEF OpenOK, InTransaction
    <3> QED BY <1>4, <3>1, <3>2, FaithfulFails, FaithfulSaves, FaithfulArchives
  <2> QED BY <2>3, <2>4
<1> QED BY <1>1, <1>2, <1>3, <1>4, ImportMoves

(***************************************************************************)
(* The import that was committed last                                      *)
(***************************************************************************)
Mirrored(i) ==
    /\ \A k \in DOMAIN feed[i] : MirroredIn(db, feed[i][k], errors[i], restocked)
    /\ NoStray(db, feed[i])

LastOK ==
    last # NoRow =>
        /\ CategoriesIn(db, feed[last])
        /\ met[last] = {} /\ ~ListsTwice(feed[last]) /\ Single(db) => Mirrored(last)

\* What a stock list writes leaves the rows of the other variants alone.
LEMMA StockWritesOne ==
    ASSUME CatalogInv, FreshOK, RowOK, RowExtOK, NEW s \in Stocks, StockWrites(s)
    PROVE  /\ \A k \in DOMAIN db : k \in DOMAIN db'
           /\ \A p : Product(p) \in DOMAIN db' => Product(p) \in DOMAIN db /\ db'[Product(p)] = db[Product(p)]
           /\ \A n : Variant(n) \in DOMAIN db => db'[Variant(n)] = db[Variant(n)]
           /\ \A k : Balance(k) \in DOMAIN db /\ db[Variant(db[Balance(k)].of)].ext # Item(s).ext
                => db'[Balance(k)] = db[Balance(k)]
<1> USE DEF CatalogInv
<1>1. CASE /\ pc[s] = "insert"
           /\ db' = Over([k \in {Balance(<<s, at[s], 0>>)} |-> [of |-> row[s], qty |-> Item(s).qty]], db)
  <2> DEFINE b == <<s, at[s], 0>>
  <2>1. b[1] = s /\ b[2] = at[s] OBVIOUS
  <2>2. at[s] \in Nat /\ AtItem(s) BY <1>1 DEF AtOK, Requests, AtItem
  <2> HIDE DEF b
  <2>3. Balance(b) \notin DOMAIN db BY <2>1, <2>2 DEF FreshOK, InDb
  <2>4. DOMAIN db' = DOMAIN db \cup {Balance(b)} /\ \A k \in DOMAIN db : k # Balance(b) => db'[k] = db[k]
    BY <1>1 DEF Over, b
  <2>5. \A n : Variant(n) # Balance(b) /\ Product(n) # Balance(b) BY DEF Variant, Balance, Product
  <2> QED BY <2>3, <2>4, <2>5
<1>2. CASE pc[s] = "update" /\ db' = [db EXCEPT ![Balance(row[s])].qty = Item(s).qty]
  <2>1. db[Variant(db[Balance(row[s])].of)].ext = Item(s).ext BY <1>2 DEF RowExtOK
  <2>2. DOMAIN db' = DOMAIN db /\ \A k \in DOMAIN db : k # Balance(row[s]) => db'[k] = db[k] BY <1>2
  <2>3. \A n : Variant(n) # Balance(row[s]) /\ Product(n) # Balance(row[s]) BY DEF Variant, Balance, Product
  <2> QED BY <2>1, <2>2, <2>3
<1> QED BY <1>1, <1>2 DEF StockWrites

\* The import that was committed last is out of its transaction.
LEMMA LastRests ==
    ASSUME CatalogInv, MetOK, HistOK, WroteOK, [Next]_vars, last # NoRow
    PROVE  /\ last \in Imports /\ feed'[last] = feed[last] /\ errors'[last] = errors[last]
           /\ met[last] \subseteq met'[last]
<1> USE DEF CatalogInv
<1>1. last \in Imports /\ last \in committed /\ last \in Requests BY DEF HistOK, Requests
<1>2. ~InTransaction(last) /\ pc[last] # "idle" BY <1>1 DEF JobsOK, Told, InTransaction
<1> QED BY <1>1, <1>2, FeedKept, ErrorsKept, MetStep

LEMMA LastStep ==
    ASSUME CatalogInv, MetOK, HistOK, WroteOK, FreshOK, KeptOK, RowExtOK, EmptyOK, OpenOK, LastOK, [Next]_vars
    PROVE  LastOK'
<1> USE DEF CatalogInv
<1>1. DOMAIN db \subseteq DOMAIN db' /\ Kept(db', db) BY NothingDeleted, DbMoves
\* The last import is the same, and what it mirrored is.
<1>2. ASSUME last' = last, last # NoRow,
             met[last] = {} /\ ~ListsTwice(feed[last]) /\ Single(db) /\ Mirrored(last) /\ Single(db')
               => Mirrored(last)'
      PROVE  LastOK'
  <2>1. last \in Imports /\ feed'[last] = feed[last] /\ met[last] \subseteq met'[last] BY <1>2, LastRests
  <2>2. CategoriesIn(db', feed'[last]) BY <1>1, <1>2, <2>1 DEF LastOK, CategoriesIn, CategoriesOf
  <2>3. ASSUME met'[last] = {}, ~ListsTwice(feed'[last]), Single(db') PROVE Mirrored(last)'
    <3>1. Single(db) BY <1>1, <2>3, KeptSingle
    <3> QED BY <1>2, <2>1, <2>3, <3>1 DEF LastOK
  <2> QED BY <1>2, <2>2, <2>3 DEF LastOK
<1>3. ASSUME last' = last, restocked' = restocked, DOMAIN db' = DOMAIN db, \A k \in DOMAIN db : db'[k] = db[k]
      PROVE  LastOK'
  <2>1. CASE last = NoRow BY <1>3, <2>1 DEF LastOK
  <2>2. CASE last # NoRow
    <3>1. last \in Imports /\ feed'[last] = feed[last] /\ errors'[last] = errors[last] BY <2>2, LastRests
    <3>2. ASSUME Mirrored(last)
          PROVE  /\ \A k \in DOMAIN feed'[last] : MirroredIn(db', feed'[last][k], errors'[last], restocked')
                 /\ NoStray(db', feed'[last])
      <4>1. ASSUME NEW k \in DOMAIN feed[last] PROVE MirroredIn(db', feed[last][k], errors[last], restocked)
        <5>1. MirroredIn(db, feed[last][k], errors[last], restocked) BY <3>2 DEF Mirrored
        <5> QED BY <1>3, <5>1, MirroredStays
      <4>2. NoStray(db', feed[last]) BY <1>3, <3>2 DEF Mirrored, NoStray
      <4> QED BY <1>3, <3>1, <4>1, <4>2
    <3> QED BY <1>2, <1>3, <2>2, <3>2 DEF Mirrored
  <2> QED BY <2>1, <2>2
<1>4. CASE TablesRest BY <1>3, <1>4 DEF TablesRest
<1>5. ASSUME NEW j \in Imports, Ends(j) PROVE LastOK'
  <2>1. /\ pc[j] = "commit" /\ db' = View(j) /\ UNCHANGED <<errors, met>>
        /\ IF feed[j] = <<>> THEN last' = last /\ restocked' = restocked ELSE last' = j /\ restocked' = {}
    BY <1>5 DEF Ends, Committed
  <2>2. CASE feed[j] = <<>>
    <3>1. DOMAIN mine[j] = {} BY <2>2 DEF EmptyOK
    <3>2. DOMAIN db' = DOMAIN db /\ \A k \in DOMAIN db : db'[k] = db[k] BY <2>1, <3>1 DEF View, Over
    <3> QED BY <1>3, <2>1, <2>2, <3>2
  <2>3. CASE feed[j] # <<>>
    <3>1. feed'[j] = feed[j] /\ last' = j /\ restocked' = {} BY <2>1, <2>3, FeedKept DEF Requests
    <3>2. CategoriesIn(View(j), feed[j])
          /\ (met[j] = {} /\ ~ListsTwice(feed[j]) /\ Single(View(j)) => Faithful(j))
      BY <2>1 DEF OpenOK, InTransaction
    <3>3. ASSUME Faithful(j)
          PROVE  /\ \A k \in DOMAIN feed[j] : MirroredIn(View(j), feed[j][k], errors[j], {})
                 /\ NoStray(View(j), feed[j])
      BY <2>1, <2>3, <3>3 DEF Faithful, Done
    <3> QED BY <2>1, <3>1, <3>2, <3>3 DEF LastOK, Mirrored
  <2> QED BY <2>2, <2>3
<1>6. ASSUME NEW s \in Stocks, StockWrites(s) PROVE LastOK'
  <2>1. last' = last /\ restocked' = restocked \cup {Item(s).ext} BY <1>6 DEF StockWrites
  <2>2. /\ \A p : Product(p) \in DOMAIN db' => Product(p) \in DOMAIN db /\ db'[Product(p)] = db[Product(p)]
        /\ \A n : Variant(n) \in DOMAIN db => db'[Variant(n)] = db[Variant(n)]
        /\ \A k : Balance(k) \in DOMAIN db /\ db[Variant(db[Balance(k)].of)].ext # Item(s).ext
             => db'[Balance(k)] = db[Balance(k)]
    BY <1>6, StockWritesOne
  <2>3. CASE last = NoRow BY <2>1, <2>3 DEF LastOK
  <2>4. CASE last # NoRow
    <3>1. last \in Imports /\ feed'[last] = feed[last] /\ errors'[last] = errors[last] BY <2>4, LastRests
    <3>2. ASSUME Mirrored(last)
          PROVE  /\ \A k \in DOMAIN feed'[last] : MirroredIn(db', feed'[last][k], errors'[last], restocked')
                 /\ NoStray(db', feed'[last])
      <4>1. ASSUME NEW k \in DOMAIN feed[last] PROVE MirroredIn(db', feed[last][k], errors[last], restocked')
        <5> DEFINE e == feed[last][k]
        <5>1. MirroredIn(db, e, errors[last], restocked) BY <3>2 DEF Mirrored
        <5> HIDE DEF e
        <5>2. Product(e.product) \in DOMAIN db
                => Product(e.product) \in DOMAIN db' /\ db'[Product(e.product)] = db[Product(e.product)]
          BY <1>1, <2>2
        <5>3. ASSUME NEW x \in DOMAIN e.variants, NEW n, Variant(n) \in DOMAIN db,
                     db[Variant(n)].ext = e.variants[x].ext
              PROVE  /\ Variant(n) \in DOMAIN db' /\ db'[Variant(n)] = db[Variant(n)]
                     /\ \/ e.variants[x].ext \in restocked'
                        \/ \A b : Balance(b) \in DOMAIN db /\ db[Balance(b)].of = n
                             => Balance(b) \in DOMAIN db' /\ db'[Balance(b)] = db[Balance(b)]
          BY <1>1, <2>1, <2>2, <5>3
        <5>4. MirroredIn(db', e, errors[last], restocked') BY <2>1, <5>1, <5>2, <5>3, MirroredStays
        <5> QED BY <5>4 DEF e
      <4>2. NoStray(db', feed[last]) BY <2>2, <3>2 DEF Mirrored, NoStray
      <4> QED BY <3>1, <4>1, <4>2
    <3> QED BY <1>2, <2>1, <2>4, <3>2 DEF Mirrored
  <2> QED BY <2>3, <2>4
<1> QED BY <1>4, <1>5, <1>6, DbStep

(***************************************************************************)
(* A feed that is sent again                                               *)
(***************************************************************************)
\* An import that sends the last feed again has written nothing that was not there.
Quiet(i) ==
    i \notin wrote /\ \A k \in DOMAIN mine[i] : k \in DOMAIN db /\ mine[i][k] = db[k]
QuietOK == \A i \in Imports : InTransaction(i) /\ Resends(i) => Quiet(i)

\* What is quiet sees the table, and the last import mirrors what it brings.
LEMMA QuietSees ==
    ASSUME CatalogInv, LastOK, NEW i \in Imports, Resends(i), Quiet(i)
    PROVE  /\ DOMAIN View(i) = DOMAIN db /\ \A k \in DOMAIN db : View(i)[k] = db[k]
           /\ Single(View(i)) /\ NoStray(View(i), feed[i]) /\ CategoriesIn(db, feed[i])
           /\ \A k \in DOMAIN feed[i] : MirroredIn(View(i), feed[i][k], {}, {})
<1> USE DEF CatalogInv
<1> DEFINE v == View(i)
<1>1. DOMAIN v = DOMAIN db /\ \A k \in DOMAIN db : v[k] = db[k] BY DEF Quiet, View, Over
<1>2. Single(db) /\ last # NoRow /\ met[last] = {} /\ feed[i] = feed[last] /\ ~ListsTwice(feed[last])
      /\ errors[last] = {} /\ restocked = {}
  BY SinglesAre DEF Resends, Doubles, TablesOK
<1>3. Mirrored(last) /\ CategoriesIn(db, feed[last]) BY <1>2 DEF LastOK
<1> HIDE DEF v
<1>4. Single(v) BY <1>1, <1>2 DEF Single
<1>5. NoStray(v, feed[i]) BY <1>1, <1>2, <1>3 DEF Mirrored, NoStray
<1>6. ASSUME NEW k \in DOMAIN feed[i] PROVE MirroredIn(v, feed[i][k], {}, {})
  <2>1. MirroredIn(db, feed[i][k], {}, {}) BY <1>2, <1>3 DEF Mirrored
  <2> QED BY <1>1, <2>1, MirroredStays
<1> QED BY <1>1, <1>2, <1>3, <1>4, <1>5, <1>6 DEF v

LEMMA QuietSaves ==
    ASSUME CatalogInv, WroteOK, FreshOK, KeptOK, LastOK, NEW i \in Imports, NEW F, SaveNextEntry(i, F),
           Resends(i), Quiet(i)
    PROVE  Quiet(i)'
<1> USE DEF CatalogInv
<1>1. PICK o \in Outcomes(i, F) :
        /\ mine' = [mine EXCEPT ![i] = Over(o.rows, mine[i])]
        /\ wrote' = IF /\ ~ReplacesMedia(Entry(i))
                      /\ \A k \in DOMAIN o.rows : k \in DOMAIN View(i) /\ View(i)[k] = o.rows[k]
                    THEN wrote ELSE wrote \cup {i}
  BY DEF SaveNextEntry, MineOK
<1>2. pc[i] = "entry" /\ UNCHANGED db BY DEF SaveNextEntry
<1> DEFINE base == View(i)
           e == Entry(i)
           new == NewRows(i)
           found == loaded[i][e.product]
<1>3. PICK to, saved, of, in : Made(base, e, new, found, F, to, saved, of, in, o) BY OutcomeMade
<1>4. e \in EntryType /\ (found # NoRow => Product(e.product) \in DOMAIN base) /\ at[i] \in DOMAIN feed[i]
  BY <1>2, EntryFound
<1>5. HasShape(base) /\ Distinct(base) BY DEF TablesOK
<1>6. DOMAIN new = DOMAIN e.variants BY DEF NewRows
<1>7. \A x \in DOMAIN e.variants : Variant(new[x]) \notin DOMAIN base /\ Balance(new[x]) \notin DOMAIN base
  BY <1>2, NewRowsAreNew
<1>8. /\ DOMAIN base = DOMAIN db /\ \A k \in DOMAIN db : base[k] = db[k]
      /\ Single(base) /\ MirroredIn(base, e, {}, {})
  BY <1>4, QuietSees DEF Entry
<1>9. mine'[i] = Over(o.rows, mine[i]) BY <1>1 DEF MineOK
<1> HIDE DEF base, e, new, found
<1>10. Kept(Over(o.rows, base), base) BY <1>3, <1>4, <1>5, <1>6, <1>7, MadeKeeps
<1>11. \A k \in DOMAIN o.rows : k \in DOMAIN base /\ base[k] = o.rows[k]
  <2>1. Single(base) /\ MirroredIn(base, e, {}, {}) /\ e \in EntryType BY <1>4, <1>8
  <2>2. AllThere(o.rows, base) BY <1>3, <1>5, <1>6, <1>10, <2>1, QuietEntry
  <2> QED BY <2>2 DEF AllThere
<1>12. wrote' = wrote
  <2>1. ~ReplacesMedia(Entry(i)) BY <1>4 DEF Resends, Entry
  <2> QED BY <1>1, <1>11, <2>1 DEF base
<1>13. /\ DOMAIN mine'[i] = DOMAIN o.rows \cup DOMAIN mine[i]
       /\ \A k \in DOMAIN mine'[i] : mine'[i][k] = IF k \in DOMAIN o.rows THEN o.rows[k] ELSE mine[i][k]
  BY <1>9 DEF Over
<1>14. \A k \in DOMAIN mine'[i] : k \in DOMAIN db /\ mine'[i][k] = db[k] BY <1>8, <1>11, <1>13 DEF Quiet
<1> QED BY <1>2, <1>12, <1>14 DEF Quiet

LEMMA QuietStep ==
    ASSUME CatalogInv, MetOK, HistOK, WroteOK, FreshOK, KeptOK, KnownOK, LastOK, QuietOK, [Next]_vars
    PROVE  QuietOK'
<1> USE DEF CatalogInv
<1> SUFFICES ASSUME NEW i \in Imports, InTransaction(i)', Resends(i)' PROVE Quiet(i)' BY DEF QuietOK
<1>0. i \in Requests /\ met[i] = {}
  <2>1. i \in Requests BY DEF Requests
  <2> QED BY <2>1, MetStep DEF Resends
<1>1. ASSUME InTransaction(i), feed'[i] = feed[i] PROVE db' = db /\ Resends(i) /\ Quiet(i)
  <2>1. ~Ends(i) BY <1>0 DEF Ends, Goes, PcOK, InTransaction
  <2>2. TablesRest BY <1>0, <1>1, <2>1, Undisturbed DEF AtWork, InTransaction
  <2>3. last # NoRow BY <2>2 DEF TablesRest, Resends
  <2>4. feed'[last] = feed[last] /\ errors'[last] = errors[last] /\ met[last] \subseteq met'[last]
    BY <2>3, LastRests
  <2>5. Resends(i) BY <1>0, <1>1, <2>2, <2>4 DEF Resends, TablesRest, Doubles
  <2> QED BY <1>1, <2>2, <2>5 DEF QuietOK, TablesRest
<1>2. CASE ImportStays(i)
  <2>1. InTransaction(i) /\ feed'[i] = feed[i] BY <1>2 DEF ImportStays, InTransaction
  <2>2. mine'[i] = mine[i] /\ (i \in wrote' <=> i \in wrote) BY <1>2 DEF ImportStays
  <2> QED BY <1>1, <2>1, <2>2 DEF Quiet
<1>3. CASE FindCategories(i)
  <2>1. mine[i] = <<>> /\ mine' = mine /\ i \notin wrote /\ wrote' = wrote
    BY <1>3 DEF FindCategories, MineOK, WroteOK, InTransaction
  <2> QED BY <2>1, NoRows DEF Quiet
<1>4. CASE SaveCategories(i)
  <2>1. pc[i] = "categories" /\ feed' = feed BY <1>4 DEF SaveCategories
  <2>2. db' = db /\ Resends(i) /\ Quiet(i) BY <1>1, <2>1 DEF InTransaction
  <2>3. known[i] = CategoriesOf(db) BY <1>0, <2>1 DEF KnownOK
  <2>4. LowerOf(NamesIn(feed[i])) \subseteq known[i] BY <2>2, <2>3, QuietSees DEF CategoriesIn
  <2>5. NewNames(i) = {} BY <2>4 DEF NewNames, LowerOf
  <2>6. mine'[i] = [k \in {Category(l) : l \in LowerOf(NewNames(i))} |-> TRUE] /\ wrote' = wrote
    BY <1>4, <2>5 DEF SaveCategories, MineOK
  <2>7. DOMAIN mine'[i] = {} BY <2>5, <2>6 DEF LowerOf
  <2> QED BY <2>2, <2>6, <2>7 DEF Quiet
<1>5. CASE \E F : SaveNextEntry(i, F)
  <2>1. pc[i] = "entry" /\ feed' = feed BY <1>5 DEF SaveNextEntry
  <2>2. Resends(i) /\ Quiet(i) BY <1>1, <2>1 DEF InTransaction
  <2> QED BY <1>5, <2>2, QuietSaves
<1>6. CASE EntryFails(i)
  <2>1. pc[i] = "entry" /\ UNCHANGED <<feed, mine, wrote>> BY <1>6 DEF EntryFails
  <2>2. db' = db /\ Quiet(i) BY <1>1, <2>1 DEF InTransaction
  <2> QED BY <2>1, <2>2 DEF Quiet
<1>7. CASE Archive(i)
  <2>1. pc[i] = "archive" /\ feed' = feed BY <1>7 DEF Archive
  <2>2. db' = db /\ Resends(i) /\ Quiet(i) BY <1>1, <2>1 DEF InTransaction
  <2>3. NoStray(View(i), feed[i]) BY <2>2, QuietSees
  <2>4. ToArchive(i) = {} BY <2>3 DEF ToArchive, NoStray
  <2> DEFINE rows == [k \in {Product(p) : p \in ToArchive(i)} |-> [View(i)[k] EXCEPT !.status = "archived"]]
  <2>5. mine'[i] = Over(rows, mine[i]) /\ wrote' = wrote BY <1>7, <2>4 DEF Archive, MineOK
  <2>6. DOMAIN rows = {} BY <2>4
  <2> HIDE DEF rows
  <2>7. DOMAIN mine'[i] = DOMAIN mine[i] /\ \A k \in DOMAIN mine[i] : mine'[i][k] = mine[i][k]
    BY <2>5, <2>6 DEF Over
  <2> QED BY <2>2, <2>5, <2>7 DEF Quiet
<1> QED BY <1>2, <1>3, <1>4, <1>5, <1>6, <1>7, ImportMoves

(***************************************************************************)
(* What the last import left                                               *)
(***************************************************************************)
MirrorInv ==
    /\ CatalogInv /\ MetOK /\ HistOK /\ WroteOK /\ FreshOK /\ KeptOK
    /\ RowExtOK /\ EmptyOK /\ KnownOK /\ OpenOK /\ LastOK /\ QuietOK

LEMMA MirrorInvariant == Spec => []MirrorInv
<1>1. Init => MirrorInv
  <2> SUFFICES ASSUME Init PROVE MirrorInv OBVIOUS
  <2>1. CatalogInv BY CatalogInvInit
  <2>2. \A i \in Imports : mine[i] = <<>> /\ pc[i] = "idle" /\ feed[i] = <<>> BY DEF Init, Requests
  <2>3. \A s \in Stocks : pc[s] = "idle" BY DEF Init, Requests
  <2>4. MetOK BY DEF Init, MetOK, AtWork
  <2>5. HistOK /\ LastOK BY DEF Init, HistOK, LastOK
  <2>6. WroteOK BY <2>2 DEF Init, WroteOK
  <2>7. EmptyOK BY <2>2, NoRows DEF EmptyOK
  <2>8. KeptOK BY <2>2, NoRows DEF KeptOK, Kept, View, Over
  <2>9. RowExtOK /\ KnownOK /\ OpenOK /\ QuietOK
    BY <2>2, <2>3 DEF RowExtOK, KnownOK, OpenOK, QuietOK, InTransaction
  <2>10. FreshOK
    <3>1. \A n : InDb(n) => n \in IdsOf(db, "variant") \cup IdsOf(db, "balance") BY KeyOf DEF InDb
    <3>2. \A n : InDb(n) => n[1] \notin Requests BY <3>1, ShopsAssumption DEF Init
    <3>3. \A n, i : i \in Imports => ~NewIn(n, i) BY <2>2, NoRows DEF NewIn
    <3> QED BY <3>2, <3>3 DEF FreshOK, Requests
  <2> QED BY <2>1, <2>4, <2>5, <2>6, <2>7, <2>8, <2>9, <2>10 DEF MirrorInv
<1>2. MirrorInv /\ [Next]_vars => MirrorInv'
  <2> SUFFICES ASSUME MirrorInv, [Next]_vars PROVE MirrorInv' OBVIOUS
  <2> USE DEF MirrorInv
  <2>1. CatalogInv' BY CatalogInvStep
  <2>2. MetOK' /\ HistOK' BY MetStep, HistStep DEF CatalogInv
  <2>3. WroteOK' BY WroteStep DEF CatalogInv
  <2>4. FreshOK' /\ KeptOK' BY FreshStep, KeptStep
  <2>5. RowExtOK' /\ EmptyOK' /\ KnownOK' BY RowExtStep, EmptyStep, KnownStep
  <2>6. OpenOK' BY OpenStep
  <2>7. LastOK' BY LastStep
  <2>8. QuietOK' BY QuietStep
  <2> QED BY <2>1, <2>2, <2>3, <2>4, <2>5, <2>6, <2>7, <2>8
<1> QED BY <1>1, <1>2, PTL DEF Spec

\* After an import that met no other request, of a feed that lists everything once, the
\* tables say what the feed says, but for what was reported as failed and the stock that
\* was set since, and nothing is on sale that the feed leaves out.
THEOREM TablesMirrorFeed == Spec => []CatalogMirrorsFeed
<1>1. MirrorInv => CatalogMirrorsFeed
  <2> SUFFICES ASSUME MirrorInv, last # NoRow, met[last] = {}, ~ListsTwice(feed[last]), ~Doubles
               PROVE  /\ \A k \in DOMAIN feed[last] : Mirrors(feed[last][k], errors[last])
                      /\ \A p \in Products : Product(p) \in DOMAIN db /\ db[Product(p)].status = "active"
                                             => p \in Listed(feed[last])
    BY DEF CatalogMirrorsFeed
  <2>1. HasShape(db) BY DEF MirrorInv, CatalogInv, TablesOK
  <2>2. Single(db) BY <2>1, SinglesAre DEF Doubles
  <2>3. Mirrored(last) BY <2>2 DEF MirrorInv, LastOK
  <2> QED BY <2>1, <2>3, MirrorsAre DEF Mirrored, NoStray
<1> QED BY <1>1, MirrorInvariant, PTL

\* A feed that is sent again, after an import of it that failed at nothing, changes no row.
THEOREM ResentFeedIsQuiet == Spec => []ResendIsQuiet
<1>1. MirrorInv => ResendIsQuiet BY DEF MirrorInv, QuietOK, Quiet, ResendIsQuiet, InTransaction
<1> QED BY <1>1, MirrorInvariant, PTL

=============================================================================
