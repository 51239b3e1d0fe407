------------------------------ MODULE ProductSearch ------------------------------
(***************************************************************************)
(* What the shopping preview finds, compares and concludes.  Two engines   *)
(* answer a search or a comparison: the Python backend                     *)
(* (modules/ecommerce/catalog.py, blocks.py, api/internal_ecommerce.py)    *)
(* and, where it fails, the catalogue in the browser                       *)
(* (web/lib/ecommerce/local-decision-engine.ts).  From two of the cards    *)
(* the third workbench then draws its verdicts                             *)
(* (web/lib/ecommerce/workbench-v3-view-model.ts), reading the numbers     *)
(* back from the specs the engine wrote for people.                        *)
(*                                                                         *)
(* A query is the set of its words and the set of the wishes the browser   *)
(* reads out of them.  A product's text is the set of words in it.         *)
(*                                                                         *)
(* A definition marked [variant] is a faulty form of the one after it.     *)
(* Nothing uses it: it is there to show that a property notices the fault. *)
(***************************************************************************)
EXTENDS Integers, Sequences, FiniteSets, Selections

CONSTANTS
  Catalog,       \* load_products(), in the order of the file: one record a product
  QueryWords,    \* the words a query may have
  FilterBrands, FilterCategories, FilterRams, FilterYears,  \* what may be filtered by
  FilterBands,   \* the bands of price: the lowest and the highest
  SearchLimits,  \* the limits of a search
  UnknownIds,    \* ids no product has
  CompareColumns,\* SPEC_COMPARE_MAX_PRODUCTS
  MaxCompared    \* bounds the ids of a comparison

None == "none"   \* no filter
NoValue == -1    \* a spec a product does not have
HighestPrice == 99999
ProductIds == DOMAIN Catalog
Wishes == {"value", "power", "travel", "camera", "screen"}
Engines == {"python", "local"}

\* As the file has them: whole numbers, names in some order, prices that no filter leaves
\* out, and a weight for every product (products.json has one in all its entries), so that
\* the cases of the code for a card without a weight are not reached.
ASSUME CatalogAssumption ==
  /\ IsFiniteSet(ProductIds) /\ ProductIds = 1..Cardinality(ProductIds)
  /\ \A i \in ProductIds :
       /\ Catalog[i].price \in 0..HighestPrice /\ Catalog[i].year \in Nat /\ Catalog[i].name \in Int
       /\ Catalog[i].weight \in Nat /\ Catalog[i].battery \in Nat \cup {NoValue}
       /\ Catalog[i].ram \in (Nat \ {0}) \cup {NoValue} /\ Catalog[i].storage \in (Nat \ {0}) \cup {NoValue}
       /\ Catalog[i].words \subseteq QueryWords
  /\ IsFiniteSet(QueryWords) /\ UnknownIds \cap ProductIds = {}
  /\ SearchLimits \subseteq Nat /\ CompareColumns \in Nat \ {0} /\ MaxCompared \in Nat

VARIABLES
  engine,   \* which of the two answers
  asked,    \* the search or the comparison
  reply,    \* its answer, at first <<>>
  verdicts  \* what the workbench says of two of the cards, at first <<>>

shoppingVars == <<engine, asked, reply, verdicts>>

-----------------------------------------------------------------------------
(* Searching *)

HasSpec(i, field) == Catalog[i][field] # NoValue

\* A product without a memory fails every filter by memory.
_passes_filters(i, f) ==
  /\ f.brand # None => Catalog[i].brand = f.brand
  /\ f.category # None => Catalog[i].category = f.category
  /\ Catalog[i].price \in f.band[1]..f.band[2]
  /\ f.minRam # NoValue => HasSpec(i, "ram") /\ Catalog[i].ram >= f.minRam
  /\ Catalog[i].year >= f.minYear

\* The browser does not filter by memory and year.
PassesInBrowser(i, f) ==
  /\ f.category # None => Catalog[i].category = f.category
  /\ f.brand # None => Catalog[i].brand = f.brand
  /\ Catalog[i].price \in f.band[1]..f.band[2]

_keyword_match_score(i, q) == Cardinality(Catalog[i].words \cap q.words)

Plus(n) == IF n > 0 THEN n ELSE 0
Amount(i, field) == IF HasSpec(i, field) THEN Catalog[i][field] ELSE 0

\* In units of 1/3000.  The brackets of the code: 4 - price/500, ram/8, 3 - weight/1000, battery/30.
scoreProduct(i, q) ==
  9000 * Cardinality(Catalog[i].words \cap q.words)
  + (IF "value" \in q.wishes THEN Plus(12000 - 6 * Catalog[i].price) ELSE 0)
  + (IF "power" \in q.wishes THEN 375 * Amount(i, "ram") + (IF Catalog[i].rtx THEN 9000 ELSE 0) ELSE 0)
  + (IF "travel" \in q.wishes THEN Plus(9000 - 3 * Catalog[i].weight) + 100 * Amount(i, "battery") ELSE 0)
  + (IF "camera" \in q.wishes /\ Catalog[i].category = "phone" THEN 12000 ELSE 0)
  + (IF "screen" \in q.wishes /\ Catalog[i].screen THEN 9000 ELSE 0)

Cut(seq, limit) == SubSeq(seq, 1, IF Len(seq) < limit THEN Len(seq) ELSE limit)

\* With words, only what has one of them; the sort is stable.
search_products(q, f) ==
  LET fit == {i \in ProductIds : _passes_filters(i, f) /\ (q.words # {} => _keyword_match_score(i, q) > 0)}
      key == [i \in fit |-> <<IF q.words = {} THEN 0 ELSE -_keyword_match_score(i, q), -Catalog[i].year, Catalog[i].price, Catalog[i].name, i>>]
  IN Ordered(fit, key)

\* The total of the backend is what it sends, ...
internal_ecommerce_search(q, f, limit) ==
  LET shown == Cut(search_products(q, f), limit) IN [cards |-> shown, total |-> Len(shown)]

\* ... that of the browser what it found; and what has none of the words comes last.
localSearch(q, f, limit) ==
  LET fit == {i \in ProductIds : PassesInBrowser(i, f)}
      ranked == Ordered(fit, [i \in fit |-> <<-scoreProduct(i, q), Catalog[i].price, i>>])
  IN [cards |-> Cut(ranked, limit), total |-> Len(ranked)]

-----------------------------------------------------------------------------
(* The specs of a card *)

Rounded(n, d) == (2 * n + d) \div (2 * d)

\* A spec as it is written: a number, in hundredths, and its unit.
NoSpec == [number |-> 0, unit |-> "-"]
Written(number, unit) == [number |-> number, unit |-> unit]

_format_weight(grams) == IF grams >= 1000 THEN Written(Rounded(grams, 10), "kg") ELSE Written(100 * grams, "g")

\* A whole number of TB, or one decimal.
_format_storage(gb) ==
  CASE gb = NoValue -> NoSpec
    [] gb >= 1024 -> Written(10 * Rounded(10 * gb, 1024), "TB")
    [] OTHER -> Written(100 * gb, "GB")

_format_ram(gb) == IF gb = NoValue THEN NoSpec ELSE Written(100 * gb, "GB")
_format_battery(wh) == IF wh <= 0 THEN NoSpec ELSE Written(100 * wh, "Wh")

\* A card of the backend: the specs it has, as they are written.
product_to_card_block(i) ==
  [id |-> i, price |-> Catalog[i].price,
   memory |-> _format_ram(Catalog[i].ram), storage |-> _format_storage(Catalog[i].storage),
   battery |-> _format_battery(Catalog[i].battery), weight |-> _format_weight(Catalog[i].weight)]

\* A card of the browser: always GB and g.
toBlock(i) ==
  LET spec(field, unit) == IF Amount(i, field) = 0 THEN NoSpec ELSE Written(100 * Catalog[i][field], unit)
  IN [id |-> i, price |-> Catalog[i].price,
      memory |-> spec("ram", "GB"), storage |-> spec("storage", "GB"),
      battery |-> spec("battery", "Wh"), weight |-> Written(100 * Catalog[i].weight, "g")]

-----------------------------------------------------------------------------
(* Comparing *)

\* The rows of a comparison that a product may have nothing for, or that differ in how they are written.
SpecFields == {"memory", "storage", "battery", "weight"}
Cells(columns, card(_)) == [f \in SpecFields |-> [n \in DOMAIN columns |-> card(columns[n])[f]]]
WithData(cells) == {f \in SpecFields : \E n \in DOMAIN cells[f] : cells[f][n] # NoSpec}

\* A row none of the products has anything for is dropped ...
build_spec_compare_block(columns) ==
  LET cells == Cells(columns, product_to_card_block)
  IN [f \in WithData(cells) |-> [values |-> cells[f], has_data |-> TRUE]]

\* ... or, in the browser, marked.
COMPARE_ROWS(columns) ==
  LET cells == Cells(columns, toBlock)
  IN [f \in SpecFields |-> [values |-> cells[f], has_data |-> f \in WithData(cells)]]

\* [variant] Cut first, as the browser does, but counting what is left.
CompareCutFirst(ids) ==
  LET resolved == SelectIn(Cut(ids, CompareColumns), ProductIds)
  IN [columns |-> resolved,
      missing |-> SelectIn(ids, UnknownIds),
      truncated |-> Len(resolved) > CompareColumns,
      rows |-> build_spec_compare_block(resolved)]

\* The backend leaves out the unknown before it cuts; what it cuts is not missing.
internal_ecommerce_compare(ids) ==
  LET resolved == SelectIn(ids, ProductIds)
  IN [columns |-> Cut(resolved, CompareColumns),
      missing |-> SelectIn(ids, UnknownIds),
      truncated |-> Len(resolved) > CompareColumns,
      rows |-> build_spec_compare_block(Cut(resolved, CompareColumns))]

\* The browser cuts before it looks, and calls missing what has no column.
localCompare(ids) ==
  LET selected == SelectIn(Cut(ids, CompareColumns), ProductIds)
      shown == {selected[n] : n \in DOMAIN selected}
  IN [columns |-> selected,
      missing |-> SelectIn(ids, (ProductIds \cup UnknownIds) \ shown),
      truncated |-> Len(ids) > CompareColumns,
      rows |-> COMPARE_ROWS(selected)]

-----------------------------------------------------------------------------
(* Concluding *)

Card(i) == IF engine = "python" THEN product_to_card_block(i) ELSE toBlock(i)

\* Of the specs only the storage is read with its unit.
readStorageGb(card) == IF card.storage.unit = "TB" THEN card.storage.number * 1024 ELSE card.storage.number

\* In units of 1/12800.
performanceScore(card) == 1280 * card.memory.number + readStorageGb(card)

Unsettled == 0   \* not a product

\* Which of the two each row speaks for: the primary if there is nothing between them.
buildCompareHighlights(p, a) ==
  [price |-> IF p.price <= a.price THEN p.id ELSE a.id,
   performance |-> IF performanceScore(p) >= performanceScore(a) THEN p.id ELSE a.id,
   battery |-> IF NoSpec \in {p.battery, a.battery} THEN Unsettled
               ELSE IF p.battery.number >= a.battery.number THEN p.id ELSE a.id,
   weight |-> IF p.weight.number <= a.weight.number THEN p.id ELSE a.id]

\* What the advisor of the third workbench names where its backend fails: the best of the
\* whole catalogue for the query, whatever the page is filtered by.
Anything == [brand |-> None, category |-> None, band |-> <<0, HighestPrice>>, minRam |-> NoValue, minYear |-> 0]
localRecommendationText(q) == localSearch(q, Anything, 3).cards

-----------------------------------------------------------------------------

\* The routes before the backend: a limit that is not given, or none, is six.
ForwardedLimit(limit) == IF limit > 0 THEN limit ELSE 6

Queries == [words : SUBSET QueryWords, wishes : {{}} \cup {{w} : w \in Wishes}]
Filters == [brand : FilterBrands \cup {None}, category : FilterCategories \cup {None},
            band : FilterBands, minRam : FilterRams \cup {NoValue}, minYear : FilterYears \cup {0}]

\* The pages pick a product once.
IdLists ==
  {ids \in UNION {[1..n -> ProductIds \cup UnknownIds] : n \in 0..MaxCompared} :
     \A m, n \in DOMAIN ids : m # n => ids[m] # ids[n]}

ShoppingInit == engine \in Engines /\ asked = <<>> /\ reply = <<>> /\ verdicts = <<>>

\* Only the browser reads wishes out of a query; only the backend can be asked for a memory or
\* a year, or be given no limit.
Search ==
  /\ asked = <<>>
  /\ \E q \in Queries, f \in Filters, limit \in SearchLimits \cup {0} :
       /\ IF engine = "python" THEN q.wishes = {} ELSE f.minRam = NoValue /\ f.minYear = 0 /\ limit # 0
       /\ asked' = <<"search", q, f, limit>>
       /\ reply' = <<IF engine = "python" THEN internal_ecommerce_search(q, f, ForwardedLimit(limit))
                     ELSE localSearch(q, f, limit)>>
  /\ UNCHANGED <<engine, verdicts>>

CompareProducts ==
  /\ asked = <<>>
  /\ \E ids \in IdLists :
       /\ asked' = <<"compare", ids>>
       /\ reply' = <<IF engine = "python" THEN internal_ecommerce_compare(ids) ELSE localCompare(ids)>>
  /\ UNCHANGED <<engine, verdicts>>

\* The winner is the first card, the other one of those after it.
Weigh ==
  /\ asked # <<>> /\ asked[1] = "search" /\ verdicts = <<>>
  /\ \E n \in DOMAIN reply[1].cards \ {1} :
       verdicts' = <<reply[1].cards[n], buildCompareHighlights(Card(reply[1].cards[1]), Card(reply[1].cards[n]))>>
  /\ UNCHANGED <<engine, asked, reply>>

ShoppingNext == Search \/ CompareProducts \/ Weigh
ShoppingSpec == ShoppingInit /\ [][ShoppingNext]_shoppingVars

ShoppingTypeOK ==
  /\ engine \in Engines
  /\ asked = <<>> <=> reply = <<>>
  /\ verdicts # <<>> => verdicts[1] \in ProductIds

-----------------------------------------------------------------------------
(* Properties *)

\* What makes one product a better find than another, said without the sort.
Better(i, j, q) ==
  IF engine = "python"
    THEN LET hits(p) == IF q.words = {} THEN 0 ELSE Cardinality(Catalog[p].words \cap q.words)
         IN \/ hits(i) > hits(j)
            \/ hits(i) = hits(j) /\ Catalog[i].year > Catalog[j].year
            \/ hits(i) = hits(j) /\ Catalog[i].year = Catalog[j].year /\ Catalog[i].price < Catalog[j].price
    ELSE \/ scoreProduct(i, q) > scoreProduct(j, q)
         \/ scoreProduct(i, q) = scoreProduct(j, q) /\ Catalog[i].price < Catalog[j].price

\* A search shows as many as it may, each of them once and within the filter, the better
\* before the worse, and leaves out none that is better than one it shows.
ResultsAreBest ==
  asked # <<>> /\ asked[1] = "search" =>
    LET q == asked[2]
        fit == {i \in ProductIds :
                  IF engine = "local" THEN PassesInBrowser(i, asked[3])
                  ELSE _passes_filters(i, asked[3]) /\ (q.words # {} => Catalog[i].words \cap q.words # {})}
        cards == reply[1].cards
        shown == {cards[n] : n \in DOMAIN cards}
        limit == IF asked[4] = 0 /\ engine = "python" THEN 6 ELSE asked[4]
    IN /\ shown \subseteq fit /\ Cardinality(shown) = Len(cards)
       /\ Len(cards) = limit \/ (Len(cards) < limit /\ shown = fit)
       /\ \A m, n \in DOMAIN cards : m < n => ~Better(cards[n], cards[m], q)
       /\ \A i \in fit \ shown, j \in shown : ~Better(i, j, q)
       /\ reply[1].total \in {Len(cards), Cardinality(fit)}

\* No id is lost in a comparison: it has a column, or it is reported missing, or the answer
\* says that it was cut.  The backend reports missing what no product has and nothing else,
\* the browser also what it cut.
EveryIdIsAccounted ==
  asked # <<>> /\ asked[1] = "compare" =>
    LET ids == {asked[2][n] : n \in DOMAIN asked[2]}
        columns == {reply[1].columns[n] : n \in DOMAIN reply[1].columns}
        missing == {reply[1].missing[n] : n \in DOMAIN reply[1].missing}
    IN /\ Len(reply[1].columns) <= CompareColumns
       /\ ids \ (columns \cup missing) # {} => reply[1].truncated
       /\ columns \cap missing = {} /\ UnknownIds \cap ids \subseteq missing
       /\ missing \cap ProductIds # {} => engine = "local" /\ reply[1].truncated

\* The table has a cell for each column, a row for each spec that one of the products has, and
\* nothing in the cell of a product that does not have it.
TableIsWhole ==
  asked # <<>> /\ asked[1] = "compare" =>
    LET columns == reply[1].columns
        rows == reply[1].rows
        has(i) == {"weight"} \cup (IF Amount(i, "ram") > 0 THEN {"memory"} ELSE {})
                  \cup (IF Amount(i, "storage") > 0 THEN {"storage"} ELSE {})
                  \cup (IF Amount(i, "battery") > 0 THEN {"battery"} ELSE {})
    IN /\ \A f \in DOMAIN rows :
            /\ Len(rows[f].values) = Len(columns)
            /\ \A n \in DOMAIN columns : rows[f].values[n] # NoSpec <=> f \in has(columns[n])
            /\ rows[f].has_data <=> \E n \in DOMAIN columns : f \in has(columns[n])
       /\ \A n \in DOMAIN columns : has(columns[n]) \subseteq DOMAIN rows

\* What the advisor names without its backend and the page, without its own, may show, the page
\* shows, at the head of its list and in the same order.
AdviceLeadsTheList ==
  asked # <<>> /\ asked[1] = "search" /\ engine = "local" =>
    LET named == SelectIn(localRecommendationText(asked[2]), {i \in ProductIds : PassesInBrowser(i, asked[3])})
    IN Cut(reply[1].cards, Len(named)) = Cut(named, asked[4])

\* What the board says is true of the products: the one named is not dearer, not weaker both
\* in memory and storage, does not run out sooner, and is not heavier, but for what is lost
\* in rounding to 10 g.  The weights are read without their units, so this needs both in
\* the same: of a phone in g and a laptop in kg the laptop passes for the lighter one.
VerdictsAreTrue ==
  verdicts # <<>> =>
    LET p == reply[1].cards[1]
        a == verdicts[1]
        other(i) == IF i = p THEN a ELSE p
        named == verdicts[2]
    IN /\ Catalog[named.price].price <= Catalog[other(named.price)].price
       /\ LET w == named.performance
          IN ~(Amount(w, "ram") < Amount(other(w), "ram") /\ Amount(w, "storage") < Amount(other(w), "storage"))
       /\ named.battery # Unsettled => Amount(named.battery, "battery") >= Amount(other(named.battery), "battery")
       /\ named.battery = Unsettled => 0 \in {Amount(p, "battery"), Amount(a, "battery")}
       /\ Card(p).weight.unit = Card(a).weight.unit =>
            Catalog[named.weight].weight < Catalog[other(named.weight)].weight + 10

\* The preview can be believed.
ShoppingIsTrue == ResultsAreBest /\ EveryIdIsAccounted /\ TableIsWhole /\ AdviceLeadsTheList /\ VerdictsAreTrue
=============================================================================
