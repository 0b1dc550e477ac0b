---------------------------- MODULE ProductSearch ----------------------------
(***************************************************************************)
(* The product list of the shop page (useProductSearch): what the customer *)
(* wants to see, a timer while the search text is being typed, the request *)
(* issued last and those it has overtaken, and a cache of answers.         *)
(***************************************************************************)
EXTENDS Naturals, FiniteSets

CONSTANTS
  Shops,       \* slugs of stores
  FilterSets,  \* combinations of search text, category, prices, page size
  MaxPages,    \* bound: pages of a list
  MaxLate      \* bound: overtaken requests still without an answer

ASSUME SearchBoundsAssumption == MaxPages \in Nat \ {0} /\ MaxLate \in Nat

VARIABLES
  want,    \* store, filters and page
  asked,   \* what the request issued last asks for
  loading, \* whether it is under way
  late,    \* what the overtaken requests ask for
  typing,  \* whether the timer of the search text runs
  shown,   \* what the list on the screen answers
  pages,   \* its number of pages
  failed,  \* whether an error is shown
  cached,  \* what answers are kept for
  moved    \* history: whether a store was selected elsewhere since the last fetch

searchVars == <<want, asked, loading, late, typing, shown, pages, failed, cached, moved>>

Wanted == [store : Shops, filters : FilterSets, page : 1..MaxPages]
Nothing == [store |-> "none", filters |-> "none", page |-> 0]

SearchTypeOK ==
  /\ want \in Wanted /\ asked \in Wanted
  /\ {loading, typing, failed, moved} \subseteq BOOLEAN
  /\ late \subseteq Wanted /\ cached \subseteq Wanted
  /\ shown \in Wanted \cup {Nothing}
  /\ pages \in 0..MaxPages
  /\ shown.page <= pages

\* The page is mounted, and has asked for the list its address names.
SearchInit ==
  /\ want \in Wanted /\ asked = want
  /\ loading = TRUE /\ typing = FALSE /\ failed = FALSE /\ moved = FALSE
  /\ late = {} /\ cached = {}
  /\ shown = Nothing /\ pages = 0
-----------------------------------------------------------------------------
FirstPage(f) == [store |-> want.store, filters |-> f, page |-> 1]
Show(w) == shown' = w /\ pages' \in w.page..MaxPages

\* fetchProductsInternal up to its await, for `w` and the answers `kept`; one
\* that is too old is as good as none.
Fetch(w, kept) ==
  /\ want' = w /\ asked' = w
  /\ late' = IF loading THEN late \cup {asked} ELSE late
  /\ Cardinality(late') <= MaxLate
  /\ typing' = FALSE /\ failed' = FALSE /\ moved' = FALSE
  /\ \/ w \in kept /\ Show(w) /\ loading' = FALSE /\ cached' = kept
     \/ loading' = TRUE /\ cached' = kept \ {w} /\ UNCHANGED <<shown, pages>>

\* updateFilters with a search text: the timer starts again.
TypeSearch(f) ==
  /\ want' = FirstPage(f)
  /\ typing' = TRUE /\ cached' = {}
  /\ UNCHANGED <<asked, loading, late, shown, pages, failed, moved>>

\* updateFilters without one, clearFilters, resetSearch, another page size.
ChooseFilters(f) == Fetch(FirstPage(f), {})

TimerFires == typing /\ Fetch(want, cached)

\* fetchProducts: the customer tries again, or the route changes to a store.
FetchAgain == Fetch(want, cached)
ChangeStore(s) == Fetch([want EXCEPT !.store = s], cached)

\* goToPage, nextPage, previousPage: the one before may be asked for although
\* the first list of an address did not arrive and the pages are not known.
GoToPage(p) ==
  /\ ~loading /\ p # want.page
  /\ p <= pages \/ p = want.page - 1
  /\ Fetch([want EXCEPT !.page = p], cached)

\* Another store is selected by handleAuthFailure, or by an answer to
\* fetchCurrentStore; nothing is fetched.
SelectStore(s) ==
  /\ want' = [want EXCEPT !.store = s] /\ moved' = TRUE
  /\ UNCHANGED <<asked, loading, late, typing, shown, pages, failed, cached>>

\* The request issued last is answered, or fails.
Arrives ==
  /\ loading /\ loading' = FALSE
  /\ \/ Show(asked) /\ cached' = cached \cup {asked} /\ UNCHANGED failed
     \/ failed' = TRUE /\ UNCHANGED <<shown, pages, cached>>
  /\ UNCHANGED <<want, asked, late, typing, moved>>

\* Mutated form: any answer is shown.
ShowLate(w) ==
  /\ w \in late /\ late' = late \ {w}
  /\ Show(w) /\ cached' = cached \cup {w}
  /\ UNCHANGED <<want, asked, loading, typing, failed, moved>>

\* An overtaken request: its answer is dropped, its failure is not.
ArrivesLate(w) ==
  /\ w \in late /\ late' = late \ {w}
  /\ failed' \in {failed, TRUE}
  /\ UNCHANGED <<want, asked, loading, typing, shown, pages, cached, moved>>

SearchNext ==
  \/ \E f \in FilterSets : TypeSearch(f) \/ ChooseFilters(f)
  \/ TimerFires \/ FetchAgain \/ Arrives
  \/ \E s \in Shops : ChangeStore(s) \/ SelectStore(s)
  \/ \E p \in 1..MaxPages : GoToPage(p)
  \/ \E w \in late : ArrivesLate(w)

SearchSpec == SearchInit /\ [][SearchNext]_searchVars
-----------------------------------------------------------------------------
\* Once nothing is under way, no text is being typed and no error is shown,
\* the list on the screen is that of the filters and the page the customer
\* chose last, whatever order the answers came in (useProductSearch); and it is
\* of the store that is selected, unless that one was selected elsewhere, which
\* fetches nothing, since the list was asked for.
ShownIsWanted ==
  ~loading /\ ~typing /\ ~failed =>
    /\ shown = asked
    /\ shown.filters = want.filters /\ shown.page = want.page
    /\ ~moved => shown.store = want.store
=============================================================================
