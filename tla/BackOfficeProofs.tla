-------------------------- MODULE BackOfficeProofs --------------------------
(***************************************************************************)
(* Proofs about five modules of the back office, which share no state:     *)
(* Categories, Banners, SalesDashboard, RowLocks and StoreSettings.        *)
(***************************************************************************)
EXTENDS Categories, Banners, SalesDashboard, RowLocks, StoreSettings, FiniteSetTheorems,
        TLAPS
-----------------------------------------------------------------------------
(* Categories.                                                             *)
(* That the parents of categories never form a circle, for any number of   *)
(* categories, slugs and requests, while no form is saved over a change it *)
(* has not seen.  The rule a form is validated by asks only that the new   *)
(* parent has none; that is enough, since a parent without one cannot be   *)
(* below the category that is put under it.  The invariant adds that a     *)
(* form whose rows have not changed still satisfies the rule.              *)

CategoriesInv ==
  /\ category \in [CategoryIds -> Row \cup {NoCategory}]
  /\ \A f \in CategoryForms :
       form[f] = NoForm \/ form[f] \in [id : CategoryIds, row : Row, old : BOOLEAN]
  /\ form = [f \in CategoryForms |-> form[f]]
  /\ lapped \in BOOLEAN
  /\ ParentsEnd
  /\ \A f \in CategoryForms :
       form[f] # NoForm /\ ~form[f].old => MayBeParent(form[f].id, form[f].row.parent)

\* A form that is made old says nothing any more.
LEMMA OldForm ==
  ASSUME NEW r \in [id : CategoryIds, row : Row, old : BOOLEAN]
  PROVE  /\ [r EXCEPT !.old = TRUE] \in [id : CategoryIds, row : Row, old : BOOLEAN]
         /\ [r EXCEPT !.old = TRUE].old
  OBVIOUS

LEMMA FormsGrowOld ==
  ASSUME CategoriesInv, NEW done \in SUBSET CategoryForms,
         form' = [g \in CategoryForms |-> IF g \in done \/ form[g] = NoForm THEN NoForm
                                          ELSE [form[g] EXCEPT !.old = TRUE]]
  PROVE  /\ \A f \in CategoryForms :
              form'[f] = NoForm \/ form'[f] \in [id : CategoryIds, row : Row, old : BOOLEAN]
         /\ form' = [f \in CategoryForms |-> form'[f]]
         /\ \A f \in CategoryForms : form'[f] # NoForm => form'[f].old
<1>1. ASSUME NEW f \in CategoryForms, form[f] # NoForm
      PROVE  /\ [form[f] EXCEPT !.old = TRUE] \in [id : CategoryIds, row : Row, old : BOOLEAN]
             /\ [form[f] EXCEPT !.old = TRUE].old
  BY <1>1, OldForm DEF CategoriesInv
<1>2. QED
  BY <1>1

\* Putting a category under a root makes no circle.
LEMMA RootsMakeNoCircle ==
  ASSUME CategoriesInv, ~lapped, NEW i \in CategoryIds, NEW row \in Row,
         MayBeParent(i, row.parent), category' = [category EXCEPT ![i] = row]
  PROVE  \A S \in SUBSET Existing' : S # {} => \E k \in S : category'[k].parent \notin S
<1> SUFFICES ASSUME NEW S \in SUBSET Existing', S # {}
             PROVE  \E k \in S : category'[k].parent \notin S
  OBVIOUS
<1>1. /\ category'[i] = row
      /\ \A k \in CategoryIds : k # i => category'[k] = category[k]
  BY DEF CategoriesInv
<1>2. S \subseteq CategoryIds /\ 0 \notin S
  BY CategoryIdsAssumption DEF Existing
<1>3. CASE i \notin S
  <2>1. S \in SUBSET Existing
    BY <1>1, <1>2, <1>3 DEF Existing
  <2>2. \E k \in S : category[k].parent \notin S
    BY <2>1 DEF CategoriesInv, ParentsEnd
  <2>3. QED
    BY <1>1, <1>2, <1>3, <2>2
<1>4. CASE i \in S /\ row.parent \notin S
  BY <1>1, <1>4
<1>5. CASE i \in S /\ row.parent \in S
  <2>1. row.parent # i /\ category[row.parent].parent = 0 /\ row.parent \in CategoryIds
    BY <1>2, <1>5 DEF MayBeParent, Existing
  <2>2. category'[row.parent].parent = 0
    BY <1>1, <2>1
  <2>3. QED
    BY <1>2, <1>5, <2>2
<1>6. QED
  BY <1>3, <1>4, <1>5

\* A form is validated, on rows that stay as they are.
LEMMA ValidateKept ==
  ASSUME CategoriesInv, NEW f \in CategoryForms, NEW i \in CategoryIds, NEW row \in Row,
         Validate(f, i, row)
  PROVE  CategoriesInv'
<1> DEFINE n == [id |-> i, row |-> row, old |-> FALSE]
<1>1. n \in [id : CategoryIds, row : Row, old : BOOLEAN] /\ n.id = i /\ n.row = row
  OBVIOUS
<1>2. form' = [form EXCEPT ![f] = n] /\ MayBeParent(i, row.parent)
      /\ UNCHANGED <<category, lapped>>
  BY DEF Validate
<1> HIDE DEF n
<1>3. \A g \in CategoryForms : form'[g] = IF g = f THEN n ELSE form[g]
  BY <1>2 DEF CategoriesInv
<1>4. form' = [g \in CategoryForms |-> form'[g]]
  BY <1>2 DEF CategoriesInv
<1>5. \A g \in CategoryForms : form'[g] # NoForm /\ ~form'[g].old =>
        MayBeParent(form'[g].id, form'[g].row.parent)
  BY <1>1, <1>2, <1>3 DEF CategoriesInv
<1>6. \A g \in CategoryForms : form'[g] # NoForm /\ ~form'[g].old =>
        MayBeParent(form[g].id, form[g].row.parent)'
  BY <1>2, <1>5 DEF MayBeParent, Existing
<1>7. ParentsEnd'
  BY <1>2 DEF CategoriesInv, ParentsEnd, Existing
<1>8. \A g \in CategoryForms :
        form'[g] = NoForm \/ form'[g] \in [id : CategoryIds, row : Row, old : BOOLEAN]
  BY <1>1, <1>3 DEF CategoriesInv
<1>9. QED
  BY <1>2, <1>4, <1>6, <1>7, <1>8 DEF CategoriesInv

\* A row is written, or refused.
LEMMA CategorySaveKept ==
  ASSUME CategoriesInv, NEW f \in CategoryForms, SaveCategory(f)
  PROVE  CategoriesInv'
<1> DEFINE i == form[f].id
           row == form[f].row
           fits == (row.parent = 0 \/ row.parent \in Existing) /\ NameIsFree(i, row)
<1>1. form[f] # NoForm /\ form[f] \in [id : CategoryIds, row : Row, old : BOOLEAN]
  BY DEF SaveCategory, CategoriesInv
<1>2. i \in CategoryIds /\ row \in Row /\ form[f].old \in BOOLEAN
  BY <1>1
<1>3. CASE fits
  <2>1. /\ category' = [category EXCEPT ![i] = row] /\ form' = Ages(f)
        /\ lapped' = (lapped \/ form[f].old)
    BY <1>3 DEF SaveCategory
  <2>2. form' = [g \in CategoryForms |-> IF g \in {f} \/ form[g] = NoForm THEN NoForm
                                         ELSE [form[g] EXCEPT !.old = TRUE]]
    BY <2>1 DEF Ages
  <2>3. /\ \A g \in CategoryForms :
             form'[g] = NoForm \/ form'[g] \in [id : CategoryIds, row : Row, old : BOOLEAN]
        /\ form' = [g \in CategoryForms |-> form'[g]]
        /\ \A g \in CategoryForms : form'[g] # NoForm => form'[g].old
    BY <2>2, FormsGrowOld
  <2>4. lapped' \in BOOLEAN
    BY <1>2, <2>1 DEF CategoriesInv
  <2>5. ParentsEnd'
    <3>1. CASE lapped \/ form[f].old
      BY <2>1, <3>1 DEF ParentsEnd
    <3>2. CASE ~lapped /\ ~form[f].old
      <4>1. MayBeParent(i, row.parent)
        BY <1>1, <3>2 DEF CategoriesInv
      <4>2. \A S \in SUBSET Existing' : S # {} => \E k \in S : category'[k].parent \notin S
        BY <1>2, <2>1, <3>2, <4>1, RootsMakeNoCircle
      <4>3. QED
        BY <4>2 DEF ParentsEnd
    <3>3. QED
      BY <3>1, <3>2
  <2>6. \A k \in CategoryIds : category'[k] = IF k = i THEN row ELSE category[k]
    BY <2>1 DEF CategoriesInv
  <2>7. category' \in [CategoryIds -> Row \cup {NoCategory}]
    BY <1>2, <2>1 DEF CategoriesInv
  <2>8. QED
    BY <2>3, <2>4, <2>5, <2>7 DEF CategoriesInv
<1>4. CASE ~fits
  <2>1. form' = [form EXCEPT ![f] = NoForm] /\ UNCHANGED <<category, lapped>>
    BY <1>4 DEF SaveCategory
  <2>2. \A g \in CategoryForms : form'[g] = IF g = f THEN NoForm ELSE form[g]
    BY <2>1 DEF CategoriesInv
  <2>3. form' = [g \in CategoryForms |-> form'[g]]
    BY <2>1 DEF CategoriesInv
  <2>4. \A g \in CategoryForms : form'[g] # NoForm /\ ~form'[g].old =>
          MayBeParent(form[g].id, form[g].row.parent)'
    BY <2>1, <2>2 DEF CategoriesInv, MayBeParent, Existing
  <2>5. ParentsEnd'
    BY <2>1 DEF CategoriesInv, ParentsEnd, Existing
  <2>6. QED
    BY <2>1, <2>2, <2>3, <2>4, <2>5 DEF CategoriesInv
<1>5. QED
  BY <1>3, <1>4

\* A category without subcategories goes.
LEMMA DeleteKept ==
  ASSUME CategoriesInv, NEW i \in CategoryIds, DeleteCategory(i)
  PROVE  CategoriesInv'
<1>1. /\ category' = [category EXCEPT ![i] = NoCategory] /\ lapped' = lapped
      /\ form' = [g \in CategoryForms |-> IF g \in {} \/ form[g] = NoForm THEN NoForm
                                          ELSE [form[g] EXCEPT !.old = TRUE]]
  BY DEF DeleteCategory
<1>2. /\ \A g \in CategoryForms :
           form'[g] = NoForm \/ form'[g] \in [id : CategoryIds, row : Row, old : BOOLEAN]
      /\ form' = [g \in CategoryForms |-> form'[g]]
      /\ \A g \in CategoryForms : form'[g] # NoForm => form'[g].old
  <2>1. PICK none \in SUBSET CategoryForms : none = {}
    OBVIOUS
  <2>2. form' = [g \in CategoryForms |-> IF g \in none \/ form[g] = NoForm THEN NoForm
                                         ELSE [form[g] EXCEPT !.old = TRUE]]
    BY <1>1, <2>1
  <2>3. QED
    BY <2>2, FormsGrowOld
<1>3. \A k \in CategoryIds : category'[k] = IF k = i THEN NoCategory ELSE category[k]
  BY <1>1 DEF CategoriesInv
<1>4. ParentsEnd'
  <2>1. ASSUME ~lapped, NEW S \in SUBSET Existing', S # {}
        PROVE  \E k \in S : category'[k].parent \notin S
    <3>1. S \in SUBSET Existing /\ i \notin S /\ S \subseteq CategoryIds
      BY <1>3 DEF Existing
    <3>2. \E k \in S : category[k].parent \notin S
      BY <2>1, <3>1 DEF CategoriesInv, ParentsEnd
    <3>3. QED
      BY <1>3, <3>1, <3>2
  <2>2. QED
    BY <1>1, <2>1 DEF ParentsEnd
<1>5. QED
  BY <1>1, <1>2, <1>4 DEF CategoriesInv

\* The invariant of every reachable state.
LEMMA CategoriesInvariance == CategoriesSpec => []CategoriesInv
<1>1. CategoriesInit => CategoriesInv
  <2> SUFFICES ASSUME CategoriesInit PROVE CategoriesInv
    OBVIOUS
  <2>1. Existing = {}
    BY DEF CategoriesInit, Existing
  <2>2. ParentsEnd
    BY <2>1 DEF ParentsEnd
  <2>3. QED
    BY <2>2 DEF CategoriesInit, CategoriesInv
<1>2. CategoriesInv /\ [CategoriesNext]_categoriesVars => CategoriesInv'
  <2> SUFFICES ASSUME CategoriesInv, [CategoriesNext]_categoriesVars
               PROVE  CategoriesInv'
    OBVIOUS
  <2>1. CASE CategoriesNext
    BY <2>1, ValidateKept, CategorySaveKept, DeleteKept DEF CategoriesNext
  <2>2. CASE UNCHANGED categoriesVars
    BY <2>2 DEF categoriesVars, CategoriesInv, ParentsEnd, MayBeParent, Existing
  <2>3. QED
    BY <2>1, <2>2
<1>3. QED
  BY <1>1, <1>2, PTL DEF CategoriesSpec

\* No category is above itself, as long as every form was saved on the rows it
\* was validated against (Category._validate_parent_relationship).
THEOREM NoCategoryIsAboveItself == CategoriesSpec => []ParentsEnd
<1>1. CategoriesInv => ParentsEnd
  BY DEF CategoriesInv
<1>2. QED
  BY <1>1, CategoriesInvariance, PTL

\* What the constraints of the database add: a parent is a category that is
\* there, and no two categories have the same name on the same level.
CategoryRowsInv ==
  /\ CategoriesInv
  /\ \A i, j \in CategoryIds : category[i].parent = j => category[j] # NoCategory
  /\ \A i, j \in CategoryIds :
       i # j /\ category[i] # NoCategory => category[i] # category[j]

\* A row is told apart from one that is not there by its slug.
LEMMA RowIsThereOrNot == NoCategory \notin Row /\ NoCategory.parent = 0
  BY SlugsAssumption DEF NoCategory, Row

LEMMA SaveKeepsRows ==
  ASSUME CategoryRowsInv, NEW f \in CategoryForms, SaveCategory(f)
  PROVE  CategoryRowsInv'
<1> DEFINE i == form[f].id
           row == form[f].row
           fits == (row.parent = 0 \/ row.parent \in Existing) /\ NameIsFree(i, row)
<1>1. CategoriesInv'
  BY CategorySaveKept DEF CategoryRowsInv
<1>2. i \in CategoryIds /\ row \in Row
  BY DEF SaveCategory, CategoryRowsInv, CategoriesInv
<1>3. CASE fits
  <2>1. \A k \in CategoryIds : category'[k] = IF k = i THEN row ELSE category[k]
    BY <1>3 DEF SaveCategory, CategoryRowsInv, CategoriesInv
  <2>2. row # NoCategory
    BY <1>2, RowIsThereOrNot
  <2>3. ASSUME NEW k \in CategoryIds, NEW j \in CategoryIds, category'[k].parent = j
        PROVE  category'[j] # NoCategory
    <3>1. category[k].parent = j \/ (row.parent = j /\ k = i)
      BY <2>1, <2>3
    <3>2. j # 0
      BY CategoryIdsAssumption
    <3>3. category[j] # NoCategory
      BY <1>3, <3>1, <3>2 DEF CategoryRowsInv, Existing
    <3>4. QED
      BY <2>1, <2>2, <3>3
  <2>4. ASSUME NEW k \in CategoryIds, NEW j \in CategoryIds, k # j,
               category'[k] # NoCategory
        PROVE  category'[k] # category'[j]
    <3>1. \A x \in CategoryIds : x # i => category[x] # row
      BY <1>3, <2>2 DEF NameIsFree, Existing
    <3>2. QED
      BY <2>1, <2>4, <3>1 DEF CategoryRowsInv
  <2>5. QED
    BY <1>1, <2>3, <2>4 DEF CategoryRowsInv
<1>4. CASE ~fits
  BY <1>1, <1>4 DEF SaveCategory, CategoryRowsInv
<1>5. QED
  BY <1>3, <1>4

LEMMA DeleteKeepsRows ==
  ASSUME CategoryRowsInv, NEW i \in CategoryIds, DeleteCategory(i)
  PROVE  CategoryRowsInv'
<1>1. CategoriesInv'
  BY DeleteKept DEF CategoryRowsInv
<1>2. \A k \in CategoryIds : category'[k] = IF k = i THEN NoCategory ELSE category[k]
  BY DEF DeleteCategory, CategoryRowsInv, CategoriesInv
<1>3. \A k \in CategoryIds : category[k] # NoCategory => category[k].parent # i
  BY DEF DeleteCategory, Existing
<1>4. ASSUME NEW k \in CategoryIds, NEW j \in CategoryIds, category'[k].parent = j
      PROVE  category'[j] # NoCategory
  <2>1. k # i /\ category[k].parent = j /\ j # 0
    BY <1>2, <1>4, RowIsThereOrNot, CategoryIdsAssumption
  <2>2. category[k] # NoCategory /\ category[j] # NoCategory
    BY <2>1, RowIsThereOrNot DEF CategoryRowsInv
  <2>3. QED
    BY <1>2, <1>3, <2>1, <2>2
<1>5. ASSUME NEW k \in CategoryIds, NEW j \in CategoryIds, k # j, category'[k] # NoCategory
      PROVE  category'[k] # category'[j]
  BY <1>2, <1>5 DEF CategoryRowsInv
<1>6. QED
  BY <1>1, <1>4, <1>5 DEF CategoryRowsInv

LEMMA CategoryRows == CategoriesSpec => []CategoryRowsInv
<1>1. CategoriesInit /\ CategoriesInv => CategoryRowsInv
  BY RowIsThereOrNot, CategoryIdsAssumption DEF CategoriesInit, CategoryRowsInv
<1>2. CategoryRowsInv /\ CategoriesInv' /\ [CategoriesNext]_categoriesVars => CategoryRowsInv'
  <2> SUFFICES ASSUME CategoryRowsInv, CategoriesInv', [CategoriesNext]_categoriesVars
               PROVE  CategoryRowsInv'
    OBVIOUS
  <2>1. CASE UNCHANGED category
    BY <2>1 DEF CategoryRowsInv
  <2>2. CASE CategoriesNext
    BY <2>1, <2>2, SaveKeepsRows, DeleteKeepsRows DEF CategoriesNext, Validate
  <2>3. QED
    BY <2>1, <2>2 DEF categoriesVars
<1>3. QED
  BY <1>1, <1>2, CategoriesInvariance, PTL DEF CategoriesSpec

\* A category has a parent that is there, or none, and its name to itself on
\* its level, whatever the order of the saves: the foreign key and the unique
\* constraints of Category refuse the ones that would break it.
THEOREM CategoryTypes == CategoriesSpec => []CategoriesTypeOK
<1>1. CategoryRowsInv => CategoriesTypeOK
  <2> SUFFICES ASSUME CategoryRowsInv PROVE CategoriesTypeOK
    OBVIOUS
  <2>1. NoForm \in [id : CategoryIds \cup {0}, row : Row \cup {NoCategory}, old : BOOLEAN]
    BY DEF NoForm
  <2>2. form \in [CategoryForms -> [id : CategoryIds \cup {0},
                                    row : Row \cup {NoCategory}, old : BOOLEAN]]
    BY <2>1 DEF CategoryRowsInv, CategoriesInv
  <2>3. QED
    BY <2>2 DEF CategoryRowsInv, CategoriesInv, CategoriesTypeOK
<1>2. QED
  BY <1>1, CategoryRows, PTL
-----------------------------------------------------------------------------
(* Banners: a list that nobody has written over unseen is numbered 0, 1,   *)
(* 2, ..., for any number of banners, placements and requests.  Of the     *)
(* requests that renumber a list the invariant says what the list will be  *)
(* when they are done; of a creation and an edit, what they know of the    *)
(* rows; and all of it only while nobody else has written since.           *)

\* What a row and a request may hold.
ReadRow == [placement : Placements, position : Nat] \cup {NoBanner}
BannerKinds == {"none", "create", "edit", "delete", "deleted", "renumber", "reorder"}
BannerRequest == [kind : BannerKinds, id : 0..MaxBanners, row : ReadRow, todo : SUBSET Moves, old : BOOLEAN]

BannerTypes ==
  /\ banner \in [BannerIds -> BannerRow \cup {NoBanner}]
  /\ bannersMade \in 0..MaxBanners
  /\ \A i \in BannerIds : i > bannersMade => banner[i] = NoBanner
  /\ bannerCall \in [BannerCalls -> BannerRequest]
  /\ \A c \in BannerCalls : bannerCall[c].id <= bannersMade
  /\ untidy \in SUBSET Placements

\* A list is numbered 0, 1, 2, ...
Ranked(p) == {banner[i].position : i \in Listed(p)} = 0..(Cardinality(Listed(p)) - 1)

\* A request that is yet to renumber a list.
Renumbering(p) ==
  \E c \in BannerCalls : /\ bannerCall[c].kind \in {"deleted", "renumber"}
                         /\ bannerCall[c].row.placement = p

\* The position a row will have when `moves` are done.
Becomes(i, moves) ==
  IF \E x \in moves : x.id = i THEN (CHOOSE x \in moves : x.id = i).position
  ELSE banner[i].position

OnePerRow(moves) == \A x, y \in moves : x.id = y.id => x = y

\* What a request holds, by its kind.
RequestHolds(r) ==
  /\ r.kind # "none" => r.row.placement \in Placements
  /\ r.kind \in {"delete", "edit"} => r.id \in BannerIds
  /\ r.kind = "edit" => r.row \in BannerRow
  /\ r.kind \in {"renumber", "reorder"} => OnePerRow(r.todo)
  /\ r.kind = "renumber" => r.todo # {}
  /\ r.kind = "reorder" =>
       {x.position : x \in r.todo} = 0..(Cardinality({x.id : x \in r.todo}) - 1)

\* What a request knows of the rows, while nobody has written since it read them.
RequestIsFresh(r) ==
  /\ r.kind = "create" /\ ~r.old => r.row.position = NextPosition(r.row.placement)
  /\ r.kind = "edit" /\ ~r.old => banner[r.id] = r.row
  /\ r.kind = "renumber" /\ ~r.old =>
       /\ \A x \in r.todo : x.id \in Listed(r.row.placement)
       /\ {Becomes(i, r.todo) : i \in Listed(r.row.placement)}
            = 0..(Cardinality(Listed(r.row.placement)) - 1)

BannersInv ==
  /\ BannerTypes
  /\ \A c \in BannerCalls : RequestHolds(bannerCall[c])
  /\ \A c \in BannerCalls : RequestIsFresh(bannerCall[c])
  /\ \A p \in Placements \ untidy : Renumbering(p) \/ Ranked(p)
-----------------------------------------------------------------------------
LEMMA BannerRows ==
  ASSUME BannerTypes, NEW i \in BannerIds
  PROVE  /\ banner[i].position \in 0..MaxBanners
         /\ i \in Nat
         /\ banner[i] = NoBanner \/ banner[i] \in BannerRow
         /\ banner[i].placement \in Placements <=> banner[i] # NoBanner
         /\ banner[i].placement \in Placements \cup {"none"}
<1>1. MaxBanners \in Nat /\ "none" \notin Placements
  BY BannerBoundsAssumption, PlacementsAssumption
<1>2. banner[i] \in BannerRow \cup {NoBanner} /\ i \in Nat
  BY DEF BannerTypes, BannerIds
<1>3. CASE banner[i] = NoBanner
  <2>1. banner[i].position = 0 /\ banner[i].placement = "none"
    BY <1>3 DEF NoBanner
  <2>2. QED
    BY <1>1, <1>2, <1>3, <2>1
<1>4. CASE banner[i] \in BannerRow
  <2>1. banner[i].position \in 0..MaxBanners /\ banner[i].placement \in Placements
    BY <1>4 DEF BannerRow
  <2>2. NoBanner.placement = "none"
    BY DEF NoBanner
  <2>3. banner[i] # NoBanner
    BY <1>1, <2>1, <2>2
  <2>4. QED
    BY <1>2, <1>4, <2>1, <2>3
<1>5. QED
  BY <1>2, <1>3, <1>4

\* The order of a list is total.
LEMMA BeforeIsAnOrder ==
  ASSUME BannerTypes
  PROVE  /\ \A i \in BannerIds : ~Before(i, i)
         /\ \A i, j \in BannerIds : i = j \/ Before(i, j) \/ Before(j, i)
         /\ \A i, j, k \in BannerIds : Before(i, j) /\ Before(j, k) => Before(i, k)
<1>1. \A i \in BannerIds : banner[i].position \in Nat /\ i \in Nat
  BY BannerRows, BannerBoundsAssumption
<1>2. QED
  BY <1>1 DEF Before

LEMMA BannersAreFinite ==
  ASSUME NEW S \in SUBSET BannerIds
  PROVE  IsFiniteSet(S) /\ Cardinality(S) \in 0..MaxBanners
<1>1. MaxBanners \in Nat
  BY BannerBoundsAssumption
<1>2. IsFiniteSet(BannerIds) /\ Cardinality(BannerIds) = MaxBanners
  <2>1. IsFiniteSet(1..MaxBanners)
        /\ Cardinality(1..MaxBanners) = IF 1 > MaxBanners THEN 0 ELSE MaxBanners - 1 + 1
    BY <1>1, FS_Interval
  <2>2. QED
    BY <1>1, <2>1 DEF BannerIds
<1>3. IsFiniteSet(S) /\ Cardinality(S) <= MaxBanners
  BY <1>2, FS_Subset
<1>4. Cardinality(S) \in Nat
  BY <1>3, FS_CardinalityType
<1>5. QED
  BY <1>1, <1>3, <1>4

\* The rows of a list have the ranks 0, 1, 2, ..., each one its own.
LEMMA RanksAreAll ==
  ASSUME BannerTypes, NEW S \in SUBSET BannerIds
  PROVE  /\ \A i \in S : Rank(i, S) \in 0..(Cardinality(S) - 1)
         /\ {Rank(i, S) : i \in S} = 0..(Cardinality(S) - 1)
         /\ \A i \in S : Rank(i, S) = Cardinality(S) - 1 => \A j \in S : ~Before(i, j)
<1> DEFINE n == Cardinality(S)
           Above(i) == {j \in S : Before(j, i)}
<1>1. IsFiniteSet(S) /\ n \in Nat
  BY BannersAreFinite
<1>2. ASSUME NEW i \in S
      PROVE  /\ IsFiniteSet(Above(i)) /\ Cardinality(Above(i)) \in 0..(n - 1)
             /\ Cardinality(Above(i)) = n - 1 => Above(i) = S \ {i}
  <2>1. i \notin Above(i)
    BY BeforeIsAnOrder
  <2>2. Above(i) \in SUBSET (S \ {i})
    BY <2>1
  <2>3. IsFiniteSet(S \ {i}) /\ Cardinality(S \ {i}) = n - 1
    BY <1>1, FS_RemoveElement
  <2>4. /\ IsFiniteSet(Above(i)) /\ Cardinality(Above(i)) <= n - 1
        /\ n - 1 = Cardinality(Above(i)) => S \ {i} = Above(i)
    BY <2>2, <2>3, FS_Subset
  <2>5. Cardinality(Above(i)) \in Nat
    BY <2>4, FS_CardinalityType
  <2>6. QED
    BY <1>1, <2>4, <2>5
<1>3. ASSUME NEW i \in S, NEW j \in S, Before(i, j)
      PROVE  Cardinality(Above(i)) # Cardinality(Above(j))
  <2>1. Above(i) \in SUBSET Above(j)
    BY <1>3, BeforeIsAnOrder
  <2>2. i \in Above(j) /\ i \notin Above(i)
    BY <1>3, BeforeIsAnOrder
  <2>3. IsFiniteSet(Above(j))
    BY <1>2
  <2>4. Cardinality(Above(j)) = Cardinality(Above(i)) => Above(j) = Above(i)
    BY <2>1, <2>3, FS_Subset
  <2>5. QED
    BY <2>2, <2>4
<1>4. ASSUME NEW i \in S, NEW j \in S, i # j
      PROVE  Cardinality(Above(i)) # Cardinality(Above(j))
  BY <1>3, <1>4, BeforeIsAnOrder
<1> DEFINE f == [i \in S |-> Cardinality(Above(i))]
<1>5. f \in Injection(S, 0..(n - 1))
  BY <1>2, <1>4 DEF Injection, IsInjective
<1>6. IsFiniteSet(0..(n - 1)) /\ Cardinality(0..(n - 1)) = n
  <2>1. IsFiniteSet(0..(n - 1))
        /\ Cardinality(0..(n - 1)) = IF 0 > n - 1 THEN 0 ELSE n - 1 - 0 + 1
    BY <1>1, FS_Interval
  <2>2. QED
    BY <1>1, <2>1
<1>7. f \in Surjection(S, 0..(n - 1))
  BY <1>5, <1>6, FS_Injection
<1>8. \A k \in 0..(n - 1) : \E i \in S : Cardinality(Above(i)) = k
  BY <1>7 DEF Surjection
<1>9. \A i \in S : Rank(i, S) = Cardinality(Above(i))
  BY DEF Rank
<1>10. \A i \in S : Rank(i, S) \in 0..(n - 1)
  BY <1>2, <1>9
<1>11. {Rank(i, S) : i \in S} = 0..(n - 1)
  <2> HIDE DEF n, Above
  <2> QED
    BY <1>8, <1>9, <1>10
<1>12. ASSUME NEW i \in S, Rank(i, S) = n - 1, NEW j \in S
       PROVE  ~Before(i, j)
  <2>1. Above(i) = S \ {i}
    BY <1>2, <1>9, <1>12
  <2>2. j = i \/ Before(j, i)
    BY <2>1
  <2>3. QED
    BY <2>2, BeforeIsAnOrder
<1>13. QED
  BY <1>10, <1>11, <1>12

LEMMA LastIsThere ==
  ASSUME BannerTypes, NEW S \in SUBSET BannerIds, S # {}
  PROVE  LastOf(S) \in S /\ \A j \in S : ~Before(LastOf(S), j)
<1>1. Cardinality(S) \in Nat /\ Cardinality(S) # 0
  BY BannersAreFinite, FS_EmptySet
<1>2. Cardinality(S) - 1 \in {Rank(i, S) : i \in S}
  BY <1>1, RanksAreAll
<1>3. PICK i \in S : Rank(i, S) = Cardinality(S) - 1
  BY <1>2
<1>4. \A j \in S : ~Before(i, j)
  BY <1>3, RanksAreAll
<1>5. QED
  BY <1>4 DEF LastOf

\* In a list that is in order the next position is the number of its rows.
LEMMA NextFollows ==
  ASSUME BannerTypes, NEW p \in Placements
  PROVE  /\ NextPosition(p) \in Nat
         /\ Ranked(p) => NextPosition(p) = Cardinality(Listed(p))
<1>1. Listed(p) \in SUBSET BannerIds
  BY DEF Listed
<1>2. CASE Listed(p) = {}
  BY <1>2, FS_EmptySet DEF NextPosition
<1>3. CASE Listed(p) # {}
  <2> DEFINE last == LastOf(Listed(p))
             n == Cardinality(Listed(p))
  <2>1. last \in Listed(p) /\ \A j \in Listed(p) : ~Before(last, j)
    BY <1>1, <1>3, LastIsThere
  <2>2. NextPosition(p) = banner[last].position + 1
    BY <1>3 DEF NextPosition
  <2>3. \A j \in Listed(p) : banner[j].position \in Nat
    BY <1>1, BannerRows, BannerBoundsAssumption
  <2>4. n \in Nat /\ n # 0
    BY <1>1, <1>3, BannersAreFinite, FS_EmptySet
  <2> HIDE DEF last, n
  <2>5. ASSUME Ranked(p)
        PROVE  banner[last].position = n - 1
    <3>1. {banner[i].position : i \in Listed(p)} = 0..(n - 1)
      BY <2>5 DEF Ranked, n
    <3>2. n - 1 \in {banner[i].position : i \in Listed(p)}
      BY <2>4, <3>1
    <3>3. PICK j \in Listed(p) : banner[j].position = n - 1
      BY <3>2
    <3>4. banner[last].position \in 0..(n - 1)
      BY <2>1, <3>1
    <3>5. ~(banner[last].position < banner[j].position)
      BY <2>1 DEF Before
    <3>6. QED
      BY <2>3, <2>1, <2>4, <3>3, <3>4, <3>5
  <2>6. QED
    BY <2>1, <2>2, <2>3, <2>4, <2>5 DEF n
<1>4. QED
  BY <1>2, <1>3
-----------------------------------------------------------------------------
\* A request whose reading is old.
AgedCall(r) == [r EXCEPT !.old = r.kind \in {"create", "edit", "renumber"}]

LEMMA AgedRequest ==
  ASSUME NEW r \in BannerRequest
  PROVE  /\ AgedCall(r) \in BannerRequest
         /\ AgedCall(r).kind = r.kind /\ AgedCall(r).row = r.row /\ AgedCall(r).id = r.id
         /\ AgedCall(r).todo = r.todo
         /\ r.kind \in {"create", "edit", "renumber"} => AgedCall(r).old
<1>1. PICK b \in BOOLEAN : b <=> r.kind \in {"create", "edit", "renumber"}
  OBVIOUS
<1>2. (r.kind \in {"create", "edit", "renumber"}) = b
  BY <1>1
<1>3. AgedCall(r) = [r EXCEPT !.old = b]
  BY <1>2, Zenon DEF AgedCall
<1>4. QED
  BY <1>1, <1>3 DEF BannerRequest

\* A write makes the other requests old, and they keep what they are about.
LEMMA WroteKept ==
  ASSUME bannerCall \in [BannerCalls -> BannerRequest],
         \A d \in BannerCalls : RequestHolds(bannerCall[d]),
         NEW c \in BannerCalls, NEW request \in BannerRequest, RequestHolds(request),
         Wrote(c, request)
  PROVE  /\ bannerCall' \in [BannerCalls -> BannerRequest]
         /\ bannerCall'[c] = request
         /\ \A d \in BannerCalls : RequestHolds(bannerCall'[d])
         /\ \A d \in BannerCalls \ {c} : /\ bannerCall'[d].kind = bannerCall[d].kind
                                        /\ bannerCall'[d].row = bannerCall[d].row
                                        /\ bannerCall'[d].id = bannerCall[d].id
                                        /\ RequestIsFresh(bannerCall[d])'
<1>1. bannerCall' = [d \in BannerCalls |-> IF d = c THEN request ELSE AgedCall(bannerCall[d])]
  BY DEF Wrote, AgedCall
<1>2. \A d \in BannerCalls :
        /\ AgedCall(bannerCall[d]) \in BannerRequest
        /\ AgedCall(bannerCall[d]).kind = bannerCall[d].kind
        /\ AgedCall(bannerCall[d]).row = bannerCall[d].row
        /\ AgedCall(bannerCall[d]).id = bannerCall[d].id
        /\ AgedCall(bannerCall[d]).todo = bannerCall[d].todo
        /\ bannerCall[d].kind \in {"create", "edit", "renumber"} => AgedCall(bannerCall[d]).old
  BY AgedRequest
<1>3. bannerCall' \in [BannerCalls -> BannerRequest]
  BY <1>1, <1>2
<1>4. bannerCall'[c] = request
  BY <1>1
<1>5. ASSUME NEW d \in BannerCalls \ {c}
      PROVE  /\ bannerCall'[d].kind = bannerCall[d].kind
             /\ bannerCall'[d].row = bannerCall[d].row
             /\ bannerCall'[d].id = bannerCall[d].id
             /\ RequestHolds(bannerCall'[d])
             /\ RequestIsFresh(bannerCall[d])'
  <2>1. bannerCall'[d] = AgedCall(bannerCall[d])
    BY <1>1
  <2>2. /\ bannerCall'[d].kind = bannerCall[d].kind
        /\ bannerCall'[d].row = bannerCall[d].row
        /\ bannerCall'[d].id = bannerCall[d].id
        /\ bannerCall'[d].todo = bannerCall[d].todo
        /\ bannerCall'[d].kind \in {"create", "edit", "renumber"} => bannerCall'[d].old
    BY <1>2, <2>1
  <2>3. RequestHolds(bannerCall'[d])
    BY <2>2, Zenon DEF RequestHolds
  <2>4. RequestIsFresh(bannerCall[d])'
    BY <2>2 DEF RequestIsFresh
  <2>5. QED
    BY <2>2, <2>3, <2>4
<1>6. QED
  BY <1>3, <1>4, <1>5

\* A list of which no row is written, comes or goes.
LEMMA RankedKept ==
  ASSUME NEW p,
         \A i \in BannerIds : \/ banner'[i] = banner[i]
                              \/ banner[i].placement # p /\ banner'[i].placement # p
  PROVE  Listed(p)' = Listed(p) /\ (Ranked(p) => Ranked(p)')
<1>1. Listed(p)' = Listed(p)
  BY DEF Listed
<1>2. \A i \in Listed(p) : banner'[i] = banner[i]
  BY DEF Listed
<1>3. {banner'[i].position : i \in Listed(p)} = {banner[i].position : i \in Listed(p)}
  BY <1>2
<1>4. QED
  BY <1>1, <1>3 DEF Ranked

LEMMA SameRows ==
  ASSUME banner' = banner, NEW p, NEW i, NEW moves
  PROVE  /\ Listed(p)' = Listed(p)
         /\ NextPosition(p)' = NextPosition(p)
         /\ Becomes(i, moves)' = Becomes(i, moves)
<1>1. Listed(p)' = Listed(p)
  BY DEF Listed
<1>2. \A S : LastOf(S)' = LastOf(S)
  BY DEF LastOf, Before
<1>3. NextPosition(p)' = NextPosition(p)
  BY <1>1, <1>2 DEF NextPosition
<1>4. Becomes(i, moves)' = Becomes(i, moves)
  BY DEF Becomes
<1>5. QED
  BY <1>1, <1>3, <1>4

\* A request that reads, or ends without writing.
LEMMA CallKept ==
  ASSUME BannersInv, NEW c \in BannerCalls, NEW r \in BannerRequest,
         RequestHolds(r), RequestIsFresh(r), r.id <= bannersMade,
         bannerCall' = [bannerCall EXCEPT ![c] = r],
         banner' = banner, bannersMade' = bannersMade,
         untidy' \in SUBSET Placements, untidy \subseteq untidy',
         \A p \in Placements \ untidy' :
           \/ Ranked(p)
           \/ r.kind \in {"deleted", "renumber"} /\ r.row.placement = p
           \/ \E d \in BannerCalls \ {c} : /\ bannerCall[d].kind \in {"deleted", "renumber"}
                                           /\ bannerCall[d].row.placement = p
  PROVE  BannersInv'
<1>1. /\ bannerCall'[c] = r
      /\ \A d \in BannerCalls \ {c} : bannerCall'[d] = bannerCall[d]
      /\ bannerCall' \in [BannerCalls -> BannerRequest]
  BY DEF BannersInv, BannerTypes
<1>2. BannerTypes'
  BY <1>1 DEF BannersInv, BannerTypes
<1>3. \A d \in BannerCalls : RequestHolds(bannerCall'[d])
  BY <1>1 DEF BannersInv
<1>4. \A d \in BannerCalls : RequestIsFresh(bannerCall[d])'
  <2>1. ASSUME NEW d \in BannerCalls
        PROVE  RequestIsFresh(bannerCall[d])'
    <3>1. PICK s : s = bannerCall'[d]
      OBVIOUS
    <3>2. RequestIsFresh(s)
      BY <1>1, <3>1 DEF BannersInv
    <3>3. RequestIsFresh(s)'
      BY <3>2, SameRows DEF RequestIsFresh
    <3>4. QED
      BY <3>1, <3>3 DEF RequestIsFresh
  <2>2. QED
    BY <2>1
<1>5. \A p \in Placements \ untidy' : Renumbering(p)' \/ Ranked(p)'
  <2>1. \A p \in Placements : Ranked(p) => Ranked(p)'
    BY RankedKept
  <2>2. \A p \in Placements :
          \/ r.kind \in {"deleted", "renumber"} /\ r.row.placement = p
          \/ \E d \in BannerCalls \ {c} : /\ bannerCall[d].kind \in {"deleted", "renumber"}
                                          /\ bannerCall[d].row.placement = p
          => Renumbering(p)'
    BY <1>1 DEF Renumbering
  <2>3. QED
    BY <2>1, <2>2
<1>6. QED
  BY <1>2, <1>3, <1>4, <1>5 DEF BannersInv, RequestHolds

LEMMA NobodysCall ==
  /\ NoBannerCall \in BannerRequest
  /\ RequestHolds(NoBannerCall) /\ RequestIsFresh(NoBannerCall)
  /\ NoBannerCall.kind = "none" /\ NoBannerCall.id = 0
<1>1. MaxBanners \in Nat
  BY BannerBoundsAssumption
<1>2. QED
  BY <1>1 DEF NoBannerCall, BannerRequest, BannerKinds, ReadRow, RequestHolds, RequestIsFresh

\* One field of a request changes.
LEMMA OfKind ==
  ASSUME NEW a \in BannerRequest, NEW x \in BannerKinds
  PROVE  \E r \in BannerRequest :
           /\ r = [a EXCEPT !.kind = x]
           /\ r.kind = x /\ r.id = a.id /\ r.row = a.row /\ r.todo = a.todo /\ r.old = a.old
<1> DEFINE r == [a EXCEPT !.kind = x]
<1>1. /\ r \in BannerRequest
      /\ r.kind = x /\ r.id = a.id /\ r.row = a.row /\ r.todo = a.todo /\ r.old = a.old
  BY DEF BannerRequest
<1> HIDE DEF r
<1>2. QED
  BY <1>1 DEF r

LEMMA OfBanner ==
  ASSUME NEW a \in BannerRequest, NEW x \in 0..MaxBanners
  PROVE  \E r \in BannerRequest :
           /\ r = [a EXCEPT !.id = x]
           /\ r.id = x /\ r.kind = a.kind /\ r.row = a.row /\ r.todo = a.todo /\ r.old = a.old
<1> DEFINE r == [a EXCEPT !.id = x]
<1>1. /\ r \in BannerRequest
      /\ r.id = x /\ r.kind = a.kind /\ r.row = a.row /\ r.todo = a.todo /\ r.old = a.old
  BY DEF BannerRequest
<1> HIDE DEF r
<1>2. QED
  BY <1>1 DEF r

LEMMA OfRow ==
  ASSUME NEW a \in BannerRequest, NEW x \in ReadRow
  PROVE  \E r \in BannerRequest :
           /\ r = [a EXCEPT !.row = x]
           /\ r.row = x /\ r.kind = a.kind /\ r.id = a.id /\ r.todo = a.todo /\ r.old = a.old
<1> DEFINE r == [a EXCEPT !.row = x]
<1>1. /\ r \in BannerRequest
      /\ r.row = x /\ r.kind = a.kind /\ r.id = a.id /\ r.todo = a.todo /\ r.old = a.old
  BY DEF BannerRequest
<1> HIDE DEF r
<1>2. QED
  BY <1>1 DEF r

LEMMA OfMoves ==
  ASSUME NEW a \in BannerRequest, NEW x \in SUBSET Moves
  PROVE  \E r \in BannerRequest :
           /\ r = [a EXCEPT !.todo = x]
           /\ r.todo = x /\ r.kind = a.kind /\ r.id = a.id /\ r.row = a.row /\ r.old = a.old
<1> DEFINE r == [a EXCEPT !.todo = x]
<1>1. /\ r \in BannerRequest
      /\ r.todo = x /\ r.kind = a.kind /\ r.id = a.id /\ r.row = a.row /\ r.old = a.old
  BY DEF BannerRequest
<1> HIDE DEF r
<1>2. QED
  BY <1>1 DEF r

\* A request begins with what it has read.
LEMMA ReadsKept ==
  ASSUME BannersInv, NEW c \in BannerCalls, NEW kind \in {"create", "edit", "delete"},
         NEW i \in 0..MaxBanners, NEW row \in [placement : Placements, position : Nat],
         Reads(c, kind, i, row),
         kind \in {"edit", "delete"} => i \in BannerIds, i <= bannersMade,
         kind = "edit" => row \in BannerRow /\ banner[i] = row,
         kind = "create" => row.position = NextPosition(row.placement)
  PROVE  BannersInv'
<1> DEFINE r == [NoBannerCall EXCEPT !.kind = kind, !.id = i, !.row = row]
<1>1. /\ r \in BannerRequest
      /\ r.kind = kind /\ r.id = i /\ r.row = row /\ r.todo = {} /\ r.old = FALSE
  <2>1. PICK a \in BannerRequest : a = NoBannerCall
    BY NobodysCall
  <2>2. a.todo = {} /\ a.old = FALSE
    BY <2>1 DEF NoBannerCall
  <2>3. kind \in BannerKinds /\ row \in ReadRow
    BY DEF BannerKinds, ReadRow
  <2>4. PICK x \in BannerRequest : /\ x = [a EXCEPT !.kind = kind]
                                   /\ x.kind = kind /\ x.todo = a.todo /\ x.old = a.old
    BY <2>3, OfKind
  <2>5. PICK y \in BannerRequest : /\ y = [x EXCEPT !.id = i]
                                   /\ y.id = i /\ y.kind = x.kind /\ y.todo = x.todo
                                   /\ y.old = x.old
    BY OfBanner
  <2>6. PICK z \in BannerRequest : /\ z = [y EXCEPT !.row = row]
                                   /\ z.row = row /\ z.id = y.id /\ z.kind = y.kind
                                   /\ z.todo = y.todo /\ z.old = y.old
    BY <2>3, OfRow
  <2>7. r = z
    BY <2>1, <2>4, <2>5, <2>6, Zenon
  <2>8. QED
    BY <2>2, <2>4, <2>5, <2>6, <2>7
<1>2. r \in BannerRequest
  BY <1>1
<1>3. RequestHolds(r)
  BY <1>1 DEF RequestHolds
<1>4. RequestIsFresh(r)
  BY <1>1 DEF RequestIsFresh
<1>5. /\ bannerCall' = [bannerCall EXCEPT ![c] = r]
      /\ banner' = banner /\ bannersMade' = bannersMade /\ untidy' = untidy
      /\ bannerCall[c].kind = "none"
  BY NobodysCall DEF Reads
<1> HIDE DEF r
<1>6. \A p \in Placements \ untidy' :
        \/ Ranked(p)
        \/ r.kind \in {"deleted", "renumber"} /\ r.row.placement = p
        \/ \E d \in BannerCalls \ {c} : /\ bannerCall[d].kind \in {"deleted", "renumber"}
                                        /\ bannerCall[d].row.placement = p
  BY <1>5 DEF BannersInv, Renumbering
<1>7. untidy' \in SUBSET Placements /\ untidy \subseteq untidy'
  BY <1>5 DEF BannersInv, BannerTypes
<1>8. QED
  BY <1>1, <1>2, <1>3, <1>4, <1>5, <1>6, <1>7, CallKept

\* A request that writes, and what is left of it.
LEMMA WriteKept ==
  ASSUME BannersInv, NEW c \in BannerCalls, NEW r \in BannerRequest,
         RequestHolds(r), RequestIsFresh(r)', Wrote(c, r),
         r.id <= bannersMade', bannersMade <= bannersMade',
         banner' \in [BannerIds -> BannerRow \cup {NoBanner}], bannersMade' \in 0..MaxBanners,
         \A i \in BannerIds : i > bannersMade' => banner'[i] = NoBanner,
         untidy' \in SUBSET Placements,
         \A p \in Placements \ untidy' :
           \/ Ranked(p)'
           \/ r.kind \in {"deleted", "renumber"} /\ r.row.placement = p
           \/ \E d \in BannerCalls \ {c} : /\ bannerCall[d].kind \in {"deleted", "renumber"}
                                           /\ bannerCall[d].row.placement = p
  PROVE  BannersInv'
<1>1. /\ bannerCall' \in [BannerCalls -> BannerRequest]
      /\ bannerCall'[c] = r
      /\ \A d \in BannerCalls : RequestHolds(bannerCall'[d])
      /\ \A d \in BannerCalls \ {c} : /\ bannerCall'[d].kind = bannerCall[d].kind
                                     /\ bannerCall'[d].row = bannerCall[d].row
                                     /\ bannerCall'[d].id = bannerCall[d].id
                                     /\ RequestIsFresh(bannerCall[d])'
  BY WroteKept DEF BannersInv, BannerTypes
<1>2. BannerTypes'
  <2>1. ASSUME NEW d \in BannerCalls
        PROVE  bannerCall'[d].id <= bannersMade'
    <3>1. CASE d = c
      BY <1>1, <3>1
    <3>2. CASE d # c
      <4>1. bannerCall[d].id \in Nat /\ bannerCall[d].id <= bannersMade
        BY BannerBoundsAssumption DEF BannersInv, BannerTypes, BannerRequest
      <4>2. QED
        BY <1>1, <3>2, <4>1, BannerBoundsAssumption DEF BannersInv, BannerTypes
    <3>3. QED
      BY <3>1, <3>2
  <2>2. QED
    BY <1>1, <2>1 DEF BannerTypes
<1>3. RequestIsFresh(bannerCall[c])'
  BY <1>1 DEF RequestIsFresh
<1>4. \A p \in Placements \ untidy' : Renumbering(p)' \/ Ranked(p)'
  <2>1. \A p \in Placements :
          \/ r.kind \in {"deleted", "renumber"} /\ r.row.placement = p
          \/ \E d \in BannerCalls \ {c} : /\ bannerCall[d].kind \in {"deleted", "renumber"}
                                          /\ bannerCall[d].row.placement = p
          => Renumbering(p)'
    BY <1>1 DEF Renumbering
  <2>2. QED
    BY <2>1
<1>5. \A d \in BannerCalls : RequestHolds(bannerCall[d])' /\ RequestIsFresh(bannerCall[d])'
  BY <1>1, <1>3 DEF RequestHolds
<1>6. QED
  BY <1>2, <1>4, <1>5 DEF BannersInv

\* The lists a write does not touch: they are in order, or somebody else is at
\* them, if nobody had them in hand but `c`.
LEMMA OtherLists ==
  ASSUME BannersInv, NEW c \in BannerCalls, NEW p \in Placements, p \notin untidy,
         \/ bannerCall[c].kind \notin {"deleted", "renumber"}
         \/ bannerCall[c].row.placement # p,
         \A i \in BannerIds : \/ banner'[i] = banner[i]
                              \/ banner[i].placement # p /\ banner'[i].placement # p
  PROVE  \/ Ranked(p)'
         \/ \E d \in BannerCalls \ {c} : /\ bannerCall[d].kind \in {"deleted", "renumber"}
                                         /\ bannerCall[d].row.placement = p
  BY RankedKept DEF BannersInv, Renumbering

LEMMA UntidiedTypes ==
  ASSUME untidy \in SUBSET Placements, NEW rows,
         \A row \in rows : row.placement \in Placements \cup {"none"}
  PROVE  /\ Untidied(rows) \in SUBSET Placements
         /\ untidy \subseteq Untidied(rows)
         /\ \A row \in rows : \A p \in Placements \ Untidied(rows) : row.placement # p
  BY PlacementsAssumption DEF Untidied

LEMMA CreateReadKept ==
  ASSUME BannersInv, NEW c \in BannerCalls, NEW p \in Placements, CreateRead(c, p)
  PROVE  BannersInv'
<1> DEFINE row == [placement |-> p, position |-> NextPosition(p)]
<1>1. row \in [placement : Placements, position : Nat]
  BY NextFollows DEF BannersInv
<1>2. row.position = NextPosition(row.placement)
  OBVIOUS
<1>3. Reads(c, "create", 0, row) /\ 0 \in 0..MaxBanners /\ 0 <= bannersMade
  BY BannerBoundsAssumption DEF CreateRead, BannersInv, BannerTypes
<1> HIDE DEF row
<1>4. QED
  BY <1>1, <1>2, <1>3, ReadsKept

LEMMA EditReadKept ==
  ASSUME BannersInv, NEW c \in BannerCalls, NEW i \in BannerIds, EditRead(c, i)
  PROVE  BannersInv'
<1>1. banner[i] \in BannerRow /\ Reads(c, "edit", i, banner[i])
  BY BannerRows DEF EditRead, BannersInv
<1>2. PICK row \in BannerRow : row = banner[i]
  BY <1>1
<1>3. row \in [placement : Placements, position : Nat]
  BY BannerBoundsAssumption DEF BannerRow
<1>4. i \in 0..MaxBanners /\ i <= bannersMade
  BY BannerBoundsAssumption DEF EditRead, BannerIds, BannersInv, BannerTypes
<1>5. QED
  BY <1>1, <1>2, <1>3, <1>4, ReadsKept

LEMMA DeleteReadKept ==
  ASSUME BannersInv, NEW c \in BannerCalls, NEW i \in BannerIds, DeleteRead(c, i)
  PROVE  BannersInv'
<1>1. banner[i] \in BannerRow
  BY BannerRows DEF DeleteRead, BannersInv
<1>2. [banner[i] EXCEPT !.position = 0] \in [placement : Placements, position : Nat]
  BY <1>1 DEF BannerRow
<1>3. PICK row \in [placement : Placements, position : Nat] :
        row = [banner[i] EXCEPT !.position = 0]
  BY <1>2
<1>4. Reads(c, "delete", i, row)
  BY <1>3 DEF DeleteRead
<1>5. i \in 0..MaxBanners /\ i <= bannersMade
  BY BannerBoundsAssumption DEF DeleteRead, BannerIds, BannersInv, BannerTypes
<1>6. QED
  BY <1>4, <1>5, ReadsKept

LEMMA RequestRows ==
  ASSUME BannersInv, NEW c \in BannerCalls, bannerCall[c].kind # "none"
  PROVE  /\ bannerCall[c] \in BannerRequest
         /\ bannerCall[c].row \in [placement : Placements, position : Nat]
         /\ bannerCall[c].row.position <= MaxBanners => bannerCall[c].row \in BannerRow
<1>1. bannerCall[c] \in BannerRequest /\ bannerCall[c].row.placement \in Placements
  BY DEF BannersInv, BannerTypes, RequestHolds
<1>2. bannerCall[c].row # NoBanner
  BY <1>1, PlacementsAssumption DEF NoBanner
<1>3. bannerCall[c].row \in [placement : Placements, position : Nat]
  BY <1>1, <1>2 DEF BannerRequest, ReadRow
<1>4. PICK row \in [placement : Placements, position : Nat] : row = bannerCall[c].row
  BY <1>3
<1>5. row.position <= MaxBanners => row \in BannerRow
  BY BannerBoundsAssumption DEF BannerRow
<1>6. QED
  BY <1>1, <1>4, <1>5

\* A row that follows the last keeps a list in order.
LEMMA ListGrows ==
  ASSUME BannersInv, NEW k \in BannerIds, banner[k] = NoBanner,
         NEW row \in BannerRow, banner' = [banner EXCEPT ![k] = row],
         row.position = NextPosition(row.placement), Ranked(row.placement)
  PROVE  Ranked(row.placement)'
<1> DEFINE p == row.placement
           n == Cardinality(Listed(p))
<1>1. p \in Placements /\ p # "none"
  BY PlacementsAssumption DEF BannerRow
<1>2. /\ banner'[k] = row
      /\ \A i \in BannerIds : i # k => banner'[i] = banner[i]
  BY DEF BannersInv, BannerTypes
<1>3. k \notin Listed(p) /\ Listed(p) \in SUBSET BannerIds
  BY <1>1 DEF Listed, NoBanner
<1>4. Listed(p)' = Listed(p) \cup {k}
  BY <1>2 DEF Listed
<1>5. IsFiniteSet(Listed(p)) /\ n \in Nat
  BY <1>3, BannersAreFinite
<1>6. Cardinality(Listed(p) \cup {k}) = n + 1
  BY <1>3, <1>5, FS_AddElement
<1>7. row.position = n
  BY <1>1, NextFollows DEF BannersInv
<1>8. {banner[i].position : i \in Listed(p)} = 0..(n - 1)
  BY DEF Ranked
<1>9. {banner'[i].position : i \in Listed(p) \cup {k}} = {banner[i].position : i \in Listed(p)} \cup {n}
  BY <1>2, <1>3, <1>7
<1> HIDE DEF n
<1>10. (0..(n - 1)) \cup {n} = 0..n
  BY <1>5
<1>11. {banner'[i].position : i \in Listed(p) \cup {k}} = 0..((n + 1) - 1)
  BY <1>5, <1>8, <1>9, <1>10
<1>12. QED
  BY <1>4, <1>6, <1>11 DEF Ranked

LEMMA CreateSaveKept ==
  ASSUME BannersInv, NEW c \in BannerCalls, CreateSave(c)
  PROVE  BannersInv'
<1> DEFINE k == bannersMade + 1
<1>1. PICK row : row = bannerCall[c].row
  OBVIOUS
<1>2. /\ bannerCall[c].kind = "create"
      /\ bannersMade < MaxBanners /\ row.position <= MaxBanners
      /\ bannersMade' = k
      /\ banner' = [banner EXCEPT ![k] = row]
      /\ Wrote(c, NoBannerCall)
      /\ untidy' = IF bannerCall[c].old THEN Untidied({row}) ELSE untidy
  BY <1>1 DEF CreateSave
<1>3. row \in BannerRow
  BY <1>1, <1>2, RequestRows
<1>4. k \in BannerIds /\ k \in 0..MaxBanners /\ banner[k] = NoBanner /\ 0 <= k /\ bannersMade <= k
  BY <1>2, BannerBoundsAssumption DEF BannersInv, BannerTypes, BannerIds
<1>5. /\ banner'[k] = row
      /\ \A i \in BannerIds : i # k => banner'[i] = banner[i]
      /\ banner' \in [BannerIds -> BannerRow \cup {NoBanner}]
  BY <1>2, <1>3, <1>4 DEF BannersInv, BannerTypes
<1>6. \A i \in BannerIds : i > bannersMade' => banner'[i] = NoBanner
  BY <1>2, <1>5 DEF BannersInv, BannerTypes, BannerIds
<1>7. row.placement \in Placements
  BY <1>3 DEF BannerRow
<1>8. untidy \in SUBSET Placements
  BY DEF BannersInv, BannerTypes
<1>9. /\ Untidied({row}) \in SUBSET Placements /\ untidy \subseteq Untidied({row})
      /\ row.placement \in Untidied({row})
  BY <1>7, <1>8, UntidiedTypes
<1>10. untidy' \in SUBSET Placements /\ untidy \subseteq untidy'
  BY <1>2, <1>8, <1>9
<1>11. ASSUME NEW p \in Placements \ untidy'
       PROVE  \/ Ranked(p)'
              \/ \E d \in BannerCalls \ {c} : /\ bannerCall[d].kind \in {"deleted", "renumber"}
                                              /\ bannerCall[d].row.placement = p
  <2>1. CASE p # row.placement
    <3>1. NoBanner.placement # p
      BY PlacementsAssumption DEF NoBanner
    <3>2. \A i \in BannerIds : \/ banner'[i] = banner[i]
                               \/ banner[i].placement # p /\ banner'[i].placement # p
      BY <1>4, <1>5, <2>1, <3>1
    <3>3. QED
      BY <1>2, <1>10, <3>2, OtherLists
  <2>2. CASE p = row.placement /\ Ranked(p)
    <3>1. ~bannerCall[c].old
      BY <1>2, <1>9, <2>2
    <3>2. row.position = NextPosition(row.placement)
      BY <1>1, <1>2, <3>1 DEF BannersInv, RequestIsFresh
    <3>3. QED
      BY <1>2, <1>3, <1>4, <2>2, <3>2, ListGrows
  <2>3. CASE ~Ranked(p)
    BY <1>2, <1>10, <2>3 DEF BannersInv, Renumbering
  <2>4. QED
    BY <2>1, <2>2, <2>3
<1>12. RequestIsFresh(NoBannerCall)'
  BY DEF RequestIsFresh, NoBannerCall
<1>13. QED
  BY <1>2, <1>4, <1>5, <1>6, <1>10, <1>11, <1>12, NobodysCall, WriteKept

LEMMA EditSaveKept ==
  ASSUME BannersInv, NEW c \in BannerCalls, NEW row \in BannerRow, EditSave(c, row)
  PROVE  BannersInv'
<1>1. PICK read : read = bannerCall[c].row
  OBVIOUS
<1>2. PICK i : i = bannerCall[c].id
  OBVIOUS
<1>3. /\ bannerCall[c].kind = "edit"
      /\ banner' = [banner EXCEPT ![i] = row]
      /\ Wrote(c, NoBannerCall)
      /\ untidy' = IF row # read \/ bannerCall[c].old
                   THEN Untidied({row, read, banner[i]}) ELSE untidy
      /\ bannersMade' = bannersMade
  BY <1>1, <1>2 DEF EditSave
<1>4. i \in BannerIds /\ read \in BannerRow /\ i <= bannersMade
  BY <1>1, <1>2, <1>3 DEF BannersInv, BannerTypes, RequestHolds
<1>5. /\ banner'[i] = row
      /\ \A k \in BannerIds : k # i => banner'[k] = banner[k]
      /\ banner' \in [BannerIds -> BannerRow \cup {NoBanner}]
  BY <1>3, <1>4 DEF BannersInv, BannerTypes
<1>6. bannersMade \in 0..MaxBanners /\ untidy \in SUBSET Placements
  BY DEF BannersInv, BannerTypes
<1>7. \A k \in BannerIds : k > bannersMade' => banner'[k] = NoBanner
  BY <1>3, <1>4, <1>5, <1>6 DEF BannersInv, BannerTypes, BannerIds
<1>8. /\ row.placement \in Placements /\ read.placement \in Placements
      /\ banner[i].placement \in Placements \cup {"none"}
  BY <1>4, BannerRows DEF BannerRow, BannersInv
<1>9. /\ Untidied({row, read, banner[i]}) \in SUBSET Placements
      /\ untidy \subseteq Untidied({row, read, banner[i]})
      /\ \A p \in Placements \ Untidied({row, read, banner[i]}) :
           row.placement # p /\ banner[i].placement # p
  BY <1>6, <1>8, UntidiedTypes
<1>10. untidy' \in SUBSET Placements /\ untidy \subseteq untidy'
  BY <1>3, <1>6, <1>9
<1>11. ASSUME NEW p \in Placements \ untidy', NEW k \in BannerIds
       PROVE  \/ banner'[k] = banner[k]
              \/ banner[k].placement # p /\ banner'[k].placement # p
  <2>1. CASE row = read /\ ~bannerCall[c].old
    <3>1. banner[i] = row
      BY <1>1, <1>2, <1>3, <2>1 DEF BannersInv, RequestIsFresh
    <3>2. QED
      BY <1>5, <3>1
  <2>2. CASE row # read \/ bannerCall[c].old
    BY <1>3, <1>5, <1>9, <2>2
  <2>3. QED
    BY <2>1, <2>2
<1>12. ASSUME NEW p \in Placements \ untidy'
       PROVE  \/ Ranked(p)'
              \/ \E d \in BannerCalls \ {c} : /\ bannerCall[d].kind \in {"deleted", "renumber"}
                                              /\ bannerCall[d].row.placement = p
  <2>1. p \notin untidy /\ bannerCall[c].kind \notin {"deleted", "renumber"}
    BY <1>3, <1>10
  <2>2. QED
    BY <1>11, <2>1, OtherLists
<1>13. RequestIsFresh(NoBannerCall)'
  BY DEF RequestIsFresh, NoBannerCall
<1>14. 0 <= bannersMade /\ bannersMade <= bannersMade
  BY <1>6, BannerBoundsAssumption
<1>15. QED
  BY <1>3, <1>5, <1>6, <1>7, <1>10, <1>12, <1>13, <1>14, NobodysCall, WriteKept

LEMMA DeleteRowKept ==
  ASSUME BannersInv, NEW c \in BannerCalls, DeleteRow(c)
  PROVE  BannersInv'
<1>1. PICK read : read = bannerCall[c].row
  OBVIOUS
<1>2. PICK i : i = bannerCall[c].id
  OBVIOUS
<1>3. PICK a \in BannerRequest : a = bannerCall[c]
  BY DEF BannersInv, BannerTypes
<1>4. PICK x \in BannerRequest : /\ x = [a EXCEPT !.kind = "deleted"]
                                 /\ x.kind = "deleted" /\ x.row = a.row /\ x.todo = a.todo
  BY OfKind DEF BannerKinds
<1>5. PICK r \in BannerRequest : /\ r = [x EXCEPT !.id = 0]
                                 /\ r.kind = x.kind /\ r.row = x.row /\ r.id = 0
  BY OfBanner, BannerBoundsAssumption
<1>6. r = [bannerCall[c] EXCEPT !.kind = "deleted", !.id = 0]
  BY <1>3, <1>4, <1>5, Zenon
<1>7. /\ bannerCall[c].kind = "delete"
      /\ banner' = [banner EXCEPT ![i] = NoBanner]
      /\ Wrote(c, r)
      /\ untidy' = IF banner[i].placement # read.placement
                   THEN Untidied({banner[i]}) ELSE untidy
      /\ bannersMade' = bannersMade
  BY <1>1, <1>2, <1>6 DEF DeleteRow
<1>8. i \in BannerIds /\ read.placement \in Placements
  BY <1>1, <1>2, <1>7 DEF BannersInv, RequestHolds
<1>9. r.kind = "deleted" /\ r.row = read /\ r.id = 0
  BY <1>1, <1>3, <1>4, <1>5
<1>10. RequestHolds(r) /\ RequestIsFresh(r)'
  BY <1>8, <1>9 DEF RequestHolds, RequestIsFresh
<1>11. /\ banner'[i] = NoBanner
       /\ \A k \in BannerIds : k # i => banner'[k] = banner[k]
       /\ banner' \in [BannerIds -> BannerRow \cup {NoBanner}]
       /\ \A k \in BannerIds : k > bannersMade' => banner'[k] = NoBanner
  BY <1>7, <1>8 DEF BannersInv, BannerTypes
<1>12. bannersMade \in 0..MaxBanners /\ untidy \in SUBSET Placements
  BY DEF BannersInv, BannerTypes
<1>13. /\ Untidied({banner[i]}) \in SUBSET Placements
       /\ untidy \subseteq Untidied({banner[i]})
       /\ \A p \in Placements \ Untidied({banner[i]}) : banner[i].placement # p
  BY <1>8, <1>12, UntidiedTypes, BannerRows DEF BannersInv
<1>14. untidy' \in SUBSET Placements /\ untidy \subseteq untidy'
  BY <1>7, <1>12, <1>13
<1>15. ASSUME NEW p \in Placements \ untidy', p # read.placement
       PROVE  \/ Ranked(p)'
              \/ \E d \in BannerCalls \ {c} : /\ bannerCall[d].kind \in {"deleted", "renumber"}
                                              /\ bannerCall[d].row.placement = p
  <2>1. banner[i].placement # p
    BY <1>7, <1>13, <1>15
  <2>2. NoBanner.placement # p
    BY PlacementsAssumption DEF NoBanner
  <2>3. \A k \in BannerIds : \/ banner'[k] = banner[k]
                             \/ banner[k].placement # p /\ banner'[k].placement # p
    BY <1>11, <2>1, <2>2
  <2>4. QED
    BY <1>7, <1>14, <2>3, OtherLists
<1>16. \A p \in Placements \ untidy' :
         \/ Ranked(p)'
         \/ r.kind \in {"deleted", "renumber"} /\ r.row.placement = p
         \/ \E d \in BannerCalls \ {c} : /\ bannerCall[d].kind \in {"deleted", "renumber"}
                                         /\ bannerCall[d].row.placement = p
  BY <1>9, <1>15
<1>17. r.id <= bannersMade' /\ bannersMade <= bannersMade'
  BY <1>7, <1>9, <1>12, BannerBoundsAssumption
<1>18. QED
  BY <1>7, <1>10, <1>11, <1>12, <1>14, <1>16, <1>17, WriteKept

LEMMA WhatBecomes ==
  ASSUME NEW moves, OnePerRow(moves)
  PROVE  /\ \A x \in moves : Becomes(x.id, moves) = x.position
         /\ \A i : (\A x \in moves : x.id # i) => Becomes(i, moves) = banner[i].position
<1>1. ASSUME NEW x \in moves
      PROVE  Becomes(x.id, moves) = x.position
  <2> DEFINE y == CHOOSE z \in moves : z.id = x.id
  <2>1. y \in moves /\ y.id = x.id
    OBVIOUS
  <2>2. y = x
    BY <2>1 DEF OnePerRow
  <2>3. QED
    BY <2>2 DEF Becomes
<1>2. ASSUME NEW i, \A x \in moves : x.id # i
      PROVE  Becomes(i, moves) = banner[i].position
  BY <1>2 DEF Becomes
<1>3. QED
  BY <1>1, <1>2

\* A call that is over leaves the lists as they are to the others.
LEMMA EndKept ==
  ASSUME BannersInv, NEW c \in BannerCalls,
         bannerCall' = [bannerCall EXCEPT ![c] = NoBannerCall],
         banner' = banner, bannersMade' = bannersMade,
         untidy' \in SUBSET Placements, untidy \subseteq untidy',
         \A p \in Placements \ untidy' :
           \/ Ranked(p)
           \/ bannerCall[c].kind \notin {"deleted", "renumber"}
           \/ bannerCall[c].row.placement # p
  PROVE  BannersInv'
<1>1. \A p \in Placements \ untidy' :
        \/ Ranked(p)
        \/ NoBannerCall.kind \in {"deleted", "renumber"} /\ NoBannerCall.row.placement = p
        \/ \E d \in BannerCalls \ {c} : /\ bannerCall[d].kind \in {"deleted", "renumber"}
                                        /\ bannerCall[d].row.placement = p
  BY DEF BannersInv, Renumbering
<1>2. NoBannerCall.id <= bannersMade
  BY NobodysCall, BannerBoundsAssumption DEF BannersInv, BannerTypes
<1>3. QED
  BY <1>1, <1>2, NobodysCall, CallKept

LEMMA DeleteListKept ==
  ASSUME BannersInv, NEW c \in BannerCalls, DeleteList(c)
  PROVE  BannersInv'
<1>1. PICK p : p = bannerCall[c].row.placement
  OBVIOUS
<1> DEFINE listed == Listed(p)
           n == Cardinality(listed)
           late == {x \in Moves : /\ x.id \in listed /\ x.position = Rank(x.id, listed)
                                  /\ banner[x.id].position # x.position}
<1>2. /\ bannerCall[c].kind = "deleted"
      /\ bannerCall' = [bannerCall EXCEPT ![c] =
           IF late = {} THEN NoBannerCall
           ELSE [bannerCall[c] EXCEPT !.kind = "renumber", !.todo = late]]
      /\ banner' = banner /\ bannersMade' = bannersMade /\ untidy' = untidy
  BY <1>1 DEF DeleteList
<1>3. listed \in SUBSET BannerIds /\ n \in 0..MaxBanners
  BY BannersAreFinite DEF Listed
<1>4. /\ \A i \in listed : Rank(i, listed) \in 0..(n - 1)
      /\ {Rank(i, listed) : i \in listed} = 0..(n - 1)
  BY <1>3, RanksAreAll DEF BannersInv
<1>5. ASSUME NEW i \in listed, \A x \in late : x.id # i
      PROVE  banner[i].position = Rank(i, listed)
  <2> DEFINE x == [id |-> i, position |-> Rank(i, listed)]
  <2>1. x \in Moves
    BY <1>3, <1>4, BannerBoundsAssumption DEF Moves
  <2>2. QED
    BY <1>5, <2>1
<1>6. untidy \in SUBSET Placements
  BY DEF BannersInv, BannerTypes
<1>7. CASE late = {}
  <2>1. \A i \in listed : banner[i].position = Rank(i, listed)
    BY <1>5, <1>7
  <2>2. {banner[i].position : i \in listed} = {Rank(i, listed) : i \in listed}
    BY <2>1
  <2>3. Ranked(p)
    BY <1>4, <2>2 DEF Ranked
  <2>4. bannerCall' = [bannerCall EXCEPT ![c] = NoBannerCall]
    BY <1>2, <1>7
  <2>5. \A q \in Placements \ untidy' : Ranked(q) \/ bannerCall[c].row.placement # q
    BY <1>1, <2>3
  <2>6. QED
    BY <1>2, <1>6, <2>4, <2>5, EndKept
<1>8. CASE late # {}
  <2>1. PICK a \in BannerRequest : a = bannerCall[c]
    BY DEF BannersInv, BannerTypes
  <2>2. PICK moves \in SUBSET Moves : moves = late
    OBVIOUS
  <2>3. PICK x \in BannerRequest : /\ x = [a EXCEPT !.kind = "renumber"]
                                   /\ x.kind = "renumber" /\ x.row = a.row /\ x.id = a.id
    BY OfKind DEF BannerKinds
  <2>4. PICK r \in BannerRequest : /\ r = [x EXCEPT !.todo = moves]
                                   /\ r.kind = x.kind /\ r.row = x.row /\ r.id = x.id
                                   /\ r.todo = moves
    BY OfMoves
  <2>5. r = [bannerCall[c] EXCEPT !.kind = "renumber", !.todo = late]
    BY <2>1, <2>2, <2>3, <2>4, Zenon
  <2>6. bannerCall' = [bannerCall EXCEPT ![c] = r]
    BY <1>2, <1>8, <2>5
  <2>7. /\ r.kind = "renumber" /\ r.row = bannerCall[c].row /\ r.row.placement = p
        /\ r.id = bannerCall[c].id /\ r.todo = moves
    BY <1>1, <2>1, <2>3, <2>4
  <2>8. OnePerRow(moves) /\ moves # {}
    <3>1. \A x1, x2 \in moves : x1.id = x2.id => x1.position = x2.position
      BY <2>2
    <3>2. \A x1, x2 \in Moves : x1.id = x2.id /\ x1.position = x2.position => x1 = x2
      BY DEF Moves
    <3>3. QED
      BY <1>8, <2>2, <3>1, <3>2 DEF OnePerRow
  <2>9. \A i \in listed : Becomes(i, moves) = Rank(i, listed)
    BY <1>5, <2>2, <2>8, WhatBecomes
  <2>10. {Becomes(i, moves) : i \in listed} = {Rank(i, listed) : i \in listed}
    BY <2>9
  <2>11. \A y \in moves : y.id \in listed
    BY <2>2
  <2>12. p \in Placements
    BY <1>1, <1>2 DEF BannersInv, RequestHolds
  <2> HIDE DEF listed, n, late
  <2>13. RequestHolds(r)
    BY <2>7, <2>8, <2>12 DEF RequestHolds
  <2>14. RequestIsFresh(r)
    BY <1>4, <2>7, <2>10, <2>11 DEF RequestIsFresh, listed, n
  <2>15. r.id <= bannersMade
    BY <2>7 DEF BannersInv, BannerTypes
  <2>16. \A q \in Placements \ untidy' :
           \/ Ranked(q)
           \/ r.kind \in {"deleted", "renumber"} /\ r.row.placement = q
           \/ \E d \in BannerCalls \ {c} : /\ bannerCall[d].kind \in {"deleted", "renumber"}
                                           /\ bannerCall[d].row.placement = q
    BY <1>1, <1>2, <2>7 DEF BannersInv, Renumbering
  <2>17. QED
    BY <1>2, <1>6, <2>6, <2>13, <2>14, <2>15, <2>16, CallKept
<1>9. QED
  BY <1>7, <1>8

\* One row gets its place: the list becomes what it was to become.
LEMMA MoveMade ==
  ASSUME BannerTypes, NEW moves \in SUBSET Moves, OnePerRow(moves), NEW x \in moves,
         NEW p, \A y \in moves : y.id \in Listed(p),
         banner' = [banner EXCEPT ![x.id].position = x.position]
  PROVE  /\ Listed(p)' = Listed(p)
         /\ \A i \in Listed(p) : Becomes(i, moves \ {x})' = Becomes(i, moves)
<1>1. /\ banner'[x.id].position = x.position
      /\ banner'[x.id].placement = banner[x.id].placement
      /\ \A i \in BannerIds : i # x.id => banner'[i] = banner[i]
  <2>1. x.id \in BannerIds /\ x.id \in Listed(p)
    BY DEF Moves
  <2>2. banner[x.id] \in BannerRow \cup {NoBanner}
    BY <2>1 DEF BannerTypes
  <2>3. \A r \in BannerRow \cup {NoBanner} :
          /\ [r EXCEPT !.position = x.position].position = x.position
          /\ [r EXCEPT !.position = x.position].placement = r.placement
    BY DEF BannerRow, NoBanner
  <2>4. banner' = [banner EXCEPT ![x.id] = [banner[x.id] EXCEPT !.position = x.position]]
    OBVIOUS
  <2>5. QED
    BY <2>1, <2>2, <2>3, <2>4 DEF BannerTypes
<1>2. Listed(p)' = Listed(p)
  <2>1. \A i \in BannerIds : banner'[i].placement = banner[i].placement
    BY <1>1
  <2>2. QED
    BY <2>1 DEF Listed
<1> DEFINE rest == moves \ {x}
<1>3. OnePerRow(rest)
  BY DEF OnePerRow
<1>4. /\ \A y \in rest : Becomes(y.id, rest)' = y.position
      /\ \A i : (\A y \in rest : y.id # i) => Becomes(i, rest)' = banner'[i].position
  <2> HIDE DEF rest
  <2>1. /\ \A y \in rest : Becomes(y.id, rest) = y.position
        /\ \A i : (\A y \in rest : y.id # i) => Becomes(i, rest) = banner[i].position
    BY <1>3, WhatBecomes
  <2>2. ASSUME NEW y \in rest
        PROVE  Becomes(y.id, rest)' = y.position
    <3>1. Becomes(y.id, rest) = (CHOOSE z \in rest : z.id = y.id).position
      BY DEF Becomes
    <3>2. Becomes(y.id, rest)' = (CHOOSE z \in rest : z.id = y.id).position
      BY DEF Becomes
    <3>3. QED
      BY <2>1, <3>1, <3>2
  <2>3. ASSUME NEW i, \A y \in rest : y.id # i
        PROVE  Becomes(i, rest)' = banner'[i].position
    BY <2>3 DEF Becomes
  <2>4. QED
    BY <2>2, <2>3
<1>5. /\ \A y \in moves : Becomes(y.id, moves) = y.position
      /\ \A i : (\A y \in moves : y.id # i) => Becomes(i, moves) = banner[i].position
  BY WhatBecomes
<1>6. ASSUME NEW i \in Listed(p)
      PROVE  Becomes(i, rest)' = Becomes(i, moves)
  <2>1. CASE i = x.id
    <3>1. \A y \in rest : y.id # i
      BY <2>1 DEF OnePerRow
    <3>2. QED
      BY <1>1, <1>4, <1>5, <2>1, <3>1
  <2>2. CASE \E y \in rest : y.id = i
    <3>1. PICK y \in rest : y.id = i
      BY <2>2
    <3>2. Becomes(y.id, rest)' = y.position
      BY <1>4
    <3>3. Becomes(y.id, moves) = y.position
      BY <1>5
    <3>4. QED
      BY <3>1, <3>2, <3>3
  <2>3. CASE i # x.id /\ \A y \in rest : y.id # i
    <3>1. Becomes(i, rest)' = banner'[i].position
      BY <1>4, <2>3
    <3>2. \A y \in moves : y.id # i
      BY <2>3
    <3>3. Becomes(i, moves) = banner[i].position
      BY <1>5, <3>2
    <3>4. i \in BannerIds
      BY DEF Listed
    <3>5. banner'[i] = banner[i]
      BY <1>1, <2>3, <3>4
    <3>6. QED
      BY <3>1, <3>3, <3>5
  <2>4. QED
    BY <2>1, <2>2, <2>3
<1>7. QED
  BY <1>2, <1>6

LEMMA DeleteRenumberKept ==
  ASSUME BannersInv, NEW c \in BannerCalls, DeleteRenumber(c)
  PROVE  BannersInv'
<1>1. PICK a \in BannerRequest : a = bannerCall[c]
  BY DEF BannersInv, BannerTypes
<1>2. PICK x \in a.todo :
        /\ a.kind = "renumber"
        /\ IF banner[x.id] = NoBanner
           THEN /\ bannerCall' = [bannerCall EXCEPT ![c] = NoBannerCall]
                /\ untidy' = Untidied({a.row})
                /\ UNCHANGED banner
           ELSE /\ banner' = [banner EXCEPT ![x.id].position = x.position]
                /\ Wrote(c, IF a.todo \ {x} = {} THEN NoBannerCall
                            ELSE [bannerCall[c] EXCEPT !.todo = a.todo \ {x}])
                /\ untidy' = IF a.old THEN Untidied({a.row, banner[x.id]}) ELSE untidy
        /\ bannersMade' = bannersMade
  BY <1>1 DEF DeleteRenumber
<1>3. /\ RequestHolds(a) /\ RequestIsFresh(a) /\ a.id <= bannersMade
      /\ untidy \in SUBSET Placements /\ bannersMade \in 0..MaxBanners
      /\ BannerTypes
  BY <1>1 DEF BannersInv, BannerTypes
<1>4. a.row.placement \in Placements /\ OnePerRow(a.todo) /\ a.todo \in SUBSET Moves
  BY <1>2, <1>3 DEF RequestHolds, BannerRequest
<1>5. x.id \in BannerIds /\ x.position \in 0..MaxBanners
  BY <1>4 DEF Moves
<1>6. CASE banner[x.id] = NoBanner
  <2>1. /\ Untidied({a.row}) \in SUBSET Placements /\ untidy \subseteq Untidied({a.row})
        /\ \A p \in Placements \ Untidied({a.row}) : a.row.placement # p
    BY <1>3, <1>4, UntidiedTypes
  <2>2. \A p \in Placements \ untidy' : bannerCall[c].row.placement # p
    BY <1>1, <1>2, <1>6, <2>1
  <2>3. QED
    BY <1>2, <1>6, <2>1, <2>2, EndKept
<1>7. CASE banner[x.id] # NoBanner
  <2> DEFINE i == x.id
             p == a.row.placement
  <2>1. PICK rest \in SUBSET Moves : rest = a.todo \ {x}
    BY <1>4
  <2>2. PICK b \in BannerRequest : /\ b = [a EXCEPT !.todo = rest]
                                   /\ b.kind = a.kind /\ b.row = a.row /\ b.id = a.id
                                   /\ b.old = a.old /\ b.todo = rest
    BY OfMoves
  <2>3. PICK r \in BannerRequest : r = IF rest = {} THEN NoBannerCall ELSE b
    BY NobodysCall
  <2>4. /\ banner' = [banner EXCEPT ![i].position = x.position]
        /\ Wrote(c, r)
        /\ untidy' = IF a.old THEN Untidied({a.row, banner[i]}) ELSE untidy
    BY <1>1, <1>2, <1>7, <2>1, <2>2, <2>3
  <2>5. banner[i] \in BannerRow
    BY <1>3, <1>5, <1>7 DEF BannerTypes
  <2>6. \A s \in BannerRow :
          /\ [s EXCEPT !.position = x.position] \in BannerRow
          /\ [s EXCEPT !.position = x.position].placement = s.placement
    BY <1>5 DEF BannerRow
  <2>7. banner' = [banner EXCEPT ![i] = [banner[i] EXCEPT !.position = x.position]]
    BY <2>4
  <2>8. /\ banner' \in [BannerIds -> BannerRow \cup {NoBanner}]
        /\ \A k \in BannerIds : k # i => banner'[k] = banner[k]
        /\ banner'[i].placement = banner[i].placement
    BY <1>3, <1>5, <2>5, <2>6, <2>7 DEF BannerTypes
  <2>9. \A k \in BannerIds : k > bannersMade' => banner'[k] = NoBanner
    BY <1>2, <1>3, <1>7, <2>8 DEF BannerTypes
  <2>10. banner[i].placement \in Placements
    BY <2>5 DEF BannerRow
  <2>11. /\ Untidied({a.row, banner[i]}) \in SUBSET Placements
         /\ untidy \subseteq Untidied({a.row, banner[i]})
         /\ \A q \in Placements \ Untidied({a.row, banner[i]}) :
              a.row.placement # q /\ banner[i].placement # q
    BY <1>3, <1>4, <2>10, UntidiedTypes
  <2>12. untidy' \in SUBSET Placements /\ untidy \subseteq untidy'
    BY <1>3, <2>4, <2>11
  <2>13. RequestHolds(r)
    <3>1. OnePerRow(rest)
      BY <1>4, <2>1 DEF OnePerRow
    <3>2. CASE rest # {}
      <4>1. r = b
        BY <2>3, <3>2
      <4>2. QED
        BY <1>2, <1>4, <2>2, <3>1, <3>2, <4>1 DEF RequestHolds
    <3>3. CASE rest = {}
      BY <2>3, <3>3, NobodysCall
    <3>4. QED
      BY <3>2, <3>3
  <2>14. r.id <= bannersMade' /\ bannersMade <= bannersMade'
    <3>1. r.id = a.id \/ r.id = 0
      BY <2>2, <2>3, NobodysCall
    <3>2. QED
      BY <1>2, <1>3, <3>1, BannerBoundsAssumption
  <2>15. ASSUME ~a.old
         PROVE  /\ Listed(p)' = Listed(p) /\ i \in Listed(p)
                /\ {Becomes(j, rest)' : j \in Listed(p)} = 0..(Cardinality(Listed(p)) - 1)
    <3>1. /\ \A y \in a.todo : y.id \in Listed(p)
          /\ {Becomes(j, a.todo) : j \in Listed(p)} = 0..(Cardinality(Listed(p)) - 1)
      BY <1>2, <1>3, <2>15 DEF RequestIsFresh
    <3>2. PICK moves \in SUBSET Moves : moves = a.todo
      BY <1>4
    <3>3. PICK q : q = p
      OBVIOUS
    <3>4. /\ Listed(q)' = Listed(q)
          /\ \A j \in Listed(q) : Becomes(j, moves \ {x})' = Becomes(j, moves)
      <4>1. \A y \in moves : y.id \in Listed(q)
        BY <3>1, <3>2, <3>3
      <4>2. x \in moves /\ OnePerRow(moves)
        BY <1>4, <3>2
      <4>3. QED
        BY <1>3, <2>4, <4>1, <4>2, MoveMade
    <3>5. /\ Listed(p)' = Listed(p)
          /\ \A j \in Listed(p) : Becomes(j, rest)' = Becomes(j, a.todo)
      <4>1. Listed(p)' = Listed(p)
        BY <3>3, <3>4 DEF Listed
      <4>2. ASSUME NEW j \in Listed(p)
            PROVE  Becomes(j, rest)' = Becomes(j, a.todo)
        <5>1. Becomes(j, moves \ {x})' = Becomes(j, moves)
          BY <3>3, <3>4
        <5>2. rest = moves \ {x} /\ a.todo = moves
          BY <2>1, <3>2
        <5>3. QED
          BY <5>1, <5>2, Zenon
      <4>3. QED
        BY <4>1, <4>2
    <3>6. QED
      BY <3>1, <3>5
  <2> HIDE DEF i, p
  <2>16. RequestIsFresh(r)'
    <3>1. CASE rest = {}
      BY <2>3, <3>1 DEF RequestIsFresh, NoBannerCall
    <3>2. CASE rest # {} /\ ~a.old
      <4>1. r = b /\ r.kind = "renumber" /\ r.todo = rest /\ r.row.placement = p
        BY <1>2, <2>2, <2>3, <3>2 DEF p
      <4>2. \A y \in rest : y.id \in Listed(p)
        BY <1>2, <1>3, <2>1, <3>2 DEF RequestIsFresh, p
      <4>3. QED
        BY <2>15, <3>2, <4>1, <4>2 DEF RequestIsFresh
    <3>3. CASE rest # {} /\ a.old
      BY <1>2, <2>2, <2>3, <3>3 DEF RequestIsFresh
    <3>4. QED
      BY <3>1, <3>2, <3>3
  <2>17. ASSUME NEW q \in Placements \ untidy'
         PROVE  \/ Ranked(q)'
                \/ r.kind \in {"deleted", "renumber"} /\ r.row.placement = q
                \/ \E d \in BannerCalls \ {c} : /\ bannerCall[d].kind \in {"deleted", "renumber"}
                                                /\ bannerCall[d].row.placement = q
    <3>1. CASE q = p
      <4>1. ~a.old
        BY <2>4, <2>11, <3>1 DEF p
      <4>2. CASE rest # {}
        BY <1>2, <2>2, <2>3, <3>1, <4>2 DEF p
      <4>3. CASE rest = {}
        <5>1. \A j \in Listed(p) : Becomes(j, rest)' = banner'[j].position
          BY <4>3 DEF Becomes
        <5>2. Ranked(p)'
          BY <2>15, <4>1, <5>1 DEF Ranked
        <5>3. QED
          BY <3>1, <5>2 DEF Ranked, Listed
      <4>4. QED
        BY <4>2, <4>3
    <3>2. CASE q # p
      <4>1. banner[i].placement # q
        <5>1. CASE a.old
          BY <2>4, <2>11, <5>1 DEF i
        <5>2. CASE ~a.old
          BY <2>15, <3>2, <5>2 DEF Listed
        <5>3. QED
          BY <5>1, <5>2
      <4>2. \A k \in BannerIds : \/ banner'[k] = banner[k]
                                 \/ banner[k].placement # q /\ banner'[k].placement # q
        BY <2>8, <4>1 DEF i
      <4>3. bannerCall[c].row.placement # q /\ q \notin untidy
        BY <1>1, <2>12, <3>2 DEF p
      <4>4. QED
        BY <4>2, <4>3, OtherLists
    <3>3. QED
      BY <3>1, <3>2
  <2>18. QED
    BY <1>2, <1>3, <2>4, <2>8, <2>9, <2>12, <2>13, <2>14, <2>16, <2>17, WriteKept
<1>8. QED
  BY <1>6, <1>7

LEMMA ReorderReadKept ==
  ASSUME BannersInv, NEW c \in BannerCalls, NEW p \in Placements, ReorderRead(c, p)
  PROVE  BannersInv'
<1> DEFINE listed == Listed(p)
           n == Cardinality(listed)
<1>1. PICK place \in Bijection(listed, 0..(n - 1)) :
        bannerCall' = [bannerCall EXCEPT ![c] =
          [NoBannerCall EXCEPT !.kind = "reorder",
             !.todo = {x \in Moves : x.id \in listed /\ x.position = place[x.id]},
             !.row = [placement |-> p, position |-> 0]]]
  BY DEF ReorderRead
<1>2. /\ bannerCall[c] = NoBannerCall
      /\ banner' = banner /\ bannersMade' = bannersMade /\ untidy' = untidy
  BY DEF ReorderRead
<1>3. listed \in SUBSET BannerIds /\ n \in 0..MaxBanners
  BY BannersAreFinite DEF Listed
<1>4. /\ place \in [listed -> 0..(n - 1)]
      /\ \A k \in 0..(n - 1) : \E i \in listed : place[i] = k
  BY <1>1 DEF Bijection, Injection, Surjection
<1>5. PICK moves \in SUBSET Moves :
        moves = {x \in Moves : x.id \in listed /\ x.position = place[x.id]}
  OBVIOUS
<1> HIDE DEF n
<1>6. OnePerRow(moves)
  <2>1. \A x, y \in moves : x.id = y.id => x.position = y.position
    BY <1>5
  <2>2. \A x, y \in Moves : x.id = y.id /\ x.position = y.position => x = y
    BY DEF Moves
  <2>3. QED
    BY <1>5, <2>1, <2>2 DEF OnePerRow
<1>7. ASSUME NEW i \in listed
      PROVE  \E x \in moves : x.id = i /\ x.position = place[i]
  <2> DEFINE x == [id |-> i, position |-> place[i]]
  <2>1. place[i] \in 0..MaxBanners
    BY <1>3, <1>4, BannerBoundsAssumption
  <2>2. x \in Moves
    BY <1>3, <2>1 DEF Moves
  <2>3. QED
    BY <1>5, <2>2
<1>8. {x.id : x \in moves} = listed
  BY <1>5, <1>7
<1>9. {x.position : x \in moves} = 0..(n - 1)
  <2>1. \A x \in moves : x.position \in 0..(n - 1)
    BY <1>4, <1>5
  <2>2. \A k \in 0..(n - 1) : \E x \in moves : x.position = k
    BY <1>4, <1>7
  <2>3. QED
    BY <2>1, <2>2
<1> DEFINE q == [placement |-> p, position |-> 0]
<1>10. PICK a \in BannerRequest : a = NoBannerCall
  BY NobodysCall
<1>11. PICK x \in BannerRequest : /\ x = [a EXCEPT !.kind = "reorder"]
                                  /\ x.kind = "reorder" /\ x.id = a.id
  BY OfKind DEF BannerKinds
<1>12. PICK y \in BannerRequest : /\ y = [x EXCEPT !.todo = moves]
                                  /\ y.todo = moves /\ y.kind = x.kind /\ y.id = x.id
  BY OfMoves
<1>13. q \in ReadRow /\ q.placement = p
  BY DEF ReadRow
<1>14. PICK r \in BannerRequest : /\ r = [y EXCEPT !.row = q]
                                  /\ r.row = q /\ r.todo = y.todo /\ r.kind = y.kind
                                  /\ r.id = y.id
  BY <1>13, OfRow
<1>15. r = [NoBannerCall EXCEPT !.kind = "reorder", !.todo = moves, !.row = q]
  BY <1>10, <1>11, <1>12, <1>14, Zenon
<1>16. bannerCall' = [bannerCall EXCEPT ![c] = r]
  BY <1>1, <1>5, <1>15
<1> HIDE DEF q
<1>17. r.kind = "reorder" /\ r.todo = moves /\ r.row.placement = p /\ r.id = 0
  BY <1>10, <1>11, <1>12, <1>13, <1>14, NobodysCall
<1>18. RequestHolds(r) /\ RequestIsFresh(r)
  BY <1>6, <1>8, <1>9, <1>17 DEF RequestHolds, RequestIsFresh, n
<1>19. r.id <= bannersMade /\ untidy \in SUBSET Placements
  BY <1>17, BannerBoundsAssumption DEF BannersInv, BannerTypes
<1>20. \A s \in Placements \ untidy' :
         \/ Ranked(s)
         \/ r.kind \in {"deleted", "renumber"} /\ r.row.placement = s
         \/ \E d \in BannerCalls \ {c} : /\ bannerCall[d].kind \in {"deleted", "renumber"}
                                         /\ bannerCall[d].row.placement = s
  BY <1>2, NobodysCall DEF BannersInv, Renumbering
<1>21. QED
  BY <1>2, <1>16, <1>18, <1>19, <1>20, CallKept

LEMMA ReorderSaveKept ==
  ASSUME BannersInv, NEW c \in BannerCalls, ReorderSave(c)
  PROVE  BannersInv'
<1>1. PICK a \in BannerRequest : a = bannerCall[c]
  BY DEF BannersInv, BannerTypes
<1> DEFINE ids == {x.id : x \in a.todo}
           p == a.row.placement
           At(i) == (CHOOSE x \in a.todo : x.id = i).position
<1>2. /\ a.kind = "reorder"
      /\ IF ids \subseteq Listed(p)
         THEN /\ banner' = [i \in BannerIds |->
                   IF i \in ids THEN [placement |-> p, position |-> At(i)] ELSE banner[i]]
              /\ Wrote(c, NoBannerCall)
              /\ untidy' = IF ids = Listed(p) THEN untidy \ {p} ELSE untidy \cup {p}
         ELSE /\ bannerCall' = [bannerCall EXCEPT ![c] = NoBannerCall]
              /\ UNCHANGED <<banner, untidy>>
      /\ bannersMade' = bannersMade
  BY <1>1 DEF ReorderSave
<1>3. /\ p \in Placements /\ OnePerRow(a.todo) /\ a.todo \in SUBSET Moves
      /\ {x.position : x \in a.todo} = 0..(Cardinality(ids) - 1)
  BY <1>1, <1>2 DEF BannersInv, RequestHolds, BannerRequest
<1>4. untidy \in SUBSET Placements /\ bannersMade \in 0..MaxBanners /\ BannerTypes
  BY DEF BannersInv, BannerTypes
<1>5. CASE ~(ids \subseteq Listed(p))
  <2>1. \A q \in Placements \ untidy' :
          Ranked(q) \/ bannerCall[c].kind \notin {"deleted", "renumber"}
    BY <1>1, <1>2
  <2>2. QED
    BY <1>2, <1>4, <1>5, <2>1, EndKept
<1>6. CASE ids \subseteq Listed(p)
  <2>1. \A x \in a.todo : At(x.id) = x.position
    <3>1. ASSUME NEW x \in a.todo
          PROVE  At(x.id) = x.position
      <4>1. PICK y : y = CHOOSE z \in a.todo : z.id = x.id
        OBVIOUS
      <4>2. y \in a.todo /\ y.id = x.id
        BY <4>1
      <4>3. y = x
        BY <1>3, <4>2 DEF OnePerRow
      <4>4. QED
        BY <4>1, <4>3
    <3>2. QED
      BY <3>1
  <2>2. \A i \in ids : At(i) \in 0..MaxBanners
    BY <1>3, <2>1 DEF Moves
  <2>3. {At(i) : i \in ids} = 0..(Cardinality(ids) - 1)
    <3> HIDE DEF At
    <3>1. \A i \in ids : \E x \in a.todo : At(i) = x.position
      BY <2>1
    <3>2. \A x \in a.todo : \E i \in ids : At(i) = x.position
      BY <2>1
    <3>3. {At(i) : i \in ids} = {x.position : x \in a.todo}
      BY <3>1, <3>2
    <3>4. QED
      BY <1>3, <3>3
  <2>4. banner' = [i \in BannerIds |->
           IF i \in ids THEN [placement |-> p, position |-> At(i)] ELSE banner[i]]
    BY <1>2, <1>6
  <2> HIDE DEF At
  <2>5. /\ banner' \in [BannerIds -> BannerRow \cup {NoBanner}]
        /\ \A i \in BannerIds : i \notin ids => banner'[i] = banner[i]
        /\ \A i \in BannerIds : i \in ids => banner'[i].placement = p
                                             /\ banner'[i].position = At(i)
    BY <1>3, <1>4, <2>2, <2>4 DEF BannerTypes, BannerRow
  <2>6. \A i \in ids : i \in BannerIds /\ banner[i].placement = p
    BY <1>6 DEF Listed
  <2>7. \A i \in BannerIds : i > bannersMade' => banner'[i] = NoBanner
    <3>1. \A i \in ids : ~(i > bannersMade)
      <4>1. NoBanner.placement # p
        BY <1>3, PlacementsAssumption DEF NoBanner
      <4>2. QED
        BY <1>4, <2>6, <4>1 DEF BannerTypes
    <3>2. QED
      BY <1>2, <1>4, <2>5, <3>1 DEF BannerTypes
  <2>8. untidy' \in SUBSET Placements
    BY <1>2, <1>3, <1>4, <1>6
  <2>9. ASSUME NEW q \in Placements \ untidy'
        PROVE  \/ Ranked(q)'
               \/ \E d \in BannerCalls \ {c} : /\ bannerCall[d].kind \in {"deleted", "renumber"}
                                               /\ bannerCall[d].row.placement = q
    <3>1. CASE q = p
      <4>1. ids = Listed(p)
        BY <1>2, <1>6, <3>1
      <4>2. Listed(p)' = ids
        BY <2>5, <4>1 DEF Listed
      <4>3. {banner'[i].position : i \in ids} = {At(i) : i \in ids}
        BY <2>5, <2>6
      <4>4. QED
        BY <2>3, <3>1, <4>2, <4>3 DEF Ranked, Listed
    <3>2. CASE q # p
      <4>1. q \notin untidy
        BY <1>2, <1>6, <3>2
      <4>2. \A i \in BannerIds : \/ banner'[i] = banner[i]
                                 \/ banner[i].placement # q /\ banner'[i].placement # q
        BY <2>5, <2>6, <3>2
      <4>3. bannerCall[c].kind \notin {"deleted", "renumber"}
        BY <1>1, <1>2
      <4>4. QED
        BY <4>1, <4>2, <4>3, OtherLists
    <3>3. QED
      BY <3>1, <3>2
  <2>10. RequestIsFresh(NoBannerCall)'
    BY DEF RequestIsFresh, NoBannerCall
  <2>11. NoBannerCall.id <= bannersMade' /\ bannersMade <= bannersMade'
    BY <1>2, <1>4, NobodysCall, BannerBoundsAssumption
  <2>12. Wrote(c, NoBannerCall) /\ bannersMade' \in 0..MaxBanners
    BY <1>2, <1>4, <1>6
  <2>13. QED
    BY <2>5, <2>7, <2>8, <2>9, <2>10, <2>11, <2>12, NobodysCall, WriteKept
<1>7. QED
  BY <1>5, <1>6

LEMMA BannersInvInit == BannersInit => BannersInv
<1> SUFFICES ASSUME BannersInit
             PROVE  BannersInv
  OBVIOUS
<1>1. BannerTypes
  BY NobodysCall, BannerBoundsAssumption DEF BannersInit, BannerTypes
<1>2. \A c \in BannerCalls : RequestHolds(bannerCall[c]) /\ RequestIsFresh(bannerCall[c])
  BY NobodysCall DEF BannersInit
<1>3. ASSUME NEW p \in Placements
      PROVE  Ranked(p)
  <2>1. Listed(p) = {}
    BY PlacementsAssumption DEF BannersInit, Listed, NoBanner
  <2>2. QED
    BY <2>1, FS_EmptySet DEF Ranked
<1>4. QED
  BY <1>1, <1>2, <1>3 DEF BannersInv

LEMMA BannersInvariance == BannersSpec => []BannersInv
<1>1. ASSUME BannersInv, [BannersNext]_bannersVars
      PROVE  BannersInv'
  <2>1. CASE UNCHANGED bannersVars
    <3>1. /\ banner' = banner /\ bannersMade' = bannersMade
          /\ bannerCall' = bannerCall /\ untidy' = untidy
      BY <2>1 DEF bannersVars
    <3>2. \A c \in BannerCalls : RequestIsFresh(bannerCall[c])'
      <4>1. ASSUME NEW c \in BannerCalls
            PROVE  RequestIsFresh(bannerCall[c])'
        <5>1. PICK r : r = bannerCall[c]
          OBVIOUS
        <5>2. RequestIsFresh(r)
          BY <1>1, <5>1 DEF BannersInv
        <5>3. RequestIsFresh(r)'
          BY <3>1, <5>2, SameRows DEF RequestIsFresh
        <5>4. QED
          BY <3>1, <5>1, <5>3 DEF RequestIsFresh
      <4>2. QED
        BY <4>1
    <3>3. \A c \in BannerCalls : RequestHolds(bannerCall[c])'
      BY <1>1, <3>1 DEF BannersInv, RequestHolds
    <3>4. \A p \in Placements : Ranked(p) => Ranked(p)'
      BY <3>1, RankedKept
    <3>5. \A p \in Placements : Renumbering(p) => Renumbering(p)'
      BY <3>1 DEF Renumbering
    <3>6. BannerTypes'
      BY <1>1, <3>1 DEF BannersInv, BannerTypes
    <3>7. QED
      BY <1>1, <3>1, <3>2, <3>3, <3>4, <3>5, <3>6 DEF BannersInv
  <2>2. CASE BannersNext
    <3>1. PICK c \in BannerCalls :
            \/ CreateSave(c) \/ DeleteRow(c) \/ DeleteList(c) \/ DeleteRenumber(c)
            \/ ReorderSave(c)
            \/ \E p \in Placements : CreateRead(c, p) \/ ReorderRead(c, p)
            \/ \E i \in BannerIds : EditRead(c, i) \/ DeleteRead(c, i)
            \/ \E p \in Placements, n \in {0, bannerCall[c].row.position} :
                 n <= MaxBanners /\ EditSave(c, [placement |-> p, position |-> n])
      BY <2>2 DEF BannersNext
    <3>2. CASE CreateSave(c)
      BY <1>1, <3>2, CreateSaveKept
    <3>3. CASE DeleteRow(c)
      BY <1>1, <3>3, DeleteRowKept
    <3>4. CASE DeleteList(c)
      BY <1>1, <3>4, DeleteListKept
    <3>5. CASE DeleteRenumber(c)
      BY <1>1, <3>5, DeleteRenumberKept
    <3>6. CASE ReorderSave(c)
      BY <1>1, <3>6, ReorderSaveKept
    <3>7. CASE \E p \in Placements : CreateRead(c, p) \/ ReorderRead(c, p)
      BY <1>1, <3>7, CreateReadKept, ReorderReadKept
    <3>8. CASE \E i \in BannerIds : EditRead(c, i) \/ DeleteRead(c, i)
      BY <1>1, <3>8, EditReadKept, DeleteReadKept
    <3>9. ASSUME NEW p \in Placements, NEW n \in {0, bannerCall[c].row.position},
                 n <= MaxBanners, EditSave(c, [placement |-> p, position |-> n])
          PROVE  BannersInv'
      <4>1. bannerCall[c].kind # "none"
        BY <3>9 DEF EditSave
      <4>2. bannerCall[c].row.position \in Nat
        BY <1>1, <4>1, RequestRows
      <4>3. n \in 0..MaxBanners
        BY <3>9, <4>2, BannerBoundsAssumption
      <4>4. PICK row \in BannerRow : row = [placement |-> p, position |-> n]
        BY <4>3 DEF BannerRow
      <4>5. QED
        BY <1>1, <3>9, <4>4, EditSaveKept
    <3>10. QED
      BY <3>1, <3>2, <3>3, <3>4, <3>5, <3>6, <3>7, <3>8, <3>9
  <2>3. QED
    BY <1>1, <2>1, <2>2
<1>2. QED
  BY <1>1, BannersInvInit, PTL DEF BannersSpec

\* The rows of the banners and what the requests hold (a part of
\* SubsystemsTypeOK).
THEOREM BannerTypesHold == BannersSpec => []BannersTypeOK
<1>1. BannersInv => BannersTypeOK
  BY DEF BannersInv, BannerTypes, BannersTypeOK, BannerRequest, BannerKinds, ReadRow
<1>2. QED
  BY <1>1, BannersInvariance, PTL

\* A list that no request has written over unseen is numbered 0, 1, 2, ...
THEOREM BannersInOrder == BannersSpec => []PositionsAreRanks
<1>1. BannersInv => PositionsAreRanks
  BY DEF BannersInv, PositionsAreRanks, Renumbering, Ranked
<1>2. QED
  BY <1>1, BannersInvariance, PTL
-----------------------------------------------------------------------------
(* Dashboard: every write that is committed was begun, because each writer *)
(* in a transaction stands for one that is not committed yet.              *)

Pending == {w \in Writers : writer[w] \in {"sale", "operator"}}
DashboardInv == DashboardTypeOK /\ orders + Cardinality(Pending) <= begun

LEMMA PendingIsFinite ==
  ASSUME NEW S \in SUBSET Writers
  PROVE  IsFiniteSet(S) /\ Cardinality(S) \in Nat
  BY WritersAssumption, FS_Subset, FS_CardinalityType

\* A request that read the aggregate is in one of the shapes of its steps.
LEMMA ReaderShapes ==
  ASSUME NEW s \in ReaderStates
  PROVE  /\ s.step \in {"missed", "queried", "computed"} => s.key \in Keys /\ s.filter \in Filters
         /\ s.step = "queried" => s.first \in 0..MaxWrites
         /\ s.step = "computed" => s.entry \in Aggregates
  BY DEF ReaderStates

\* The mark of the period's entry is true or false after every step.
LEMMA MarkStaysBoolean ==
  ASSUME DashboardInv, DashboardNext
  PROVE  overtaken' \in BOOLEAN
<1>1. overtaken \in BOOLEAN
  BY DEF DashboardInv, DashboardTypeOK
<1>2. ASSUME NEW r \in Readers, Read(r)
      PROVE  overtaken' \in BOOLEAN
  <2>1. CASE Store(r)
    <3>1. \/ overtaken' = overtaken
          \/ overtaken' = (\/ \E w \in Writers : writer[w] = "sale"
                           \/ reader[r].entry.first # orders \/ reader[r].entry.last # orders)
      BY <2>1 DEF Store
    <3>2. QED
      BY <1>1, <3>1
  <2>2. CASE ~Store(r)
    BY <1>1, <1>2, <2>2 DEF Read, Get, Query, QueryRest, Leave
  <2>3. QED
    BY <2>1, <2>2
<1>3. ASSUME NEW w \in Writers, Write(w)
      PROVE  overtaken' \in BOOLEAN
  BY <1>1, <1>3 DEF Write, Save, Commit, SaveShipping, Signal, AnswerOrder, Abandon, Invalidate
<1>4. ASSUME NEW k \in Keys, Expire(k)
      PROVE  overtaken' \in BOOLEAN
  BY <1>4 DEF Expire
<1>5. QED
  BY <1>2, <1>3, <1>4 DEF DashboardNext

\* A step of a reader changes neither orders nor writers.
LEMMA ReadKeepsTypes ==
  ASSUME DashboardInv, NEW r \in Readers, Read(r), overtaken' \in BOOLEAN
  PROVE  DashboardInv'
<1>1. /\ reader \in [Readers -> ReaderStates] /\ reader[r] \in ReaderStates
      /\ orders \in 0..MaxWrites
      /\ cache \in [Keys -> Aggregates \cup {Empty}]
  BY DashboardAssumption DEF DashboardInv, DashboardTypeOK
<1>2. ASSUME NEW s \in ReaderStates, reader' = [reader EXCEPT ![r] = s],
             UNCHANGED <<orders, begun, writer>>,
             cache' \in [Keys -> Aggregates \cup {Empty}]
      PROVE  DashboardInv'
  BY <1>1, <1>2 DEF DashboardInv, DashboardTypeOK, Pending
<1>3. ASSUME NEW k \in Keys, NEW f \in Filters, Get(r, k, f)
      PROVE  DashboardInv'
  <2>1. CASE cache[k] = Empty
    <3>1. [step |-> "missed", key |-> k, filter |-> f] \in ReaderStates
      BY DEF ReaderStates
    <3>2. QED
      BY <1>1, <1>2, <1>3, <2>1, <3>1 DEF Get
  <2>2. CASE cache[k] # Empty
    <3>1. cache[k] \in Aggregates
      BY <1>1, <2>2
    <3>2. [step |-> "answered", key |-> k, filter |-> f, entry |-> cache[k]] \in ReaderStates
      BY <3>1 DEF ReaderStates
    <3>3. QED
      BY <1>1, <1>2, <1>3, <2>2, <3>2 DEF Get
  <2>3. QED
    BY <2>1, <2>2
<1>4. ASSUME Query(r)
      PROVE  DashboardInv'
  <2>1. [step |-> "queried", key |-> reader[r].key, filter |-> reader[r].filter,
         first |-> orders] \in ReaderStates
    BY <1>1, <1>4, ReaderShapes DEF Query, ReaderStates
  <2>2. QED
    BY <1>1, <1>2, <1>4, <2>1 DEF Query
<1>5. ASSUME QueryRest(r)
      PROVE  DashboardInv'
  <2>1. [of |-> reader[r].filter, first |-> reader[r].first, last |-> orders] \in Aggregates
    BY <1>1, <1>5, ReaderShapes DEF QueryRest, Aggregates
  <2>2. [step |-> "computed", key |-> reader[r].key, filter |-> reader[r].filter,
         entry |-> [of |-> reader[r].filter, first |-> reader[r].first, last |-> orders]]
          \in ReaderStates
    BY <1>1, <1>5, <2>1, ReaderShapes DEF QueryRest, ReaderStates
  <2>3. QED
    BY <1>1, <1>2, <1>5, <2>2 DEF QueryRest
<1>6. ASSUME Store(r)
      PROVE  DashboardInv'
  <2>1. reader[r] \in [step : {"computed", "answered"}, key : Keys, filter : Filters,
                       entry : Aggregates]
    BY <1>1, <1>6 DEF Store, ReaderStates
  <2>2. PICK s \in [step : {"computed", "answered"}, key : Keys, filter : Filters,
                    entry : Aggregates] : s = reader[r]
    BY <2>1
  <2>3. [s EXCEPT !.step = "answered"] \in ReaderStates
    BY DEF ReaderStates
  <2>4. /\ reader' = [reader EXCEPT ![r] = [s EXCEPT !.step = "answered"]]
        /\ cache' = [cache EXCEPT ![s.key] = s.entry]
        /\ UNCHANGED <<orders, begun, writer>>
    BY <1>6, <2>2 DEF Store
  <2>5. cache' \in [Keys -> Aggregates \cup {Empty}]
    BY <1>1, <2>4
  <2>6. QED
    BY <1>2, <2>3, <2>4, <2>5
<1>7. ASSUME Leave(r)
      PROVE  DashboardInv'
  <2>1. [step |-> "idle"] \in ReaderStates
    BY DEF ReaderStates
  <2>2. QED
    BY <1>1, <1>2, <1>7, <2>1 DEF Leave
<1>8. QED
  BY <1>3, <1>4, <1>5, <1>6, <1>7 DEF Read

\* A writer begins, ends, or moves on.
LEMMA WriteKeepsTypes ==
  ASSUME DashboardInv, NEW w \in Writers, Write(w), overtaken' \in BOOLEAN
  PROVE  DashboardInv'
<1>1. /\ writer \in [Writers -> {"idle", "sale", "operator", "saved", "answering"}]
      /\ cache \in [Keys -> Aggregates \cup {Empty}]
      /\ reader \in [Readers -> ReaderStates]
      /\ orders \in Nat /\ begun \in Nat /\ begun <= MaxWrites /\ orders <= begun
      /\ orders + Cardinality(Pending) <= begun
  BY DashboardAssumption DEF DashboardInv, DashboardTypeOK
<1>2. Cardinality(Pending) \in Nat /\ IsFiniteSet(Pending)
  BY PendingIsFinite DEF Pending
<1>3. [cache EXCEPT !["period"] = Empty] \in [Keys -> Aggregates \cup {Empty}]
  BY <1>1
<1>4. ASSUME cache' \in [Keys -> Aggregates \cup {Empty}], reader' = reader,
             writer' \in [Writers -> {"idle", "sale", "operator", "saved", "answering"}],
             orders' \in Nat, begun' \in Nat, begun' <= MaxWrites,
             orders' + Cardinality(Pending') <= begun'
      PROVE  DashboardInv'
  <2>1. Cardinality(Pending') \in Nat
    <3>1. Pending' \in SUBSET Writers
      BY DEF Pending
    <3>2. QED
      BY <3>1, PendingIsFinite
  <2>2. orders' \in 0..begun' /\ begun' \in 0..MaxWrites
    BY <1>4, <2>1
  <2>3. QED
    BY <1>1, <1>4, <2>2 DEF DashboardInv, DashboardTypeOK
<1>5. ASSUME NEW kind \in {"sale", "operator"}, Save(w, kind)
      PROVE  DashboardInv'
  <2>1. /\ writer[w] = "idle" /\ begun < MaxWrites /\ begun' = begun + 1
        /\ orders' = orders /\ reader' = reader
        /\ cache' = [cache EXCEPT !["period"] = Empty]
        /\ writer' = [writer EXCEPT ![w] = kind]
    BY <1>5 DEF Save, Invalidate
  <2>2. Pending' = Pending \cup {w} /\ w \notin Pending
    BY <1>1, <2>1 DEF Pending
  <2>3. Cardinality(Pending') = Cardinality(Pending) + 1
    BY <1>2, <2>2, FS_AddElement
  <2>4. orders' + Cardinality(Pending') <= begun' /\ begun' <= MaxWrites
    BY <1>1, <1>2, <2>1, <2>3, DashboardAssumption
  <2>5. QED
    BY <1>1, <1>3, <1>4, <2>1, <2>4
<1>6. ASSUME writer[w] \in {"sale", "operator"},
             writer' = [writer EXCEPT ![w] = IF @ = "sale" THEN "idle" ELSE "answering"]
      PROVE  /\ Cardinality(Pending') = Cardinality(Pending) - 1
             /\ writer' \in [Writers -> {"idle", "sale", "operator", "saved", "answering"}]
  <2>1. Pending' = Pending \ {w} /\ w \in Pending
    BY <1>1, <1>6 DEF Pending
  <2>2. Cardinality(Pending') = Cardinality(Pending) - 1
    BY <1>2, <2>1, FS_RemoveElement
  <2>3. QED
    BY <1>1, <1>6, <2>2
<1>7. ASSUME Commit(w)
      PROVE  DashboardInv'
  <2>1. /\ orders' = orders + 1 /\ UNCHANGED <<begun, cache, reader>>
        /\ Cardinality(Pending') = Cardinality(Pending) - 1
        /\ writer' \in [Writers -> {"idle", "sale", "operator", "saved", "answering"}]
    BY <1>6, <1>7 DEF Commit
  <2>2. orders' + Cardinality(Pending') <= begun'
    BY <1>1, <1>2, <2>1
  <2>3. QED
    BY <1>1, <1>4, <2>1, <2>2
<1>8. ASSUME SaveShipping(w)
      PROVE  DashboardInv'
  <2>1. /\ begun < MaxWrites /\ begun' = begun + 1 /\ orders' = orders + 1
        /\ UNCHANGED <<cache, reader>>
        /\ writer[w] = "idle" /\ writer' = [writer EXCEPT ![w] = "saved"]
    BY <1>8 DEF SaveShipping
  <2>2. Pending' = Pending
    BY <1>1, <2>1 DEF Pending
  <2>3. orders' + Cardinality(Pending') <= begun' /\ begun' <= MaxWrites
    BY <1>1, <1>2, <2>1, <2>2, DashboardAssumption
  <2>4. QED
    BY <1>1, <1>4, <2>1, <2>3
<1>9. ASSUME NEW to \in {"idle", "answering"}, writer' = [writer EXCEPT ![w] = to],
             UNCHANGED <<orders, begun, reader>>,
             cache' \in [Keys -> Aggregates \cup {Empty}]
      PROVE  DashboardInv'
  <2>1. Pending' \in SUBSET Pending
    BY <1>1, <1>9 DEF Pending
  <2>2. Cardinality(Pending') <= Cardinality(Pending) /\ Cardinality(Pending') \in Nat
    BY <1>2, <2>1, FS_Subset, FS_CardinalityType
  <2>3. orders' + Cardinality(Pending') <= begun'
    BY <1>1, <1>2, <1>9, <2>2
  <2>4. QED
    BY <1>1, <1>4, <1>9, <2>3
<1>10. QED
  BY <1>1, <1>3, <1>5, <1>7, <1>8, <1>9 DEF Write, Signal, AnswerOrder, Abandon, Invalidate

\* An entry whose time is over.
LEMMA ExpireKeepsTypes ==
  ASSUME DashboardInv, NEW k \in Keys, Expire(k), overtaken' \in BOOLEAN
  PROVE  DashboardInv'
  BY DEF Expire, DashboardInv, DashboardTypeOK, Pending

LEMMA DashboardInvariance == DashboardSpec => []DashboardInv
<1>1. DashboardInit => DashboardInv
  <2>1. SUFFICES ASSUME DashboardInit PROVE DashboardInv
    OBVIOUS
  <2>2. DashboardTypeOK
    <3>1. /\ orders \in 0..begun /\ begun \in 0..MaxWrites
          /\ cache \in [Keys -> Aggregates \cup {Empty}]
          /\ reader \in [Readers -> ReaderStates]
          /\ writer \in [Writers -> {"idle", "sale", "operator", "saved", "answering"}]
      BY <2>1, DashboardAssumption DEF DashboardInit, ReaderStates
    <3>2. overtaken \in BOOLEAN
      BY <2>1 DEF DashboardInit
    <3>3. QED
      BY <3>1, <3>2 DEF DashboardTypeOK
  <2>3. Pending = {}
    BY <2>1 DEF DashboardInit, Pending
  <2>4. Cardinality(Pending) = 0
    BY <2>3, FS_EmptySet
  <2>5. QED
    BY <2>1, <2>2, <2>4 DEF DashboardInit, DashboardInv
<1>2. DashboardInv /\ [DashboardNext]_dashboardVars => DashboardInv'
  <2>1. ASSUME DashboardInv, UNCHANGED dashboardVars
        PROVE  DashboardInv'
    BY <2>1 DEF dashboardVars, DashboardInv, DashboardTypeOK, Pending
  <2>2. ASSUME DashboardInv, DashboardNext
        PROVE  DashboardInv'
    <3>1. overtaken' \in BOOLEAN
      BY <2>2, MarkStaysBoolean
    <3>2. QED
      BY <2>2, <3>1, ReadKeepsTypes, WriteKeepsTypes, ExpireKeepsTypes DEF DashboardNext
  <2>3. QED
    BY <2>1, <2>2
<1>3. QED
  BY <1>1, <1>2, PTL DEF DashboardSpec

\* Every aggregate ever cached or answered counts writes that were begun, and
\* no more are committed than were begun (_cached_dashboard_aggregate and
\* signals.py), for any number of workers and cached filters.
THEOREM DashboardTypes == DashboardSpec => []DashboardTypeOK
<1>1. DashboardInv => DashboardTypeOK
  BY DEF DashboardInv
<1>2. QED
  BY <1>1, DashboardInvariance, PTL

\* Figures that nobody is about to bust, and that are not overtaken, have seen
\* every write, and no sale is left to commit behind them.
Busting == \E w \in Writers : writer[w] \in {"saved", "answering"}
Current ==
  /\ cache["period"].first = orders /\ cache["period"].last = orders
  /\ \A w \in Writers : writer[w] # "sale"
PeriodInv == cache["period"] = Empty \/ overtaken \/ Busting \/ Current

LEMMA ReadKeepsPeriod ==
  ASSUME DashboardInv, PeriodInv, NEW r \in Readers, Read(r)
  PROVE  PeriodInv'
<1>1. cache \in [Keys -> Aggregates \cup {Empty}] /\ reader \in [Readers -> ReaderStates]
  BY DEF DashboardInv, DashboardTypeOK
<1>2. CASE Store(r)
  <2>1. /\ reader[r].key \in Keys /\ cache' = [cache EXCEPT ![reader[r].key] = reader[r].entry]
        /\ UNCHANGED <<orders, writer>>
    BY <1>1, <1>2, ReaderShapes DEF Store
  <2>2. CASE reader[r].key # "period"
    <3>1. cache'["period"] = cache["period"] /\ overtaken' = overtaken
      BY <1>1, <1>2, <2>1, <2>2 DEF Store, Keys
    <3>2. QED
      BY <2>1, <3>1 DEF PeriodInv, Busting, Current
  <2>3. CASE reader[r].key = "period"
    <3>1. cache'["period"] = reader[r].entry
      BY <1>1, <2>1, <2>3
    <3>2. overtaken' = (\/ \E w \in Writers : writer[w] = "sale"
                        \/ reader[r].entry.first # orders \/ reader[r].entry.last # orders)
      BY <1>2, <2>3 DEF Store
    <3>3. QED
      BY <2>1, <3>1, <3>2 DEF PeriodInv, Current
  <2>4. QED
    BY <2>2, <2>3
<1>3. CASE ~Store(r)
  <2>1. UNCHANGED <<orders, cache, writer, overtaken>>
    BY <1>3 DEF Read, Get, Query, QueryRest, Leave
  <2>2. QED
    BY <2>1 DEF PeriodInv, Busting, Current
<1>4. QED
  BY <1>2, <1>3

LEMMA WriteKeepsPeriod ==
  ASSUME DashboardInv, PeriodInv, NEW w \in Writers, Write(w)
  PROVE  PeriodInv'
<1>1. /\ cache \in [Keys -> Aggregates \cup {Empty}] /\ DOMAIN writer = Writers
      /\ writer \in [Writers -> {"idle", "sale", "operator", "saved", "answering"}]
  BY DEF DashboardInv, DashboardTypeOK
<1>2. ASSUME Invalidate
      PROVE  PeriodInv'
  <2>1. cache'["period"] = Empty
    BY <1>1, <1>2 DEF Invalidate, Keys
  <2>2. QED
    BY <2>1 DEF PeriodInv
\* Whoever busts the entry of another writer still does.
<1>3. ASSUME UNCHANGED cache, overtaken' = overtaken,
             \A u \in Writers \ {w} : writer'[u] = writer[u],
             writer'[w] \in {"saved", "answering"}
      PROVE  PeriodInv'
  BY <1>3 DEF PeriodInv, Busting
<1>4. CASE Commit(w) /\ writer[w] = "sale"
  <2>1. /\ UNCHANGED <<cache, overtaken>> /\ \A u \in Writers \ {w} : writer'[u] = writer[u]
    BY <1>1, <1>4 DEF Commit
  <2>2. ~Current
    BY <1>4 DEF Current
  <2>3. Busting => Busting'
    BY <1>4, <2>1 DEF Busting
  <2>4. QED
    BY <2>1, <2>2, <2>3 DEF PeriodInv
<1>5. CASE Commit(w) /\ writer[w] # "sale"
  <2>1. /\ UNCHANGED <<cache, overtaken>> /\ writer'[w] = "answering"
        /\ \A u \in Writers \ {w} : writer'[u] = writer[u]
    BY <1>1, <1>5 DEF Commit
  <2>2. QED
    BY <1>3, <2>1
<1>6. CASE SaveShipping(w)
  <2>1. /\ UNCHANGED <<cache, overtaken>> /\ writer'[w] = "saved"
        /\ \A u \in Writers \ {w} : writer'[u] = writer[u]
    BY <1>1, <1>6 DEF SaveShipping
  <2>2. QED
    BY <1>3, <2>1
<1>7. CASE Abandon(w)
  <2>1. /\ UNCHANGED <<orders, cache>> /\ writer'[w] = "idle"
        /\ \A u \in Writers \ {w} : writer'[u] = writer[u]
        /\ overtaken' = (overtaken \/ (writer[w] \in {"saved", "answering"} /\ cache["period"] # Empty))
    BY <1>1, <1>7 DEF Abandon
  <2>2. CASE writer[w] \in {"saved", "answering"}
    BY <2>1, <2>2 DEF PeriodInv
  <2>3. CASE writer[w] \notin {"saved", "answering"}
    <3>1. (Busting => Busting') /\ (Current => Current') /\ (overtaken => overtaken')
      BY <2>1, <2>3 DEF Busting, Current
    <3>2. QED
      BY <2>1, <3>1 DEF PeriodInv
  <2>4. QED
    BY <2>2, <2>3
<1>8. QED
  BY <1>2, <1>4, <1>5, <1>6, <1>7 DEF Write, Save, Signal, AnswerOrder

LEMMA ExpireKeepsPeriod ==
  ASSUME DashboardInv, PeriodInv, NEW k \in Keys, Expire(k)
  PROVE  PeriodInv'
<1>1. /\ cache \in [Keys -> Aggregates \cup {Empty}] /\ UNCHANGED <<orders, writer>>
      /\ cache' = [cache EXCEPT ![k] = Empty] /\ overtaken' = (overtaken /\ k # "period")
  BY DEF Expire, DashboardInv, DashboardTypeOK
<1>2. CASE k = "period"
  <2>1. cache'["period"] = Empty
    BY <1>1, <1>2
  <2>2. QED
    BY <2>1 DEF PeriodInv
<1>3. CASE k # "period"
  <2>1. cache'["period"] = cache["period"] /\ (overtaken => overtaken')
    BY <1>1, <1>3 DEF Keys
  <2>2. QED
    BY <1>1, <2>1 DEF PeriodInv, Busting, Current
<1>4. QED
  BY <1>2, <1>3

\* Stale figures of a period are about to be busted, or were overtaken by a write
\* while they were queried, or left by a worker that died (_cached_dashboard_
\* aggregate, signals.py and the two order endpoints), for any number of workers.
THEOREM StaleIsExplained == DashboardSpec => []StalenessExplained
<1>1. DashboardInit => PeriodInv
  BY DEF DashboardInit, PeriodInv, Keys
<1>2. DashboardInv /\ PeriodInv /\ [DashboardNext]_dashboardVars => PeriodInv'
  <2>1. ASSUME PeriodInv, UNCHANGED dashboardVars
        PROVE  PeriodInv'
    BY <2>1 DEF dashboardVars, PeriodInv, Busting, Current
  <2>2. QED
    BY <2>1, ReadKeepsPeriod, WriteKeepsPeriod, ExpireKeepsPeriod DEF DashboardNext
<1>3. PeriodInv => StalenessExplained
  BY DEF PeriodInv, StalenessExplained, Stale, Busting, Current
<1>4. QED
  BY <1>1, <1>2, <1>3, DashboardInvariance, PTL DEF DashboardSpec
-----------------------------------------------------------------------------
(* RowLocks, the paths that are no strays: whoever wants a variant has its *)
(* product and whoever has a variant has its product, so among them nobody *)
(* waits for a variant; what is waited for is an order, which is locked    *)
(* first of all, or a product, and those are locked by id.  A circle would *)
(* have to rise for ever.                                                  *)

\* What the plans have in common: an order is locked before anything else, a
\* variant after its product, and a product after those with a smaller id
\* only, unless it is locked already.
Orderly(plan) ==
  /\ \A x \in plan : \A o \in Orders :
       x.row = OrderRow(o) => \A y \in plan : ~Earlier(y, x)
  /\ \A x \in plan : \A v \in Variants :
       x.row = VariantRow(v) =>
         \E y \in plan : Earlier(y, x) /\ y.row = ProductRow(ProductOf[v])
  /\ \A x \in plan : \A p \in Products :
       x.row = ProductRow(p) =>
         \/ \E y \in plan : Earlier(y, x) /\ y.row = x.row
         \/ \A y \in plan, q \in Products : Earlier(y, x) /\ y.row = ProductRow(q) => q < p

\* What a transaction has locked of a plan, and what is left of it.
Taking(plan, left, locked) ==
  /\ left \subseteq plan
  /\ locked = {x.row : x \in plan \ left}
  /\ \A x \in plan \ left, y \in left : Earlier(x, y)

LocksInv ==
  /\ todo \in [Transactions -> SUBSET Steps]
  /\ held \in [Transactions -> SUBSET Rows]
  /\ strays \in SUBSET Transactions
  /\ \A t, u \in Transactions : t # u => held[t] \cap held[u] = {}
  /\ \A t \in Transactions \ strays :
       \E plan \in SUBSET Steps : Orderly(plan) /\ Taking(plan, todo[t], held[t])

LEMMA EarlierIsAnOrder ==
  ASSUME NEW x \in Steps, NEW y \in Steps
  PROVE  Earlier(x, y) => ~Earlier(y, x)
  BY DEF Earlier, Steps

\* The shape of a plan that locks an order, then products, then variants.
LEMMA StepFields ==
  ASSUME NEW stage \in 0..3, NEW id \in Nat, NEW part \in 0..1, NEW row \in Rows
  PROVE  /\ LockStep(stage, id, part, row) \in Steps
         /\ LockStep(stage, id, part, row).stage = stage
         /\ LockStep(stage, id, part, row).id = id
         /\ LockStep(stage, id, part, row).part = part
         /\ LockStep(stage, id, part, row).row = row
  BY DEF LockStep, Steps

LEMMA RowKinds ==
  /\ \A o \in Orders : OrderRow(o) \in Rows
  /\ \A p \in Products : ProductRow(p) \in Rows /\ CategoryRow(p) \in Rows
  /\ \A v \in Variants : VariantRow(v) \in Rows
  /\ \A o \in Orders, p \in Products : OrderRow(o) # ProductRow(p) /\ OrderRow(o) # CategoryRow(p)
  /\ \A o \in Orders, v \in Variants : OrderRow(o) # VariantRow(v)
  /\ \A p \in Products, v \in Variants : ProductRow(p) # VariantRow(v) /\ CategoryRow(p) # VariantRow(v)
  /\ \A p, q \in Products : ProductRow(p) # CategoryRow(q)
  /\ \A p, q \in Products : ProductRow(p) = ProductRow(q) => p = q
  /\ \A v, w \in Variants : VariantRow(v) = VariantRow(w) => v = w
  BY DEF OrderRow, ProductRow, CategoryRow, VariantRow, Rows

\* What the queries of a plan are: the order first, the products by id, then
\* the variants of these products, perhaps with their products.
Shaped(plan) ==
  /\ plan \in SUBSET Steps
  /\ \A x \in plan : \A o \in Orders :
       x.row = OrderRow(o) => x.stage = 0 /\ x.id = 0 /\ x.part = 0
  /\ \A x \in plan : \A p \in Products :
       x.row = ProductRow(p) =>
         \/ x.stage = 1 /\ x.id = p /\ x.part = 0
         \/ x.stage = 2 /\ \E y \in plan : y.stage = 1 /\ y.row = ProductRow(p)
  /\ \A x \in plan : \A v \in Variants :
       x.row = VariantRow(v) =>
         /\ x.stage > 1
         /\ \E y \in plan : y.stage = 1 /\ y.row = ProductRow(ProductOf[v])

LEMMA ShapedIsOrderly ==
  ASSUME NEW plan, Shaped(plan)
  PROVE  Orderly(plan)
<1>1. \A x \in plan : x.stage \in Nat /\ x.id \in Nat /\ x.part \in Nat
  BY DEF Shaped, Steps
<1>2. ASSUME NEW x \in plan, NEW o \in Orders, x.row = OrderRow(o), NEW y \in plan
      PROVE  ~Earlier(y, x)
  <2>1. x.stage = 0 /\ x.id = 0 /\ x.part = 0
    BY <1>2 DEF Shaped
  <2>2. QED
    BY <1>1, <2>1 DEF Earlier
<1>3. ASSUME NEW x \in plan, NEW v \in Variants, x.row = VariantRow(v)
      PROVE  \E y \in plan : Earlier(y, x) /\ y.row = ProductRow(ProductOf[v])
  <2>1. PICK y \in plan : y.stage = 1 /\ y.row = ProductRow(ProductOf[v])
    BY <1>3 DEF Shaped
  <2>2. x.stage > 1
    BY <1>3 DEF Shaped
  <2>3. Earlier(y, x)
    BY <1>1, <2>1, <2>2 DEF Earlier
  <2>4. QED
    BY <2>1, <2>3
<1>4. ASSUME NEW x \in plan, NEW p \in Products, x.row = ProductRow(p)
      PROVE  \/ \E y \in plan : Earlier(y, x) /\ y.row = x.row
             \/ \A y \in plan, q \in Products : Earlier(y, x) /\ y.row = ProductRow(q) => q < p
  <2>1. CASE x.stage = 2
    <3>1. PICK y \in plan : y.stage = 1 /\ y.row = ProductRow(p)
      BY <1>4, <2>1 DEF Shaped
    <3>2. Earlier(y, x)
      BY <1>1, <2>1, <3>1 DEF Earlier
    <3>3. QED
      BY <1>4, <3>1, <3>2
  <2>2. CASE x.stage = 1 /\ x.id = p /\ x.part = 0
    <3>1. ASSUME NEW y \in plan, NEW q \in Products, Earlier(y, x), y.row = ProductRow(q)
          PROVE  q < p
      <4>1. (y.stage = 1 /\ y.id = q /\ y.part = 0) \/ y.stage = 2
        BY <3>1 DEF Shaped
      <4>2. QED
        BY <1>1, <2>2, <3>1, <4>1 DEF Earlier
    <3>2. QED
      BY <3>1
  <2>3. QED
    BY <1>4, <2>1, <2>2 DEF Shaped
<1>5. QED
  BY <1>2, <1>3, <1>4 DEF Orderly

\* The queries that the plans are made of.
ProductSteps(ps) == {LockStep(1, p, 0, ProductRow(p)) : p \in ps}
CategorySteps(ps) == {LockStep(1, p, 1, CategoryRow(p)) : p \in ps}
VariantSteps(stage, vs) == {LockStep(stage, v, 0, VariantRow(v)) : v \in vs}
JoinedSteps(vs) == {LockStep(2, v, 1, ProductRow(ProductOf[v])) : v \in vs}
OrderSteps(os) == {LockStep(0, 0, 0, OrderRow(o)) : o \in os}

LEMMA QuerySteps ==
  ASSUME NEW ps \in SUBSET Products, NEW vs \in SUBSET Variants, NEW os \in SUBSET Orders,
         NEW stage \in {2, 3}
  PROVE  /\ \A x \in ProductSteps(ps) : \E p \in ps :
              x \in Steps /\ x.stage = 1 /\ x.id = p /\ x.part = 0 /\ x.row = ProductRow(p)
         /\ \A p \in ps : \E x \in ProductSteps(ps) : x.stage = 1 /\ x.row = ProductRow(p)
         /\ \A x \in CategorySteps(ps) : \E p \in ps : x \in Steps /\ x.row = CategoryRow(p)
         /\ \A x \in VariantSteps(stage, vs) : \E v \in vs :
              x \in Steps /\ x.stage = stage /\ x.row = VariantRow(v)
         /\ \A x \in JoinedSteps(vs) : \E v \in vs :
              x \in Steps /\ x.stage = 2 /\ x.row = ProductRow(ProductOf[v])
         /\ \A x \in OrderSteps(os) : \E o \in os :
              x \in Steps /\ x.stage = 0 /\ x.id = 0 /\ x.part = 0 /\ x.row = OrderRow(o)
<1>1. /\ \A p \in ps : p \in Nat /\ ProductRow(p) \in Rows /\ CategoryRow(p) \in Rows
      /\ \A v \in vs : /\ v \in Nat /\ VariantRow(v) \in Rows
                       /\ ProductRow(ProductOf[v]) \in Rows
      /\ \A o \in os : OrderRow(o) \in Rows
  BY RowKinds, RowLocksAssumption
<1>2. \A p \in ps :
        /\ LockStep(1, p, 0, ProductRow(p)) \in Steps
        /\ LockStep(1, p, 0, ProductRow(p)).stage = 1
        /\ LockStep(1, p, 0, ProductRow(p)).id = p
        /\ LockStep(1, p, 0, ProductRow(p)).part = 0
        /\ LockStep(1, p, 0, ProductRow(p)).row = ProductRow(p)
  BY <1>1, StepFields
<1>3. \A p \in ps : /\ LockStep(1, p, 1, CategoryRow(p)) \in Steps
                    /\ LockStep(1, p, 1, CategoryRow(p)).row = CategoryRow(p)
  BY <1>1, StepFields
<1>4. \A v \in vs :
        /\ LockStep(stage, v, 0, VariantRow(v)) \in Steps
        /\ LockStep(stage, v, 0, VariantRow(v)).stage = stage
        /\ LockStep(stage, v, 0, VariantRow(v)).row = VariantRow(v)
  BY <1>1, StepFields
<1>5. \A v \in vs :
        /\ LockStep(2, v, 1, ProductRow(ProductOf[v])) \in Steps
        /\ LockStep(2, v, 1, ProductRow(ProductOf[v])).stage = 2
        /\ LockStep(2, v, 1, ProductRow(ProductOf[v])).row = ProductRow(ProductOf[v])
  BY <1>1, StepFields
<1>6. \A o \in os :
        /\ LockStep(0, 0, 0, OrderRow(o)) \in Steps
        /\ LockStep(0, 0, 0, OrderRow(o)).stage = 0
        /\ LockStep(0, 0, 0, OrderRow(o)).id = 0
        /\ LockStep(0, 0, 0, OrderRow(o)).part = 0
        /\ LockStep(0, 0, 0, OrderRow(o)).row = OrderRow(o)
  BY <1>1, StepFields
<1>7. /\ \A x \in ProductSteps(ps) : \E p \in ps :
           x \in Steps /\ x.stage = 1 /\ x.id = p /\ x.part = 0 /\ x.row = ProductRow(p)
      /\ \A p \in ps : \E x \in ProductSteps(ps) : x.stage = 1 /\ x.row = ProductRow(p)
  BY <1>2 DEF ProductSteps
<1>8. \A x \in CategorySteps(ps) : \E p \in ps : x \in Steps /\ x.row = CategoryRow(p)
  BY <1>3 DEF CategorySteps
<1>9. \A x \in VariantSteps(stage, vs) : \E v \in vs :
        x \in Steps /\ x.stage = stage /\ x.row = VariantRow(v)
  BY <1>4 DEF VariantSteps
<1>10. \A x \in JoinedSteps(vs) : \E v \in vs :
         x \in Steps /\ x.stage = 2 /\ x.row = ProductRow(ProductOf[v])
  BY <1>5 DEF JoinedSteps
<1>11. \A x \in OrderSteps(os) : \E o \in os :
         x \in Steps /\ x.stage = 0 /\ x.id = 0 /\ x.part = 0 /\ x.row = OrderRow(o)
  BY <1>6 DEF OrderSteps
<1>12. QED
  BY <1>7, <1>8, <1>9, <1>10, <1>11

\* Every plan is made of some of these queries.
AllSteps(os, ps, cs, vs, joined, all) ==
  OrderSteps(os) \cup ProductSteps(ps) \cup CategorySteps(cs)
  \cup VariantSteps(2, vs) \cup JoinedSteps(joined) \cup VariantSteps(3, all)

LEMMA AllStepsShaped ==
  ASSUME NEW os \in SUBSET Orders, NEW ps \in SUBSET Products, NEW cs \in SUBSET Products,
         NEW vs \in SUBSET VariantsOf(ps), NEW joined \in SUBSET VariantsOf(ps),
         NEW all \in SUBSET VariantsOf(ps)
  PROVE  Shaped(AllSteps(os, ps, cs, vs, joined, all))
<1> DEFINE plan == AllSteps(os, ps, cs, vs, joined, all)
<1>1. /\ vs \in SUBSET Variants /\ joined \in SUBSET Variants /\ all \in SUBSET Variants
      /\ \A v \in vs \cup joined \cup all : ProductOf[v] \in ps
  BY DEF VariantsOf
<1>2. /\ \A x \in ProductSteps(ps) : \E p \in ps :
           x \in Steps /\ x.stage = 1 /\ x.id = p /\ x.part = 0 /\ x.row = ProductRow(p)
      /\ \A p \in ps : \E x \in ProductSteps(ps) : x.stage = 1 /\ x.row = ProductRow(p)
      /\ \A x \in OrderSteps(os) : \E o \in os :
           x \in Steps /\ x.stage = 0 /\ x.id = 0 /\ x.part = 0 /\ x.row = OrderRow(o)
  <2>1. 2 \in {2, 3} /\ vs \in SUBSET Variants /\ ps \in SUBSET Products /\ os \in SUBSET Orders
    BY <1>1
  <2>2. /\ \A x \in ProductSteps(ps) : \E p \in ps :
             x \in Steps /\ x.stage = 1 /\ x.id = p /\ x.part = 0 /\ x.row = ProductRow(p)
        /\ \A p \in ps : \E x \in ProductSteps(ps) : x.stage = 1 /\ x.row = ProductRow(p)
    BY <2>1, QuerySteps
  <2>3. \A x \in OrderSteps(os) : \E o \in os :
          x \in Steps /\ x.stage = 0 /\ x.id = 0 /\ x.part = 0 /\ x.row = OrderRow(o)
    BY <2>1, QuerySteps
  <2>4. QED
    BY <2>2, <2>3
<1>3. \A x \in CategorySteps(cs) : \E p \in cs : x \in Steps /\ x.row = CategoryRow(p)
  BY <1>1, QuerySteps
<1>4. \A x \in JoinedSteps(joined) : \E v \in joined :
        x \in Steps /\ x.stage = 2 /\ x.row = ProductRow(ProductOf[v])
  BY <1>1, QuerySteps
<1>5. \A x \in VariantSteps(3, all) : \E v \in all :
        x \in Steps /\ x.stage = 3 /\ x.row = VariantRow(v)
  BY <1>1, QuerySteps
<1>14. \A x \in VariantSteps(2, vs) : \E v \in vs :
         x \in Steps /\ x.stage = 2 /\ x.row = VariantRow(v)
  BY <1>1, QuerySteps
<1>6. ASSUME NEW x \in plan
      PROVE  \/ \E p \in ps : /\ x \in Steps /\ x.stage = 1 /\ x.id = p /\ x.part = 0
                              /\ x.row = ProductRow(p)
             \/ \E o \in os : /\ x \in Steps /\ x.stage = 0 /\ x.id = 0 /\ x.part = 0
                              /\ x.row = OrderRow(o)
             \/ \E p \in cs : x \in Steps /\ x.row = CategoryRow(p)
             \/ \E v \in vs \cup all : x \in Steps /\ x.stage > 1 /\ x.row = VariantRow(v)
             \/ \E v \in joined : x \in Steps /\ x.stage = 2 /\ x.row = ProductRow(ProductOf[v])
  BY <1>2, <1>3, <1>4, <1>5, <1>14 DEF AllSteps
<1>7. \A p \in ps : \E y \in plan : y.stage = 1 /\ y.row = ProductRow(p)
  BY <1>2 DEF AllSteps
<1> HIDE DEF plan
<1>8. \A v \in vs \cup joined \cup all : ProductOf[v] \in Products
  BY <1>1
<1>9. plan \in SUBSET Steps
  BY <1>6
<1>10. ASSUME NEW x \in plan, NEW o \in Orders, x.row = OrderRow(o)
       PROVE  x.stage = 0 /\ x.id = 0 /\ x.part = 0
  BY <1>1, <1>6, <1>8, <1>10, RowKinds
<1>11. ASSUME NEW x \in plan, NEW p \in Products, x.row = ProductRow(p)
       PROVE  \/ x.stage = 1 /\ x.id = p /\ x.part = 0
              \/ x.stage = 2 /\ \E y \in plan : y.stage = 1 /\ y.row = ProductRow(p)
  BY <1>1, <1>6, <1>7, <1>8, <1>11, RowKinds
<1>12. ASSUME NEW x \in plan, NEW v \in Variants, x.row = VariantRow(v)
       PROVE  /\ x.stage > 1
              /\ \E y \in plan : y.stage = 1 /\ y.row = ProductRow(ProductOf[v])
  BY <1>1, <1>6, <1>7, <1>8, <1>12, RowKinds
<1>13. QED
  BY <1>9, <1>10, <1>11, <1>12 DEF Shaped, plan

LEMMA PlansAreOrderly ==
  ASSUME NEW plan \in Plans
  PROVE  plan \in SUBSET Steps /\ Orderly(plan)
<1> DEFINE Made == \E os \in SUBSET Orders, ps \in SUBSET Products, cs \in SUBSET Products :
                   \E vs \in SUBSET VariantsOf(ps), joined \in SUBSET VariantsOf(ps),
                      all \in SUBSET VariantsOf(ps) :
                     plan = AllSteps(os, ps, cs, vs, joined, all)
<1>1. ASSUME NEW os \in SUBSET Orders, NEW ps \in SUBSET Products, NEW cs \in SUBSET Products,
             NEW vs \in SUBSET VariantsOf(ps), NEW joined \in SUBSET VariantsOf(ps),
             NEW all \in SUBSET VariantsOf(ps),
             plan = AllSteps(os, ps, cs, vs, joined, all)
      PROVE  Made
  BY <1>1
<1>2. /\ OrderSteps({}) = {} /\ ProductSteps({}) = {} /\ CategorySteps({}) = {}
      /\ VariantSteps(2, {}) = {} /\ VariantSteps(3, {}) = {} /\ JoinedSteps({}) = {}
  BY DEF OrderSteps, ProductSteps, CategorySteps, VariantSteps, JoinedSteps
<1> HIDE DEF Made
<1>3. ASSUME NEW ps \in SUBSET Products, NEW vs \in SUBSET VariantsOf(ps),
             plan = CheckoutLocks(ps, vs)
      PROVE  Made
  <2>1. plan = ProductSteps(ps) \cup CategorySteps(ps) \cup VariantSteps(2, vs) \cup JoinedSteps(vs)
    BY <1>3 DEF CheckoutLocks, LockCartProducts, LockCartVariants, ById, ProductSteps,
         CategorySteps, VariantSteps, JoinedSteps
  <2>2. plan = AllSteps({}, ps, ps, vs, vs, {})
    BY <1>2, <2>1 DEF AllSteps
  <2>3. QED
    BY <1>1, <2>2
<1>4. ASSUME NEW ps \in SUBSET Products, NEW vs \in SUBSET VariantsOf(ps),
             plan = PdvLocks(ps, vs)
      PROVE  Made
  <2>1. plan = ProductSteps(ps) \cup VariantSteps(3, vs)
    BY <1>4 DEF PdvLocks, ById, ProductSteps, VariantSteps
  <2>2. plan = AllSteps({}, ps, {}, {}, {}, vs)
    BY <1>2, <2>1 DEF AllSteps
  <2>3. QED
    BY <1>1, <2>2
<1>5. ASSUME NEW p \in Products, NEW vs \in SUBSET VariantsOf({p}),
             NEW active \in SUBSET VariantsOf({p}), plan = MovementLocks(p, vs, active)
      PROVE  Made
  <2>1. plan = ProductSteps({p}) \cup VariantSteps(2, vs) \cup VariantSteps(3, active)
    BY <1>5 DEF MovementLocks, ById, ProductSteps, VariantSteps
  <2>2. plan = AllSteps({}, {p}, {}, vs, {}, active)
    BY <1>2, <2>1 DEF AllSteps
  <2>3. QED
    BY <1>1, <2>2
<1>6. ASSUME NEW o \in Orders, NEW ps \in SUBSET Products, NEW vs \in SUBSET VariantsOf(ps),
             plan = CancelLocks(o, ps, vs)
      PROVE  Made
  <2>1. plan = OrderSteps({o}) \cup ProductSteps(ps) \cup VariantSteps(2, vs) \cup JoinedSteps(vs)
    BY <1>6 DEF CancelLocks, LockCartVariants, ById, OrderSteps, ProductSteps, VariantSteps,
         JoinedSteps
  <2>2. plan = AllSteps({o}, ps, {}, vs, vs, {})
    BY <1>2, <2>1 DEF AllSteps
  <2>3. QED
    BY <1>1, <2>2
<1>7. ASSUME NEW p \in Products, plan = FormLocks(p)
      PROVE  Made
  <2>1. plan = ProductSteps({p}) \cup VariantSteps(3, VariantsOf({p}))
    BY <1>7 DEF FormLocks, ById, ProductSteps, VariantSteps
  <2>2. plan = AllSteps({}, {p}, {}, {}, {}, VariantsOf({p}))
    BY <1>2, <2>1 DEF AllSteps
  <2>3. QED
    BY <1>1, <2>2
<1>8. ASSUME NEW o \in Orders, plan = {LockStep(0, 0, 0, OrderRow(o))}
      PROVE  Made
  <2>1. plan = OrderSteps({o})
    BY <1>8 DEF OrderSteps
  <2>2. plan = AllSteps({o}, {}, {}, {}, {}, {})
    BY <1>2, <2>1 DEF AllSteps
  <2>3. QED
    BY <1>1, <2>2
<1>9. ASSUME NEW p \in Products, plan = {LockStep(1, p, 0, ProductRow(p))}
      PROVE  Made
  <2>1. plan = ProductSteps({p})
    BY <1>9 DEF ProductSteps
  <2>2. plan = AllSteps({}, {p}, {}, {}, {}, {})
    BY <1>2, <2>1 DEF AllSteps
  <2>3. QED
    BY <1>1, <2>2
<1>10. ASSUME NEW p \in Products, plan = {LockStep(0, 0, 0, CategoryRow(p))}
       PROVE  Shaped(plan)
  <2>1. /\ LockStep(0, 0, 0, CategoryRow(p)) \in Steps
        /\ LockStep(0, 0, 0, CategoryRow(p)).row = CategoryRow(p)
    BY StepFields, RowKinds
  <2>2. QED
    BY <1>10, <2>1, RowKinds DEF Shaped
<1>11. ASSUME Made
       PROVE  Shaped(plan)
  BY <1>11, AllStepsShaped DEF Made
<1>12. Made \/ Shaped(plan)
  <2>9. \/ \E ps \in SUBSET Products : \E vs \in SUBSET VariantsOf(ps) : plan = CheckoutLocks(ps, vs)
        \/ \E ps \in SUBSET Products : \E vs \in SUBSET VariantsOf(ps) : plan = PdvLocks(ps, vs)
        \/ \E p \in Products : \E vs \in SUBSET VariantsOf({p}), active \in SUBSET VariantsOf({p}) :
             plan = MovementLocks(p, vs, active)
        \/ \E ps \in SUBSET Products : \E vs \in SUBSET VariantsOf(ps), o \in Orders :
             plan = CancelLocks(o, ps, vs)
        \/ \E p \in Products : plan = FormLocks(p)
        \/ \E o \in Orders : plan = {LockStep(0, 0, 0, OrderRow(o))}
        \/ \E p \in Products : plan = {LockStep(0, 0, 0, CategoryRow(p))}
        \/ \E p \in Products : plan = {LockStep(1, p, 0, ProductRow(p))}
    <3>1. CASE \E ps \in SUBSET Products : plan \in CartPlans(ps)
      BY <3>1 DEF CartPlans
    <3>2. CASE \E p \in Products : plan \in ProductPlans(p)
      <4>1. PICK p \in Products : plan \in ProductPlans(p)
        BY <3>2
      <4>2. \/ plan = FormLocks(p)
            \/ \E vs \in SUBSET VariantsOf({p}), active \in SUBSET VariantsOf({p}) :
                 plan = MovementLocks(p, vs, active)
        BY <4>1 DEF ProductPlans
      <4>3. QED
        BY <4>2
    <3>3. CASE plan \in SinglePlans
      BY <3>3 DEF SinglePlans
    <3>4. QED
      BY <3>1, <3>2, <3>3 DEF Plans
  <2>10. QED
    BY <1>3, <1>4, <1>5, <1>6, <1>7, <1>8, <1>9, <1>10, <2>9
<1>13. Shaped(plan)
  BY <1>11, <1>12
<1>14. QED
  BY <1>13, ShapedIsOrderly DEF Shaped

\* The strays lock rows of the same kinds.
LEMMA StraysAreSteps ==
  ASSUME NEW plan \in StrayPlans
  PROVE  plan \in SUBSET Steps
<1>1. ASSUME NEW ps \in SUBSET Products, NEW vs \in SUBSET Variants,
             plan = CheckoutLocks(ps, vs)
      PROVE  plan \in SUBSET Steps
  <2>1. plan = ProductSteps(ps) \cup CategorySteps(ps) \cup VariantSteps(2, vs) \cup JoinedSteps(vs)
    BY <1>1 DEF CheckoutLocks, LockCartProducts, LockCartVariants, ById, ProductSteps,
         CategorySteps, VariantSteps, JoinedSteps
  <2>2. 2 \in {2, 3} /\ {} \in SUBSET Orders
    OBVIOUS
  <2>3. /\ \A x \in ProductSteps(ps) : x \in Steps
        /\ \A x \in CategorySteps(ps) : x \in Steps
        /\ \A x \in VariantSteps(2, vs) : x \in Steps
        /\ \A x \in JoinedSteps(vs) : x \in Steps
    BY <2>2, QuerySteps
  <2>4. QED
    BY <2>1, <2>3
<1>2. ASSUME NEW ps \in SUBSET Products, NEW scan \in Scans(ps), plan = BulkLocks(scan)
      PROVE  plan \in SUBSET Steps
  <2>1. DOMAIN scan = ps /\ \A p \in ps : scan[p] \in Nat /\ ProductRow(p) \in Rows
    BY RowKinds, RowLocksAssumption DEF Scans
  <2>2. \A p \in ps : LockStep(1, scan[p], 0, ProductRow(p)) \in Steps
    BY <2>1, StepFields
  <2>3. QED
    BY <1>2, <2>1, <2>2 DEF BulkLocks
<1>3. ASSUME NEW p \in Products, NEW scan \in Scans(VariantsOf({p})),
             plan = DeletionLocks(p, scan)
      PROVE  plan \in SUBSET Steps
  <2>1. DOMAIN scan = VariantsOf({p}) /\ \A v \in VariantsOf({p}) : scan[v] \in VariantsOf({p})
    BY DEF Scans
  <2>2. \A v \in VariantsOf({p}) : scan[v] \in Nat /\ VariantRow(v) \in Rows
    BY <2>1, RowKinds, RowLocksAssumption DEF VariantsOf
  <2>3. ASSUME NEW v \in VariantsOf({p})
        PROVE  LockStep(2, scan[v], 0, VariantRow(v)) \in Steps
    <3>1. 2 \in 0..3 /\ 0 \in 0..1 /\ scan[v] \in Nat /\ VariantRow(v) \in Rows
      BY <2>2
    <3>2. QED
      BY <3>1, StepFields
  <2>4. LockStep(3, p, 0, ProductRow(p)) \in Steps
    BY StepFields, RowKinds, RowLocksAssumption
  <2>5. QED
    BY <1>3, <2>1, <2>3, <2>4 DEF DeletionLocks
<1>4. \/ \E ps \in SUBSET Products : \E vs \in SUBSET Variants : plan = CheckoutLocks(ps, vs)
      \/ \E ps \in SUBSET Products : \E scan \in Scans(ps) : plan = BulkLocks(scan)
      \/ \E p \in Products : \E scan \in Scans(VariantsOf({p})) : plan = DeletionLocks(p, scan)
  BY DEF StrayPlans
<1>5. QED
  BY <1>1, <1>2, <1>3, <1>4

LEMMA LocksInvInit == RowLocksInit => LocksInv
<1> SUFFICES ASSUME RowLocksInit
             PROVE  LocksInv
  OBVIOUS
<1>1. {} \in SUBSET Steps /\ Orderly({}) /\ Taking({}, {}, {})
  BY DEF Orderly, Taking
<1>2. QED
  BY <1>1 DEF RowLocksInit, LocksInv

LEMMA BeginKept ==
  ASSUME LocksInv, NEW t \in Transactions, Begin(t)
  PROVE  LocksInv'
<1>1. /\ held[t] = {} /\ held' = held
      /\ \/ strays' = strays \cup {t} /\ \E plan \in StrayPlans : todo' = [todo EXCEPT ![t] = plan]
         \/ strays' = strays \ {t} /\ \E plan \in Plans : todo' = [todo EXCEPT ![t] = plan]
  BY DEF Begin
<1>2. PICK plan : /\ todo' = [todo EXCEPT ![t] = plan]
                  /\ \/ plan \in StrayPlans /\ strays' = strays \cup {t}
                     \/ plan \in Plans /\ strays' = strays \ {t}
  BY <1>1
<1>3. plan \in SUBSET Steps /\ (plan \in Plans => Orderly(plan))
  BY <1>2, PlansAreOrderly, StraysAreSteps
<1>4. /\ todo' \in [Transactions -> SUBSET Steps] /\ todo'[t] = plan
      /\ \A u \in Transactions : u # t => todo'[u] = todo[u]
  BY <1>2, <1>3 DEF LocksInv
<1>5. strays' \in SUBSET Transactions
  BY <1>2 DEF LocksInv
<1>6. ASSUME NEW u \in Transactions \ strays'
      PROVE  \E p \in SUBSET Steps : Orderly(p) /\ Taking(p, todo'[u], held'[u])
  <2>1. CASE u = t
    <3>1. Orderly(plan)
      BY <1>2, <1>3, <1>6, <2>1
    <3>2. Taking(plan, plan, {})
      BY DEF Taking
    <3>3. QED
      BY <1>1, <1>3, <1>4, <2>1, <3>1, <3>2
  <2>2. CASE u # t
    <3>1. u \in Transactions \ strays
      BY <1>2, <1>6, <2>2
    <3>2. QED
      BY <1>1, <1>4, <2>2, <3>1 DEF LocksInv
  <2>3. QED
    BY <2>1, <2>2
<1>7. QED
  BY <1>1, <1>4, <1>5, <1>6 DEF LocksInv, Orderly, Taking, Earlier

LEMMA AcquireKept ==
  ASSUME LocksInv, NEW t \in Transactions, Acquire(t)
  PROVE  LocksInv'
<1>1. PICK x \in todo[t] :
        /\ IsFirst(x, todo[t])
        /\ \A u \in Transactions : ~WaitsFor(t, u)
        /\ held' = [held EXCEPT ![t] = held[t] \cup {x.row}]
        /\ todo' = [todo EXCEPT ![t] = todo[t] \ {x}]
        /\ strays' = strays
  BY DEF Acquire
<1>2. x \in Steps /\ x.row \in Rows
  BY DEF LocksInv, Steps
<1>3. /\ held'[t] = held[t] \cup {x.row} /\ todo'[t] = todo[t] \ {x}
      /\ \A u \in Transactions : u # t => held'[u] = held[u] /\ todo'[u] = todo[u]
      /\ held' \in [Transactions -> SUBSET Rows] /\ todo' \in [Transactions -> SUBSET Steps]
  BY <1>1, <1>2 DEF LocksInv
<1>4. \A u \in Transactions : u # t => x.row \notin held[u]
  BY <1>1 DEF WaitsFor
<1>5. \A u, w \in Transactions : u # w => held'[u] \cap held'[w] = {}
  <2>1. ASSUME NEW u \in Transactions, NEW w \in Transactions, u # w
        PROVE  held'[u] \cap held'[w] = {}
    <3>1. held[u] \cap held[w] = {}
      BY <2>1 DEF LocksInv
    <3>2. CASE u = t
      BY <1>3, <1>4, <2>1, <3>1, <3>2
    <3>3. CASE w = t
      BY <1>3, <1>4, <2>1, <3>1, <3>3
    <3>4. CASE u # t /\ w # t
      BY <1>3, <3>1, <3>4
    <3>5. QED
      BY <3>2, <3>3, <3>4
  <2>2. QED
    BY <2>1
<1>6. ASSUME NEW u \in Transactions \ strays
      PROVE  \E p \in SUBSET Steps : Orderly(p) /\ Taking(p, todo'[u], held'[u])
  <2>1. CASE u = t
    <3>1. PICK p \in SUBSET Steps : Orderly(p) /\ Taking(p, todo[t], held[t])
      BY <1>6, <2>1 DEF LocksInv
    <3>2. Taking(p, todo[t] \ {x}, held[t] \cup {x.row})
      <4>1. p \ (todo[t] \ {x}) = (p \ todo[t]) \cup {x}
        BY <3>1 DEF Taking
      <4>2. \A y \in todo[t] \ {x} : Earlier(x, y)
        BY <1>1 DEF IsFirst
      <4>3. QED
        BY <3>1, <4>1, <4>2 DEF Taking
    <3>3. QED
      BY <1>3, <2>1, <3>1, <3>2
  <2>2. CASE u # t
    BY <1>3, <1>6, <2>2 DEF LocksInv
  <2>3. QED
    BY <2>1, <2>2
<1>7. QED
  BY <1>1, <1>3, <1>5, <1>6 DEF LocksInv, Orderly, Taking, Earlier

LEMMA FinishKept ==
  ASSUME LocksInv, NEW t \in Transactions, Finish(t)
  PROVE  LocksInv'
<1>1. /\ held'[t] = {} /\ todo'[t] = {} /\ strays' = strays \ {t}
      /\ \A u \in Transactions : u # t => held'[u] = held[u] /\ todo'[u] = todo[u]
      /\ held' \in [Transactions -> SUBSET Rows] /\ todo' \in [Transactions -> SUBSET Steps]
  BY DEF Finish, LocksInv
<1>2. {} \in SUBSET Steps /\ Orderly({}) /\ Taking({}, {}, {})
  BY DEF Orderly, Taking
<1>3. \A u, w \in Transactions : u # w => held'[u] \cap held'[w] = {}
  BY <1>1 DEF LocksInv
<1>4. ASSUME NEW u \in Transactions \ strays'
      PROVE  \E p \in SUBSET Steps : Orderly(p) /\ Taking(p, todo'[u], held'[u])
  <2>1. CASE u = t
    BY <1>1, <1>2, <2>1
  <2>2. CASE u # t
    BY <1>1, <1>4, <2>2 DEF LocksInv
  <2>3. QED
    BY <2>1, <2>2
<1>5. QED
  BY <1>1, <1>3, <1>4 DEF LocksInv, Orderly, Taking, Earlier

LEMMA RowLocksInvariance == RowLocksSpec => []LocksInv
<1>1. ASSUME LocksInv, [RowLocksNext]_rowLocksVars
      PROVE  LocksInv'
  <2>1. CASE UNCHANGED rowLocksVars
    <3>1. todo' = todo /\ held' = held /\ strays' = strays
      BY <2>1 DEF rowLocksVars
    <3>2. ASSUME NEW t \in Transactions \ strays
          PROVE  \E plan \in SUBSET Steps : Orderly(plan) /\ Taking(plan, todo'[t], held'[t])
      BY <1>1, <3>1 DEF LocksInv
    <3>3. QED
      BY <1>1, <3>1, <3>2 DEF LocksInv, Orderly, Taking, Earlier
  <2>2. CASE RowLocksNext
    BY <1>1, <2>2, BeginKept, AcquireKept, FinishKept DEF RowLocksNext
  <2>3. QED
    BY <1>1, <2>1, <2>2
<1>2. QED
  BY <1>1, LocksInvInit, PTL DEF RowLocksSpec

\* The row a transaction is at, against those it has: an order is its first,
\* a variant follows its product, and a product those with a smaller id.
LEMMA WhereItIs ==
  ASSUME LocksInv, NEW t \in Transactions \ strays, NEW x \in todo[t], IsFirst(x, todo[t]),
         x.row \notin held[t]
  PROVE  /\ x.row \in Rows
         /\ \A o \in Orders : x.row = OrderRow(o) => held[t] = {}
         /\ \A v \in Variants : x.row = VariantRow(v) => ProductRow(ProductOf[v]) \in held[t]
         /\ \A p, q \in Products : x.row = ProductRow(p) /\ ProductRow(q) \in held[t] => q < p
<1>1. PICK plan \in SUBSET Steps : Orderly(plan) /\ Taking(plan, todo[t], held[t])
  BY DEF LocksInv
<1>2. /\ x \in plan /\ x \in Steps
      /\ held[t] = {y.row : y \in plan \ todo[t]}
      /\ \A y \in plan \ todo[t] : Earlier(y, x)
  BY <1>1 DEF Taking
<1>3. \A y \in plan : Earlier(y, x) => y.row \in held[t]
  <2>1. \A y \in todo[t] \ {x} : Earlier(x, y)
    BY DEF IsFirst
  <2>2. \A y \in todo[t] : ~Earlier(y, x)
    BY <1>1, <1>2, <2>1, EarlierIsAnOrder DEF Taking
  <2>3. QED
    BY <1>2, <2>2
<1>4. \A o \in Orders : x.row = OrderRow(o) => held[t] = {}
  BY <1>1, <1>2 DEF Orderly
<1>5. \A v \in Variants : x.row = VariantRow(v) => ProductRow(ProductOf[v]) \in held[t]
  BY <1>1, <1>2, <1>3 DEF Orderly
<1>6. ASSUME NEW p \in Products, NEW q \in Products, x.row = ProductRow(p),
             ProductRow(q) \in held[t]
      PROVE  q < p
  <2>1. PICK y \in plan : Earlier(y, x) /\ y.row = ProductRow(q)
    BY <1>2, <1>6
  <2>2. ~\E z \in plan : Earlier(z, x) /\ z.row = x.row
    BY <1>3
  <2>3. QED
    BY <1>1, <1>2, <1>6, <2>1, <2>2 DEF Orderly
<1>7. QED
  BY <1>2, <1>4, <1>5, <1>6 DEF Steps

\* Whoever has a variant has its product.
LEMMA VariantsWithProducts ==
  ASSUME LocksInv, NEW t \in Transactions \ strays, NEW v \in Variants, VariantRow(v) \in held[t]
  PROVE  ProductRow(ProductOf[v]) \in held[t]
<1>1. PICK plan \in SUBSET Steps : Orderly(plan) /\ Taking(plan, todo[t], held[t])
  BY DEF LocksInv
<1>2. PICK x \in plan \ todo[t] : x.row = VariantRow(v)
  BY <1>1 DEF Taking
<1>3. PICK y \in plan : Earlier(y, x) /\ y.row = ProductRow(ProductOf[v])
  BY <1>1, <1>2 DEF Orderly
<1>4. y \notin todo[t]
  BY <1>1, <1>2, <1>3, EarlierIsAnOrder DEF Taking
<1>5. QED
  BY <1>1, <1>3, <1>4 DEF Taking

\* In a finite set something has the greatest number.
LEMMA NoEndlessRise ==
  ASSUME NEW S, IsFiniteSet(S), S # {}, NEW h, \A t \in S : h[t] \in Nat
  PROVE  \E t \in S : \A u \in S : ~(h[t] < h[u])
<1> SUFFICES ASSUME \A t \in S : \E u \in S : h[t] < h[u]
             PROVE  FALSE
  OBVIOUS
<1> DEFINE Bad == {T \in SUBSET S : T # {} /\ \A t \in T : \E u \in T : h[t] < h[u]}
<1>1. S \in Bad /\ Bad \in SUBSET SUBSET S
  OBVIOUS
<1>2. IsWellFoundedOn(StrictSubsetOrdering(S), SUBSET S)
  BY FS_StrictSubsetOrderingWellFounded, FS_FiniteSubsetsOfFinite
<1>3. PICK T \in Bad : \A U \in Bad : <<U, T>> \notin StrictSubsetOrdering(S)
  <2> HIDE DEF Bad
  <2>1. QED
    BY <1>1, <1>2, WFMin
<1>4. PICK t \in T : TRUE
  OBVIOUS
<1> DEFINE U == {u \in T : h[t] < h[u]}
<1>5. U \in Bad
  <2>1. U # {}
    OBVIOUS
  <2>2. ASSUME NEW u \in U
        PROVE  \E w \in U : h[u] < h[w]
    <3>1. PICK w \in T : h[u] < h[w]
      OBVIOUS
    <3>2. h[t] \in Nat /\ h[u] \in Nat /\ h[w] \in Nat /\ h[t] < h[u]
      OBVIOUS
    <3>3. h[t] < h[w]
      BY <3>1, <3>2
    <3>4. QED
      BY <3>1, <3>3
  <2>3. QED
    BY <2>1, <2>2
<1>6. t \notin U /\ U \subseteq T /\ T \subseteq S
  OBVIOUS
<1>7. <<U, T>> \in StrictSubsetOrdering(S)
  BY <1>6 DEF StrictSubsetOrdering
<1>8. QED
  BY <1>3, <1>5, <1>7

LEMMA OnlyCategoriesClose ==
  ASSUME LocksInv, NEW S \in SUBSET (Transactions \ strays), Deadlocked(S)
  PROVE  \E t \in S : \E x \in todo[t] :
           IsFirst(x, todo[t]) /\ \E p \in Products : x.row = CategoryRow(p)
<1> SUFFICES ASSUME \A t \in S : \A x \in todo[t] : \A p \in Products :
                      IsFirst(x, todo[t]) => x.row # CategoryRow(p)
             PROVE  FALSE
  OBVIOUS
\* What a transaction of the circle waits for is an order or a product.
<1>1. ASSUME NEW t \in S
      PROVE  \E u \in S : \E x \in todo[t] :
               /\ u # t /\ IsFirst(x, todo[t]) /\ x.row \in held[u] /\ x.row \notin held[t]
               /\ \/ \E o \in Orders : x.row = OrderRow(o)
                  \/ \E p \in Products : x.row = ProductRow(p)
  <2>1. PICK u \in S : WaitsFor(t, u)
    BY DEF Deadlocked
  <2>2. PICK x \in todo[t] : t # u /\ x.row \in held[u] /\ IsFirst(x, todo[t])
    BY <2>1 DEF WaitsFor
  <2>3. held[t] \cap held[u] = {}
    BY <2>2 DEF LocksInv
  <2>4. x.row \notin held[t]
    BY <2>2, <2>3
  <2>5. /\ x.row \in Rows
        /\ \A v \in Variants : x.row = VariantRow(v) => ProductRow(ProductOf[v]) \in held[t]
    BY <2>2, <2>4, WhereItIs
  <2>6. \A v \in Variants : x.row # VariantRow(v)
    <3>1. SUFFICES ASSUME NEW v \in Variants, x.row = VariantRow(v)
                   PROVE  FALSE
      OBVIOUS
    <3>2. ProductRow(ProductOf[v]) \in held[u]
      BY <2>2, <3>1, VariantsWithProducts
    <3>3. QED
      BY <2>3, <2>5, <3>1, <3>2
  <2>7. \A p \in Products : x.row # CategoryRow(p)
    BY <2>2
  <2>8. QED
    BY <2>2, <2>4, <2>5, <2>6, <2>7 DEF Rows
<1> DEFINE At(t, p) == \E x \in todo[t] : /\ IsFirst(x, todo[t]) /\ x.row = ProductRow(p)
                                          /\ x.row \notin held[t]
           W == {t \in S : \E p \in Products : At(t, p)}
           h == [t \in W |-> CHOOSE p \in Products : At(t, p)]
\* Who is waited for has something, and so waits for a product.
<1>2. ASSUME NEW t \in S, held[t] # {}
      PROVE  t \in W
  BY <1>1, <1>2, WhereItIs
<1>3. W # {} /\ IsFiniteSet(W)
  <2>1. PICK t \in S : TRUE
    BY DEF Deadlocked
  <2>2. PICK u \in S : held[u] # {}
    BY <1>1, <2>1
  <2>3. u \in W
    BY <1>2, <2>2
  <2>4. W \in SUBSET Transactions
    OBVIOUS
  <2> HIDE DEF W
  <2>5. QED
    BY <2>3, <2>4, FS_Subset, RowLocksAssumption
<1>4. \A t \in W : h[t] \in Products /\ At(t, h[t])
  OBVIOUS
<1>5. \A t \in W : h[t] \in Nat
  BY <1>4, RowLocksAssumption
<1>6. ASSUME NEW t \in W
      PROVE  \E u \in W : h[t] < h[u]
  <2>1. PICK x \in todo[t] : /\ IsFirst(x, todo[t]) /\ x.row = ProductRow(h[t])
                             /\ x.row \notin held[t]
    BY <1>4
  <2>2. PICK u \in S, y \in todo[t] : IsFirst(y, todo[t]) /\ y.row \in held[u]
    BY <1>1
  <2>3. x = y
    <3>1. x \in Steps /\ y \in Steps
      BY DEF LocksInv
    <3>2. QED
      BY <2>1, <2>2, <3>1, EarlierIsAnOrder DEF IsFirst
  <2>4. u \in W
    BY <1>2, <2>2
  <2>5. PICK z \in todo[u] : /\ IsFirst(z, todo[u]) /\ z.row = ProductRow(h[u])
                             /\ z.row \notin held[u]
    BY <1>4, <2>4
  <2>6. ProductRow(h[t]) \in held[u]
    BY <2>1, <2>2, <2>3
  <2>7. h[t] \in Products /\ h[u] \in Products
    BY <1>4, <2>4
  <2> HIDE DEF h, W
  <2>8. h[t] < h[u]
    BY <2>5, <2>6, <2>7, WhereItIs
  <2>9. QED
    BY <2>4, <2>8
<1> HIDE DEF h, W
<1>7. QED
  BY <1>3, <1>5, <1>6, NoEndlessRise

\* No two transactions have the same row, and what they have and want are rows
\* (a part of SubsystemsTypeOK).
THEOREM RowLockTypes == RowLocksSpec => []RowLocksTypeOK
<1>1. LocksInv => RowLocksTypeOK
  BY DEF LocksInv, RowLocksTypeOK
<1>2. QED
  BY <1>1, RowLocksInvariance, PTL

\* In every deadlock of the write paths, of any number of transactions, somebody
\* waits for a category row or is on a path that keeps no order: a checkout that
\* names a variant of a product outside its cart (views.py _lock_cart_variants),
\* a change of the category of several products, a deletion.
THEOREM DeadlocksHaveACause == RowLocksSpec => []DeadlockHasACause
<1>1. ASSUME LocksInv, NEW S \in SUBSET Transactions, Deadlocked(S), \A t \in S : t \notin strays
      PROVE  \E t \in S : \E x \in todo[t] :
               IsFirst(x, todo[t]) /\ \E p \in Products : x.row = CategoryRow(p)
  <2>1. S \in SUBSET (Transactions \ strays)
    BY <1>1
  <2>2. QED
    BY <1>1, <2>1, OnlyCategoriesClose
<1>3. LocksInv => DeadlockHasACause
  BY <1>1 DEF DeadlockHasACause
<1>2. QED
  BY <1>3, RowLocksInvariance, PTL
-----------------------------------------------------------------------------
(* StoreSettings: as long as nobody has changed the watched column since a *)
(* call read its row, what the call holds for it is what the row has,      *)
(* unless the call gives it; a row saved whole is the row that was         *)
(* validated.                                                              *)

SettingRows == [SettingColumns -> BOOLEAN]

\* What a call that is to save holds.
CallHolds(a) ==
  /\ a \in SettingCalls
  /\ a.via # "refused"
  /\ a.via \in {"patch", "admin"} =>
       /\ setting \in SettingRows
       /\ SavesAll(a.via) => a.row \in SettingRows /\ OpenStoreSells(a.row)
       /\ SavesAll(a.via) /\ ~a.old /\ ~a.gives => a.row[watched] = setting[watched]
       /\ ~SavesAll(a.via) /\ ~a.gives => watched \notin DOMAIN a.row

SettingsInv ==
  /\ table \in {"store", "commerce_settings"} \cup Plain
  /\ setting \in SettingRows \cup {NoSetting}
  /\ watched \in SettingColumns /\ settingsGiven \in BOOLEAN /\ undone \in BOOLEAN
  /\ setting = NoSetting => settingsGiven = TRUE
  /\ setting # NoSetting /\ ~undone => setting[watched] = settingsGiven
  /\ settingsCall \in [SettingsCalls -> SettingCalls]
  /\ \A c \in SettingsCalls : CallHolds(settingsCall[c])

LEMMA NoCallIsACall == NoSettingsCall \in SettingCalls
<1>1. NoSetting \in [{} -> BOOLEAN]
  BY DEF NoSetting
<1>2. {} \in SUBSET SettingColumns
  OBVIOUS
<1>3. NoSetting \in Contents
  BY <1>1, <1>2 DEF Contents
<1> QED
  BY <1>2, <1>3 DEF NoSettingsCall, SettingCalls

LEMMA SettingsStart == StoreSettingsInit => SettingsInv
<1> SUFFICES ASSUME StoreSettingsInit PROVE SettingsInv
  OBVIOUS
<1>1. setting \in SettingRows \cup {NoSetting}
  BY DEF StoreSettingsInit, SettingRows
<1>2. \A c \in SettingsCalls : settingsCall[c] = NoSettingsCall
  BY DEF StoreSettingsInit
<1>3. settingsCall \in [SettingsCalls -> SettingCalls]
  BY NoCallIsACall DEF StoreSettingsInit
<1>4. CallHolds(NoSettingsCall)
  BY NoCallIsACall DEF CallHolds, NoSettingsCall
<1>5. watched \in SettingColumns /\ settingsGiven = TRUE /\ undone = FALSE
  BY DEF StoreSettingsInit
<1>6. setting # NoSetting => setting[watched] = settingsGiven
  BY <1>5 DEF StoreSettingsInit
<1> QED
  BY <1>1, <1>2, <1>3, <1>4, <1>5, <1>6 DEF StoreSettingsInit, SettingsInv

LEMMA FoundIsARow ==
  ASSUME SettingsInv
  PROVE  Found \in SettingRows
BY DEF SettingsInv, Found, SettingRows

\* A row made on the first request has every column as it is by default.
LEMMA FoundIsGiven ==
  ASSUME SettingsInv
  PROVE  ~undone => Found[watched] = settingsGiven
<1>1. CASE setting = NoSetting
  BY <1>1 DEF SettingsInv, Found
<1>2. CASE setting # NoSetting
  BY <1>2 DEF SettingsInv, Found
<1> QED
  BY <1>1, <1>2

\* A call that read the row before keeps what it holds when the row is found.
LEMMA FoundKeepsCalls ==
  ASSUME SettingsInv, setting' = Found, UNCHANGED <<table, watched>>, NEW a, CallHolds(a)
  PROVE  CallHolds(a)'
<1>1. SettingColumns' = SettingColumns
  BY DEF SettingColumns
<1>2. SettingCalls' = SettingCalls /\ SettingRows' = SettingRows
  BY <1>1 DEF SettingCalls, SettingRows, Contents
<1>3. SavesAll(a.via)' = SavesAll(a.via)
  BY DEF SavesAll
<1>4. OpenStoreSells(a.row)' <=> OpenStoreSells(a.row)
  BY DEF OpenStoreSells
<1>5. setting \in SettingRows => setting' = setting
  <2>1. CASE setting = NoSetting
    <3>1. ASSUME NoSetting \in SettingRows PROVE SettingColumns = {}
      BY <3>1 DEF NoSetting, SettingRows
    <3>2. SettingColumns = {} => Found = NoSetting
      BY <2>1 DEF Found, NoSetting
    <3> QED
      BY <2>1, <3>1, <3>2
  <2>2. CASE setting # NoSetting
    BY <2>2 DEF Found
  <2> QED
    BY <2>1, <2>2
<1> QED
  BY <1>1, <1>2, <1>3, <1>4, <1>5 DEF CallHolds

LEMMA ReadKeeps ==
  ASSUME SettingsInv, NEW c \in SettingsCalls, NEW via \in {"patch", "admin"},
         NEW sent \in SUBSET SettingColumns, ReadSetting(c, via, sent)
  PROVE  SettingsInv'
<1>1. UNCHANGED <<table, watched, settingsGiven, undone>> /\ setting' = Found
  BY DEF ReadSetting
<1>2. SettingColumns' = SettingColumns
  BY <1>1 DEF SettingColumns
<1>3. SettingCalls' = SettingCalls /\ SettingRows' = SettingRows
  BY <1>2 DEF SettingCalls, SettingRows, Contents
<1>4. Found \in SettingRows
  BY FoundIsARow
<1>5. /\ watched \in SettingColumns /\ settingsGiven \in BOOLEAN /\ undone \in BOOLEAN
      /\ ~undone => setting'[watched] = settingsGiven
      /\ setting' = NoSetting => settingsGiven = TRUE
  <2>1. setting' # NoSetting
    BY <1>1, <1>4 DEF SettingRows, NoSetting, SettingsInv
  <2> QED
    BY <1>1, <2>1, FoundIsGiven DEF SettingsInv
<1>6. PICK row \in [SettingColumns -> BOOLEAN] :
        /\ \A x \in SettingColumns \ sent : row[x] = Found[x]
        /\ OpenStoreSells(row)
        /\ settingsCall' = [settingsCall EXCEPT ![c] =
             [via |-> via, row |-> [x \in Written(via, sent) |-> row[x]],
              gives |-> watched \in sent, old |-> FALSE]]
  BY DEF ReadSetting
<1> DEFINE part == [x \in Written(via, sent) |-> row[x]]
<1>a. PICK a : a = [via |-> via, row |-> part, gives |-> watched \in sent, old |-> FALSE]
  OBVIOUS
<1>7. Written(via, sent) \in SUBSET SettingColumns
  BY DEF Written
<1>8. part \in [Written(via, sent) -> BOOLEAN]
  BY <1>6, <1>7
<1>9. part \in Contents
  BY <1>7, <1>8 DEF Contents
<1>10. a \in SettingCalls
  BY <1>9, <1>a DEF SettingCalls
<1>11. SavesAll(via) => part = row
  BY <1>6 DEF Written
<1>12. ~SavesAll(via) => DOMAIN part = sent
  BY DEF Written
<1>13. CallHolds(a)'
  <2>1. a.via = via /\ a.row = part /\ (a.gives <=> watched \in sent) /\ a.old = FALSE
    BY <1>a
  <2>2. SavesAll(via)' = SavesAll(via)
    BY <1>1 DEF SavesAll
  <2>3. OpenStoreSells(row)'
    BY <1>1, <1>6 DEF OpenStoreSells
  <2>4. PICK r : r = part
    OBVIOUS
  <2> HIDE DEF part
  <2>5. a.row = r /\ (SavesAll(via) => r = row) /\ (~SavesAll(via) => DOMAIN r = sent)
    BY <1>11, <1>12, <2>1, <2>4
  <2> QED
    BY <1>1, <1>2, <1>3, <1>4, <1>5, <1>6, <1>10, <2>1, <2>2, <2>3, <2>5
    DEF CallHolds, SettingRows
<1>14. ASSUME NEW d \in SettingsCalls PROVE CallHolds(settingsCall[d])'
  <2>1. CASE d = c
    <3>1. settingsCall'[d] = a
      BY <1>6, <1>a, <2>1 DEF SettingsInv
    <3> QED
      BY <1>13, <3>1 DEF CallHolds
  <2>2. CASE d # c
    <3>1. settingsCall'[d] = settingsCall[d]
      BY <1>6, <2>2 DEF SettingsInv
    <3>2. CallHolds(settingsCall[d])
      BY DEF SettingsInv
    <3>3. PICK b : b = settingsCall[d]
      OBVIOUS
    <3>4. CallHolds(b)'
      BY <1>1, <3>2, <3>3, FoundKeepsCalls
    <3> QED
      BY <3>1, <3>3, <3>4 DEF CallHolds
  <2> QED
    BY <2>1, <2>2
<1>15. settingsCall' \in [SettingsCalls -> SettingCalls]
  <2>1. settingsCall' = [settingsCall EXCEPT ![c] = a]
    BY <1>6, <1>a
  <2> QED
    BY <1>10, <2>1 DEF SettingsInv
<1>16. /\ table' \in {"store", "commerce_settings"} \cup Plain
       /\ setting' \in SettingRows' \cup {NoSetting}
       /\ watched' \in SettingColumns'
  BY <1>1, <1>2, <1>3, <1>4, <1>5 DEF SettingsInv
<1>17. settingsGiven' \in BOOLEAN /\ undone' \in BOOLEAN
  BY <1>1, <1>5
<1>18. /\ setting' = NoSetting => settingsGiven' = TRUE
       /\ setting' # NoSetting /\ ~undone' => setting'[watched'] = settingsGiven'
  BY <1>1, <1>5
<1> QED
  BY <1>3, <1>14, <1>15, <1>16, <1>17, <1>18 DEF SettingsInv

LEMMA OutdatedKeeps ==
  ASSUME UNCHANGED <<table, watched>>, setting' \in SettingRows, NEW a, CallHolds(a), NEW b,
         b = Outdated(a) \/ (b = a /\ setting'[watched] = setting[watched])
  PROVE  b \in SettingCalls /\ CallHolds(b)'
<1>1. SettingColumns' = SettingColumns
  BY DEF SettingColumns
<1>2. SettingCalls' = SettingCalls /\ SettingRows' = SettingRows
  BY <1>1 DEF SettingCalls, SettingRows, Contents
<1>3. \A via : SavesAll(via)' = SavesAll(via)
  BY DEF SavesAll
<1>4. \A row : OpenStoreSells(row)' <=> OpenStoreSells(row)
  BY DEF OpenStoreSells
<1>5. CASE a.via \in {"patch", "admin"} /\ SavesAll(a.via) /\ b # a
  <2>1. b = [via |-> a.via, row |-> a.row, gives |-> a.gives, old |-> TRUE]
    BY <1>5 DEF Outdated
  <2>2. b \in SettingCalls
    BY <2>1 DEF CallHolds, SettingCalls
  <2>3. b.via = a.via /\ b.row = a.row /\ b.gives = a.gives /\ b.old = TRUE
    BY <2>1
  <2>4. CallHolds(b)'
    BY <1>1, <1>2, <1>3, <1>4, <1>5, <2>2, <2>3 DEF CallHolds
  <2> QED
    BY <2>2, <2>4
<1>6. CASE b = a /\ ~(a.via \in {"patch", "admin"} /\ SavesAll(a.via))
  <2>1. CallHolds(a)'
    BY <1>1, <1>2, <1>3, <1>4, <1>6 DEF CallHolds
  <2> QED
    BY <1>6, <2>1 DEF CallHolds
<1>7. CASE /\ b = a /\ a.via \in {"patch", "admin"} /\ SavesAll(a.via)
           /\ setting'[watched] = setting[watched]
  <2>1. CallHolds(a)'
    BY <1>1, <1>2, <1>3, <1>4, <1>7 DEF CallHolds
  <2> QED
    BY <1>7, <2>1 DEF CallHolds
<1>8. CASE /\ b = a /\ b = Outdated(a) /\ a.via \in {"patch", "admin"} /\ SavesAll(a.via)
  <2>1. a.old = TRUE
    <3>1. b = [via |-> a.via, row |-> a.row, gives |-> a.gives, old |-> TRUE]
      BY <1>8 DEF Outdated
    <3> QED
      BY <1>8, <3>1
  <2>2. CallHolds(a)'
    BY <1>1, <1>2, <1>3, <1>4, <1>8, <2>1 DEF CallHolds
  <2> QED
    BY <1>8, <2>2 DEF CallHolds
<1>9. b # a => a.via \in {"patch", "admin"} /\ SavesAll(a.via)
  BY DEF Outdated
<1> QED
  BY <1>5, <1>6, <1>7, <1>8, <1>9

LEMMA SaveKeeps ==
  ASSUME SettingsInv, NEW c \in SettingsCalls, SaveSetting(c)
  PROVE  SettingsInv'
<1> DEFINE a == settingsCall[c]
           saved == [x \in SettingColumns |-> IF x \in DOMAIN a.row THEN a.row[x] ELSE setting[x]]
<1>1. CallHolds(a) /\ a.via \in {"patch", "admin"} /\ a \in SettingCalls
  BY DEF SettingsInv, SaveSetting
<1>2. setting \in SettingRows /\ UNCHANGED <<table, watched>> /\ watched \in SettingColumns
  BY <1>1 DEF CallHolds, SaveSetting, SettingsInv
<1>3. PICK columns \in SUBSET SettingColumns : a.row \in [columns -> BOOLEAN]
  BY <1>1 DEF SettingCalls, Contents
<1>4. saved \in SettingRows
  BY <1>2, <1>3 DEF SettingRows
<1>5. SavesAll(a.via) => saved = a.row
  <2> SUFFICES ASSUME SavesAll(a.via) PROVE saved = a.row
    OBVIOUS
  <2>1. a.row \in SettingRows
    BY <1>1 DEF CallHolds
  <2> QED
    BY <2>1 DEF SettingRows
<1>6. OpenStoreSells(saved)
  <2>1. CASE SavesAll(a.via)
    BY <1>1, <1>5, <2>1 DEF CallHolds
  <2>2. CASE ~SavesAll(a.via)
    BY <2>2 DEF SavesAll, OpenStoreSells
  <2> QED
    BY <2>1, <2>2
<1>7. /\ setting' = saved
      /\ settingsGiven' = IF a.gives THEN saved[watched] ELSE settingsGiven
      /\ undone' = (~a.gives /\ (undone \/ (SavesAll(a.via) /\ a.old)))
      /\ settingsCall' = [d \in SettingsCalls |->
           IF d = c THEN NoSettingsCall
           ELSE IF saved[watched] # setting[watched] THEN Outdated(settingsCall[d])
           ELSE settingsCall[d]]
  BY <1>6 DEF SaveSetting
<1>8. /\ settingsGiven' \in BOOLEAN /\ undone' \in BOOLEAN
      /\ ~undone' => saved[watched] = settingsGiven'
  <2>1. saved[watched] \in BOOLEAN
    BY <1>2, <1>4 DEF SettingRows
  <2>2. setting # NoSetting
    BY <1>2 DEF SettingRows, NoSetting
  <2>3. settingsGiven \in BOOLEAN /\ undone \in BOOLEAN
    BY DEF SettingsInv
  <2>4. a.gives \in BOOLEAN /\ a.old \in BOOLEAN
    BY <1>1 DEF SettingCalls
  <2>5. ASSUME ~a.gives, ~undone, ~(SavesAll(a.via) /\ a.old)
        PROVE  saved[watched] = settingsGiven
    <3>1. settingsGiven = setting[watched]
      BY <2>2, <2>5 DEF SettingsInv
    <3>2. CASE SavesAll(a.via)
      <4>1. a.row[watched] = setting[watched]
        BY <1>1, <2>5, <3>2 DEF CallHolds
      <4> QED
        BY <1>5, <3>1, <3>2, <4>1
    <3>3. CASE ~SavesAll(a.via)
      <4>1. watched \notin DOMAIN a.row
        BY <1>1, <2>5, <3>3 DEF CallHolds
      <4> QED
        BY <1>2, <3>1, <4>1
    <3> QED
      BY <3>2, <3>3
  <2> HIDE DEF a, saved
  <2>6. settingsGiven' \in BOOLEAN
    BY <1>7, <2>1, <2>3
  <2>7. undone' \in BOOLEAN
    BY <1>7
  <2>8. ~undone' => saved[watched] = settingsGiven'
    BY <1>7, <2>5
  <2> QED
    BY <2>6, <2>7, <2>8
<1>9. SettingRows' = SettingRows /\ SettingCalls' = SettingCalls
  BY <1>2 DEF SettingRows, SettingCalls, SettingColumns, Contents
<1> HIDE DEF a, saved
<1>10. ASSUME NEW d \in SettingsCalls
       PROVE  settingsCall'[d] \in SettingCalls /\ CallHolds(settingsCall[d])'
  <2>1. CASE d = c
    <3>1. settingsCall'[d] = NoSettingsCall
      BY <1>7, <2>1
    <3>2. CallHolds(settingsCall[d])'
      BY <1>9, <3>1, NoCallIsACall DEF CallHolds, NoSettingsCall
    <3> QED
      BY <3>1, <3>2, NoCallIsACall
  <2>2. CASE d # c
    <3>1. PICK b : b = settingsCall[d]
      OBVIOUS
    <3>2. CallHolds(b)
      BY <3>1 DEF SettingsInv
    <3>3. PICK e : e = settingsCall'[d]
      OBVIOUS
    <3>4. e = Outdated(b) \/ (e = b /\ setting'[watched] = setting[watched])
      BY <1>7, <2>2, <3>1, <3>3
    <3>5. e \in SettingCalls /\ CallHolds(e)'
      BY <1>2, <1>4, <1>7, <3>2, <3>4, OutdatedKeeps
    <3> QED
      BY <3>3, <3>5 DEF CallHolds
  <2> QED
    BY <2>1, <2>2
<1>11. settingsCall' \in [SettingsCalls -> SettingCalls']
  BY <1>7, <1>9, <1>10
<1>12. setting' # NoSetting
  BY <1>2, <1>4, <1>7 DEF SettingRows, NoSetting
<1>13. watched' \in SettingColumns' /\ table' \in {"store", "commerce_settings"} \cup Plain
  BY <1>2 DEF SettingsInv, SettingColumns
<1> QED
  BY <1>2, <1>4, <1>7, <1>8, <1>9, <1>10, <1>11, <1>12, <1>13 DEF SettingsInv

LEMMA LeaveKeeps ==
  ASSUME SettingsInv, NEW c \in SettingsCalls, LeaveSetting(c)
  PROVE  SettingsInv'
<1>1. /\ UNCHANGED <<table, setting, watched, settingsGiven, undone>>
      /\ settingsCall' = [settingsCall EXCEPT ![c] = NoSettingsCall]
  BY DEF LeaveSetting
<1>2. SettingRows' = SettingRows /\ SettingCalls' = SettingCalls
  BY <1>1 DEF SettingRows, SettingCalls, SettingColumns, Contents
<1>3. settingsCall' \in [SettingsCalls -> SettingCalls']
  BY <1>1, <1>2, NoCallIsACall DEF SettingsInv
<1>4. ASSUME NEW d \in SettingsCalls PROVE CallHolds(settingsCall[d])'
  <2>1. CASE d = c
    <3>1. settingsCall'[d] = NoSettingsCall
      BY <1>1, <2>1 DEF SettingsInv
    <3> QED
      BY <1>2, <3>1, NoCallIsACall DEF CallHolds, NoSettingsCall
  <2>2. CASE d # c
    <3>1. settingsCall'[d] = settingsCall[d] /\ CallHolds(settingsCall[d])
      BY <1>1, <2>2 DEF SettingsInv
    <3> QED
      BY <1>1, <1>2, <3>1 DEF CallHolds, SavesAll, OpenStoreSells, SettingColumns
  <2> QED
    BY <2>1, <2>2
<1>5. watched' \in SettingColumns'
  BY <1>1 DEF SettingsInv, SettingColumns
<1> QED
  BY <1>1, <1>2, <1>3, <1>4, <1>5 DEF SettingsInv

LEMMA MaterialiseKeeps ==
  ASSUME SettingsInv, Materialise
  PROVE  SettingsInv'
<1>1. UNCHANGED <<table, settingsCall, watched, settingsGiven, undone>> /\ setting' = Found
  BY DEF Materialise
<1>2. SettingRows' = SettingRows /\ SettingCalls' = SettingCalls
  BY <1>1 DEF SettingRows, SettingCalls, SettingColumns, Contents
<1>3. ASSUME NEW d \in SettingsCalls PROVE CallHolds(settingsCall[d])'
  <2>1. PICK b : b = settingsCall[d]
    OBVIOUS
  <2>2. CallHolds(b)
    BY <2>1 DEF SettingsInv
  <2>3. CallHolds(b)'
    BY <1>1, <2>2, FoundKeepsCalls
  <2> QED
    BY <1>1, <2>1, <2>3 DEF CallHolds
<1>4. watched' \in SettingColumns'
  BY <1>1 DEF SettingsInv, SettingColumns
<1>5. setting' # NoSetting
  BY <1>1, FoundIsARow DEF SettingRows, NoSetting, SettingsInv
<1> QED
  BY <1>1, <1>2, <1>3, <1>4, <1>5, FoundIsARow, FoundIsGiven DEF SettingsInv

LEMMA SettingsStep == SettingsInv /\ [StoreSettingsNext]_settingsVars => SettingsInv'
<1> SUFFICES ASSUME SettingsInv, [StoreSettingsNext]_settingsVars
             PROVE  SettingsInv'
  OBVIOUS
<1>1. CASE UNCHANGED settingsVars
  <2>1. UNCHANGED <<table, setting, settingsCall, watched, settingsGiven, undone>>
    BY <1>1 DEF settingsVars
  <2> QED
    BY <2>1 DEF SettingsInv, CallHolds, SettingRows, SettingCalls, SettingColumns, Contents,
                SavesAll, OpenStoreSells
<1>2. CASE Materialise
  BY <1>2, MaterialiseKeeps
<1>3. ASSUME NEW c \in SettingsCalls,
             RenameStore(c) \/ PatchPhone(c) \/ PatchLook(c) \/ PatchReceipt(c)
      PROVE  SettingsInv'
  <2>1. PICK sent \in SUBSET StoreColumns : table = "store" /\ ReadSetting(c, "patch", sent)
    BY <1>3 DEF RenameStore, PatchPhone, PatchLook, PatchReceipt
  <2>2. sent \in SUBSET SettingColumns
    BY <2>1 DEF SettingColumns
  <2> QED
    BY <2>1, <2>2, ReadKeeps
<1>4. ASSUME NEW c \in SettingsCalls,
             PatchLabels(c) \/ PatchProfile(c) \/ PatchAppearance(c) \/ PatchCommerce(c)
      PROVE  SettingsInv'
  <2>1. PICK sent \in SUBSET SettingColumns : ReadSetting(c, "patch", sent)
    BY <1>4 DEF PatchLabels, PatchProfile, PatchAppearance, PatchCommerce
  <2> QED
    BY <2>1, ReadKeeps
<1>5. ASSUME NEW c \in SettingsCalls, OpenAdminPage(c) PROVE SettingsInv'
  BY <1>5, ReadKeeps DEF OpenAdminPage
<1>6. ASSUME NEW c \in SettingsCalls, SaveSetting(c) PROVE SettingsInv'
  BY <1>6, SaveKeeps
<1>7. ASSUME NEW c \in SettingsCalls, LeaveSetting(c) PROVE SettingsInv'
  BY <1>7, LeaveKeeps
<1> QED
  BY <1>1, <1>2, <1>3, <1>4, <1>5, <1>6, <1>7 DEF StoreSettingsNext

LEMMA SettingsInvariance == StoreSettingsSpec => []SettingsInv
<1>1. StoreSettingsInit => SettingsInv
  BY SettingsStart
<1>2. SettingsInv /\ [StoreSettingsNext]_settingsVars => SettingsInv'
  BY SettingsStep
<1> QED
  BY <1>1, <1>2, PTL DEF StoreSettingsSpec

\* The row of every table is well typed, and a call that is to save has found
\* it.
THEOREM SettingsTypesHold == StoreSettingsSpec => []StoreSettingsTypeOK
<1>1. SettingsInv => StoreSettingsTypeOK
  BY DEF SettingsInv, StoreSettingsTypeOK, SettingRows, CallHolds, SettingCalls
<1> QED
  BY <1>1, SettingsInvariance, PTL

\* Whatever column is watched, what it holds is what was last given for it,
\* unless a row read before the column changed was saved whole over it since,
\* without giving it: the endpoints that share the Store row (update_fields)
\* are never the cause of a loss, those of the other tables and the pages of
\* the admin can be.
THEOREM LossesHaveACause == StoreSettingsSpec => []LossHasACause
<1>1. SettingsInv => LossHasACause
  BY DEF SettingsInv, LossHasACause
<1> QED
  BY <1>1, SettingsInvariance, PTL

\* No save of the commerce settings is refused by the constraints of the table,
\* however many patches and pages of the admin are under way.
THEOREM OpenStoresSell == StoreSettingsSpec => []ConstraintsNeverBite
<1>1. SettingsInv => ConstraintsNeverBite
  BY DEF SettingsInv, ConstraintsNeverBite, CallHolds
<1> QED
  BY <1>1, SettingsInvariance, PTL
=============================================================================
