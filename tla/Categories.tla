----------------------------- MODULE Categories -----------------------------
(***************************************************************************)
(* The categories of one store.  A category may have a parent, and a       *)
(* parent is to have none: the rule looks at the parent's own parent, on a *)
(* row that is read without a lock and before the save.  Saving writes the *)
(* whole row.  The database keeps the parent's existence (foreign key) and *)
(* the slugs of one level apart (unique constraints).                      *)
(***************************************************************************)
EXTENDS Naturals

CONSTANTS
  CategoryIds,   \* keys the rows may have
  Slugs,
  CategoryForms  \* create and edit requests in progress at a time

VARIABLES
  category,  \* the rows: parent (0 for none) and slug, or NoCategory
  form,      \* the requests: the row each is about to save
  lapped     \* history: a form was saved though the rows had changed since it
             \* read them

categoriesVars == <<category, form, lapped>>

ASSUME CategoryIdsAssumption == CategoryIds \subseteq Nat \ {0}
\* "none" is the slug of a category that is not there.
ASSUME SlugsAssumption == "none" \notin Slugs

NoCategory == [parent |-> 0, slug |-> "none"]
NoForm == [id |-> 0, row |-> NoCategory, old |-> FALSE]
Row == [parent : CategoryIds \cup {0}, slug : Slugs]

CategoriesTypeOK ==
  /\ category \in [CategoryIds -> Row \cup {NoCategory}]
  /\ \A i, j \in CategoryIds : category[i].parent = j => category[j] # NoCategory
  /\ \A i, j \in CategoryIds :
       i # j /\ category[i] # NoCategory => category[i] # category[j]
  /\ form \in [CategoryForms -> [id : CategoryIds \cup {0},
                                 row : Row \cup {NoCategory}, old : BOOLEAN]]
  /\ lapped \in BOOLEAN

CategoriesInit ==
  /\ category = [i \in CategoryIds |-> NoCategory]
  /\ form = [f \in CategoryForms |-> NoForm]
  /\ lapped = FALSE
-----------------------------------------------------------------------------
Existing == {i \in CategoryIds : category[i] # NoCategory}

\* Mutated form: a parent needs only to exist and to be another category.
AnyOther(i, j) == j = 0 \/ (j \in Existing /\ j # i)

\* _validate_parent_relationship and validate_parent.
MayBeParent(i, j) == j = 0 \/ (j \in Existing /\ j # i /\ category[j].parent = 0)

\* The serializer's own look for a category of this name on this level.
NameIsFree(i, row) == \A k \in Existing \ {i} : category[k] # row

\* The request is validated: a new category, or an edit that may keep its
\* parent and slug as they were read.
Validate(f, i, row) ==
  /\ form[f] = NoForm
  /\ MayBeParent(i, row.parent) /\ NameIsFree(i, row)
  /\ form' = [form EXCEPT ![f] = [id |-> i, row |-> row, old |-> FALSE]]
  /\ UNCHANGED <<category, lapped>>

\* A committed write makes what the other requests have read old.
Ages(f) == [g \in CategoryForms |-> IF g = f THEN NoForm
                                    ELSE IF form[g] = NoForm THEN NoForm
                                    ELSE [form[g] EXCEPT !.old = TRUE]]

\* Category.save: the row is written, and inserted if it is gone meanwhile,
\* unless a constraint of the database refuses it.
SaveCategory(f) ==
  LET i == form[f].id
      row == form[f].row
      fits == (row.parent = 0 \/ row.parent \in Existing) /\ NameIsFree(i, row)
  IN /\ form[f] # NoForm
     /\ IF fits
        THEN /\ category' = [category EXCEPT ![i] = row]
             /\ form' = Ages(f)
             /\ lapped' = (lapped \/ form[f].old)
        ELSE form' = [form EXCEPT ![f] = NoForm] /\ UNCHANGED <<category, lapped>>

\* destroy: refused (PROTECT) while the category has subcategories; whether it
\* has products is left open.
DeleteCategory(i) ==
  /\ i \in Existing
  /\ \A j \in Existing : category[j].parent # i
  /\ category' = [category EXCEPT ![i] = NoCategory]
  /\ form' = [f \in CategoryForms |->
       IF form[f] = NoForm THEN NoForm ELSE [form[f] EXCEPT !.old = TRUE]]
  /\ UNCHANGED lapped

CategoriesNext ==
  \/ \E f \in CategoryForms :
       \/ SaveCategory(f)
       \/ \E i \in CategoryIds, row \in Row : Validate(f, i, row)
  \/ \E i \in CategoryIds : DeleteCategory(i)

CategoriesSpec == CategoriesInit /\ [][CategoriesNext]_categoriesVars
-----------------------------------------------------------------------------
\* Following parents always comes to an end, no set of categories being closed
\* under them, as long as every form was saved on the rows it was validated
\* against; two edits at once can each make the other's category its parent.
ParentsEnd ==
  \/ lapped
  \/ \A S \in SUBSET Existing : S # {} => \E i \in S : category[i].parent \notin S
=============================================================================
