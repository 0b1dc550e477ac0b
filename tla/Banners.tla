------------------------------ MODULE Banners ------------------------------
(***************************************************************************)
(* The storefront banners of one store: two lists (placements) of rows     *)
(* with a position.  A new banner takes the position after the last, a     *)
(* deletion renumbers what remains row by row, both outside a transaction; *)
(* an edit saves the whole row as it was read, position included; only a   *)
(* reorder locks the rows it writes.  What a banner shows is abstract.     *)
(***************************************************************************)
EXTENDS Naturals, FiniteSets, Functions

CONSTANTS
  MaxBanners,   \* bound: banners ever made
  Placements,
  BannerCalls   \* requests in progress at a time

ASSUME BannerBoundsAssumption == MaxBanners \in Nat
\* "none" is the placement of what is not there.
ASSUME PlacementsAssumption == "none" \notin Placements

VARIABLES
  banner,      \* the rows: placement and position, or NoBanner
  bannersMade, \* how many were made
  bannerCall,  \* the requests: what they have read, and what is left to do
  untidy       \* history: placements where a request wrote over a change it had
               \* not seen, gave up half way, or was told a position

bannersVars == <<banner, bannersMade, bannerCall, untidy>>

BannerIds == 1..MaxBanners
NoBanner == [placement |-> "none", position |-> 0]
NoBannerCall == [kind |-> "none", id |-> 0, row |-> NoBanner, todo |-> {}, old |-> FALSE]
BannerRow == [placement : Placements, position : 0..MaxBanners]
\* A row and the position it is to have.
Moves == [id : BannerIds, position : 0..MaxBanners]

BannersTypeOK ==
  /\ banner \in [BannerIds -> BannerRow \cup {NoBanner}]
  /\ bannersMade \in 0..MaxBanners
  /\ \A i \in BannerIds : i > bannersMade => banner[i] = NoBanner
  /\ \A c \in BannerCalls :
       /\ bannerCall[c].kind \in
            {"none", "create", "edit", "delete", "deleted", "renumber", "reorder"}
       /\ bannerCall[c].row \in [placement : Placements, position : Nat] \cup {NoBanner}
       /\ bannerCall[c].todo \subseteq Moves
  /\ untidy \subseteq Placements

BannersInit ==
  /\ banner = [i \in BannerIds |-> NoBanner]
  /\ bannersMade = 0
  /\ bannerCall = [c \in BannerCalls |-> NoBannerCall]
  /\ untidy = {}
-----------------------------------------------------------------------------
Listed(p) == {i \in BannerIds : banner[i].placement = p}

\* order_by("position", "id")
Before(i, j) ==
  \/ banner[i].position < banner[j].position
  \/ banner[i].position = banner[j].position /\ i < j

Rank(i, S) == Cardinality({j \in S : Before(j, i)})

Reads(c, kind, i, row) ==
  /\ bannerCall[c] = NoBannerCall
  /\ bannerCall' = [bannerCall EXCEPT ![c] =
       [NoBannerCall EXCEPT !.kind = kind, !.id = i, !.row = row]]
  /\ UNCHANGED <<banner, bannersMade, untidy>>

\* Request `c` goes on as `request`, and what it wrote makes what the others
\* have read old.
Wrote(c, request) ==
  bannerCall' = [d \in BannerCalls |->
    IF d = c THEN request
    ELSE [bannerCall[d] EXCEPT !.old = bannerCall[d].kind \in {"create", "edit", "renumber"}]]

\* The placements of the rows `rows` are out of order from now on.
Untidied(rows) == untidy \cup ({row.placement : row \in rows} \ {"none"})

\* The last row of a list.
LastOf(S) == CHOOSE i \in S : \A j \in S : ~Before(i, j)

\* Mutated form: a new banner shares the last position.
LastPosition(p) ==
  IF Listed(p) = {} THEN 0 ELSE banner[LastOf(Listed(p))].position

\* StorefrontBannerSerializer.create, when the request names no position.
NextPosition(p) ==
  IF Listed(p) = {} THEN 0 ELSE banner[LastOf(Listed(p))].position + 1

CreateRead(c, p) ==
  Reads(c, "create", 0, [placement |-> p, position |-> NextPosition(p)])

CreateSave(c) ==
  LET row == bannerCall[c].row
  IN /\ bannerCall[c].kind = "create"
     /\ bannersMade < MaxBanners /\ row.position <= MaxBanners
     /\ bannersMade' = bannersMade + 1
     /\ banner' = [banner EXCEPT ![bannersMade + 1] = row]
     /\ Wrote(c, NoBannerCall)
     /\ untidy' = IF bannerCall[c].old THEN Untidied({row}) ELSE untidy

\* PATCH: the row is read, some columns are changed, and all are saved; a row
\* that is gone is inserted again.
EditRead(c, i) == banner[i] # NoBanner /\ Reads(c, "edit", i, banner[i])

EditSave(c, row) ==
  LET read == bannerCall[c].row
      i == bannerCall[c].id
  IN /\ bannerCall[c].kind = "edit"
     /\ banner' = [banner EXCEPT ![i] = row]
     /\ Wrote(c, NoBannerCall)
     /\ untidy' = IF row # read \/ bannerCall[c].old
                  THEN Untidied({row, read, banner[i]}) ELSE untidy
     /\ UNCHANGED bannersMade

\* DELETE: the row goes, then the rest of its list is read in order, then each
\* row that is out of place is saved by itself.
DeleteRead(c, i) ==
  banner[i] # NoBanner /\ Reads(c, "delete", i, [banner[i] EXCEPT !.position = 0])

DeleteRow(c) ==
  LET i == bannerCall[c].id
      read == bannerCall[c].row
  IN /\ bannerCall[c].kind = "delete"
     /\ banner' = [banner EXCEPT ![i] = NoBanner]
     /\ Wrote(c, [bannerCall[c] EXCEPT !.kind = "deleted", !.id = 0])
     /\ untidy' = IF banner[i].placement # read.placement
                  THEN Untidied({banner[i]}) ELSE untidy
     /\ UNCHANGED bannersMade

DeleteList(c) ==
  LET listed == Listed(bannerCall[c].row.placement)
      todo == {x \in Moves : /\ x.id \in listed /\ x.position = Rank(x.id, listed)
                             /\ banner[x.id].position # x.position}
  IN /\ bannerCall[c].kind = "deleted"
     /\ bannerCall' = [bannerCall EXCEPT ![c] =
          IF todo = {} THEN NoBannerCall
          ELSE [@ EXCEPT !.kind = "renumber", !.todo = todo]]
     /\ UNCHANGED <<banner, bannersMade, untidy>>

\* The rows are saved in their order.  One that is gone ends the request with
\* an error.
DeleteRenumber(c) ==
  \E x \in bannerCall[c].todo :
    LET rest == bannerCall[c].todo \ {x}
        i == x.id
    IN /\ bannerCall[c].kind = "renumber"
       /\ \A y \in rest : x.position < y.position
       /\ IF banner[i] = NoBanner
          THEN /\ bannerCall' = [bannerCall EXCEPT ![c] = NoBannerCall]
               /\ untidy' = Untidied({bannerCall[c].row})
               /\ UNCHANGED banner
          ELSE /\ banner' = [banner EXCEPT ![i].position = x.position]
               /\ Wrote(c, IF rest = {} THEN NoBannerCall
                           ELSE [bannerCall[c] EXCEPT !.todo = rest])
               /\ untidy' = IF bannerCall[c].old
                            THEN Untidied({bannerCall[c].row, banner[i]}) ELSE untidy
       /\ UNCHANGED bannersMade

\* The reorder view validates that it was sent every banner of the placement.
ReorderRead(c, p) ==
  LET listed == Listed(p)
  IN /\ bannerCall[c] = NoBannerCall /\ listed # {}
     /\ \E place \in Bijection(listed, 0..(Cardinality(listed) - 1)) :
          bannerCall' = [bannerCall EXCEPT ![c] =
            [NoBannerCall EXCEPT !.kind = "reorder",
               !.todo = {x \in Moves : x.id \in listed /\ x.position = place[x.id]},
               !.row = [placement |-> p, position |-> 0]]]
     /\ UNCHANGED <<banner, bannersMade, untidy>>

\* In a transaction the rows are locked and numbered; one that is not there
\* raises, and nothing is kept.
ReorderSave(c) ==
  LET todo == bannerCall[c].todo
      p == bannerCall[c].row.placement
      ids == {x.id : x \in todo}
  IN /\ bannerCall[c].kind = "reorder"
     /\ IF ids \subseteq Listed(p)
        THEN /\ banner' = [i \in BannerIds |->
                  IF i \in ids
                  THEN [placement |-> p,
                        position |-> (CHOOSE x \in todo : x.id = i).position]
                  ELSE banner[i]]
             /\ Wrote(c, NoBannerCall)
             /\ untidy' = IF ids = Listed(p) THEN untidy \ {p} ELSE untidy \cup {p}
        ELSE /\ bannerCall' = [bannerCall EXCEPT ![c] = NoBannerCall]
             /\ UNCHANGED <<banner, untidy>>
     /\ UNCHANGED bannersMade

BannersNext ==
  \E c \in BannerCalls :
    \/ CreateSave(c) \/ DeleteRow(c) \/ DeleteList(c) \/ DeleteRenumber(c) \/ ReorderSave(c)
    \/ \E p \in Placements : CreateRead(c, p) \/ ReorderRead(c, p)
    \/ \E i \in BannerIds : EditRead(c, i) \/ DeleteRead(c, i)
    \/ \E p \in Placements, n \in {0, bannerCall[c].row.position} :
         n <= MaxBanners /\ EditSave(c, [placement |-> p, position |-> n])

BannersSpec == BannersInit /\ [][BannersNext]_bannersVars
-----------------------------------------------------------------------------
\* A list that no request has written over unseen is numbered 0, 1, 2, ... and
\* so is one that has been reordered since: creations, unchanged edits and
\* deletions with their row-by-row renumbering keep it so.
PositionsAreRanks ==
  \A p \in Placements \ untidy :
    \/ \E c \in BannerCalls : /\ bannerCall[c].kind \in {"deleted", "renumber"}
                              /\ bannerCall[c].row.placement = p
    \/ {banner[i].position : i \in Listed(p)} = 0..(Cardinality(Listed(p)) - 1)
=============================================================================
