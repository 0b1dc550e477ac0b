------------------------------ MODULE Accounts ------------------------------
(***************************************************************************)
(* Accounts, the stores they open and the profiles of customers.           *)
(*                                                                         *)
(* Registration looks whether the email is free, and then makes the user   *)
(* with a store of its own, or with a customer profile, in a transaction;  *)
(* an account may open further stores.  A store's slug is searched for     *)
(* without a lock.  The unique columns of the database decide in the end.  *)
(*                                                                         *)
(* A profile is edited by its form, which saves the whole row it read, and *)
(* by a checkout for delivery, which saves the columns it has changed.     *)
(***************************************************************************)
EXTENDS Naturals, FiniteSets

CONSTANTS
  Emails,
  Customers,        \* bound: those that may register as a store's customer
  StoreNames,       \* what the names of stores slugify to
  MaxSuffix,        \* bound: stores of one name
  AccountRequests   \* requests in progress at a time

ASSUME AccountsAssumption == Customers \subseteq Emails /\ MaxSuffix \in Nat \ {0}
\* "none" is the owner of a slug that is free.
ASSUME EmailsAssumption == "none" \notin Emails

VARIABLES
  account,     \* the users: "none", "owner" or "customer" by their registration
  owned,       \* the stores, by slug: the owner; each has a membership for it
               \* and commerce settings, made in the same transaction
  profile,     \* the CustomerProfile of an account
  asking,      \* the requests
  given,       \* history: what was last given for each column of a profile
  overlapped   \* history: accounts one of whose forms was saved over another write

accountsVars == <<account, owned, profile, asking, given, overlapped>>

\* A slug is a name and a suffix; the first store of a name has none (1).
StoreSlugs == StoreNames \X (1..MaxSuffix)
NoSlug == <<"none", 0>>
\* `contact` stands for name and phone, `address` for the three parts of one,
\* 0 for one that is not complete; `region` is 0 for none.
Columns == {"contact", "address", "region"}
ProfileRow == {row \in [Columns -> 0..2] :
                 row["contact"] # 0 /\ row["address"] # 2 /\ row["region"] # 2}
NoProfile == [c \in Columns |-> 0]
Asks(kind, e, slug, row, changes) ==
  [kind |-> kind, email |-> e, slug |-> slug, row |-> row, changes |-> changes, old |-> FALSE]
NotAsking == Asks("none", "none", NoSlug, NoProfile, {})

AccountsTypeOK ==
  /\ account \in [Emails -> {"none", "owner", "customer"}]
  /\ owned \in [StoreSlugs -> Emails \cup {"none"}]
  /\ profile \in [Emails -> ProfileRow \cup {NoProfile}]
  /\ given \in [Emails -> ProfileRow \cup {NoProfile}]
  /\ overlapped \subseteq Emails
  /\ asking \in [AccountRequests ->
       [kind : {"none", "owner", "customer", "another", "form", "checkout"},
        email : Emails \cup {"none"}, slug : StoreSlugs \cup {NoSlug},
        row : ProfileRow \cup {NoProfile}, changes : SUBSET Columns, old : BOOLEAN]]
  \* An account has what it registered for.
  /\ \A e \in Emails :
       /\ account[e] = "owner" => \E s \in StoreSlugs : owned[s] = e
       /\ account[e] = "customer" <=> profile[e] # NoProfile

AccountsInit ==
  /\ account = [e \in Emails |-> "none"]
  /\ owned = [s \in StoreSlugs |-> "none"]
  /\ profile = [e \in Emails |-> NoProfile]
  /\ asking = [r \in AccountRequests |-> NotAsking]
  /\ given = profile /\ overlapped = {}
-----------------------------------------------------------------------------
Answer(r) == asking' = [asking EXCEPT ![r] = NotAsking]

\* create_for_owner: the first suffix that no store of this name has.
FreeSlug(name, s) ==
  /\ s \in {name} \X (1..MaxSuffix) /\ owned[s] = "none"
  /\ \A n \in 1..(s[2] - 1) : owned[<<name, n>>] # "none"

\* RegisterUserSerializer: validate_email finds no account, and a dashboard
\* owner's store gets its slug; a customer's profile starts with a contact and
\* perhaps an address.
StartRegistration(r, e) ==
  /\ asking[r] = NotAsking /\ account[e] = "none"
  /\ \/ \E name \in StoreNames, s \in StoreSlugs :
          /\ FreeSlug(name, s)
          /\ asking' = [asking EXCEPT ![r] = Asks("owner", e, s, NoProfile, {})]
     \/ \E row \in ProfileRow :
          /\ e \in Customers /\ row["region"] = 0
          /\ asking' = [asking EXCEPT ![r] = Asks("customer", e, NoSlug, row, {})]
  /\ UNCHANGED <<account, owned, profile, given, overlapped>>

\* MyStoresView.post.
StartStore(r, e) ==
  /\ asking[r] = NotAsking /\ account[e] # "none"
  /\ \E name \in StoreNames, s \in StoreSlugs :
       /\ FreeSlug(name, s)
       /\ asking' = [asking EXCEPT ![r] = Asks("another", e, s, NoProfile, {})]
  /\ UNCHANGED <<account, owned, profile, given, overlapped>>

\* Mutated form: only the store and its parts are all or nothing.
EnrolInTwo(r) ==
  LET a == asking[r]
  IN /\ a.kind \in {"owner", "customer"}
     /\ account' = IF account[a.email] = "none"
                   THEN [account EXCEPT ![a.email] = a.kind] ELSE account
     /\ IF account[a.email] = "none" /\ a.kind = "owner" /\ owned[a.slug] = "none"
        THEN owned' = [owned EXCEPT ![a.slug] = a.email] ELSE owned' = owned
     /\ IF account[a.email] = "none" /\ a.kind = "customer"
        THEN profile' = [profile EXCEPT ![a.email] = a.row] ELSE profile' = profile
     /\ given' = profile'
     /\ Answer(r) /\ UNCHANGED overlapped

\* The transaction of a registration: if the email or the slug has been taken
\* meanwhile, none of it is kept.
Enrol(r) ==
  LET a == asking[r]
  IN /\ a.kind \in {"owner", "customer"}
     /\ IF account[a.email] # "none" \/ (a.kind = "owner" /\ owned[a.slug] # "none")
        THEN UNCHANGED <<account, owned, profile, given>>
        ELSE /\ account' = [account EXCEPT ![a.email] = a.kind]
             /\ owned' = IF a.kind = "owner" THEN [owned EXCEPT ![a.slug] = a.email] ELSE owned
             /\ profile' = [profile EXCEPT ![a.email] = a.row]
             /\ given' = [given EXCEPT ![a.email] = a.row]
     /\ Answer(r) /\ UNCHANGED overlapped

\* The transaction of create_for_owner alone.
OpenStore(r) ==
  LET a == asking[r]
  IN /\ a.kind = "another"
     /\ owned' = IF owned[a.slug] = "none" THEN [owned EXCEPT ![a.slug] = a.email] ELSE owned
     /\ Answer(r) /\ UNCHANGED <<account, profile, given, overlapped>>

\* CustomerProfileView.patch reads the row, and update sets the columns the
\* form has; a checkout reads it and is given an address, needed only if the
\* profile has none, and perhaps a region.
ReadProfile(r, e, kind, row) ==
  LET changes == {c \in Columns : row[c] # profile[e][c]}
  IN /\ asking[r] = NotAsking /\ profile[e] # NoProfile
     /\ kind = "checkout" =>
          /\ "contact" \notin changes
          /\ "address" \in changes <=> profile[e]["address"] = 0
          /\ "region" \in changes => row["region"] # 0
     /\ asking' = [asking EXCEPT ![r] = Asks(kind, e, NoSlug, row, changes)]
     /\ UNCHANGED <<account, owned, profile, given, overlapped>>

\* The copies of this profile that other requests hold are old now; of an old
\* form, only the whole row matters.
Aged(a) ==
  [kind |-> a.kind, email |-> a.email, slug |-> a.slug, row |-> a.row,
   changes |-> IF a.kind = "form" THEN {} ELSE a.changes, old |-> TRUE]
Outdate(r) ==
  asking' = [q \in AccountRequests |->
    IF q = r THEN NotAsking
    ELSE IF asking[q].kind \in {"form", "checkout"} /\ asking[q].email = asking[r].email
    THEN Aged(asking[q]) ELSE asking[q]]

\* The columns a request is about, as it gives them.
Changed(row, a) == [c \in Columns |-> IF c \in a.changes THEN a.row[c] ELSE row[c]]

\* CustomerProfileSerializer.update ends in save(): every column of the copy.
SaveProfile(r) ==
  LET a == asking[r]
      late == a.old
  IN /\ a.kind = "form"
     /\ profile' = [profile EXCEPT ![a.email] = a.row]
     /\ given' = [given EXCEPT ![a.email] = IF late THEN a.row ELSE Changed(@, a)]
     /\ overlapped' = IF late THEN overlapped \cup {a.email} ELSE overlapped
     /\ Outdate(r) /\ UNCHANGED <<account, owned>>

\* Mutated form: a checkout saves the whole row it has read.
SyncWholeRow(r) ==
  LET a == asking[r]
  IN /\ a.kind = "checkout"
     /\ profile' = [profile EXCEPT ![a.email] = a.row]
     /\ given' = [given EXCEPT ![a.email] = Changed(@, a)]
     /\ Outdate(r) /\ UNCHANGED <<account, owned, overlapped>>

\* _sync_profile_checkout_defaults, in the transaction of the order: the
\* columns that differ from the copy, with update_fields.
SyncProfile(r) ==
  LET a == asking[r]
  IN /\ a.kind = "checkout"
     /\ profile' = [profile EXCEPT ![a.email] = Changed(@, a)]
     /\ given' = [given EXCEPT ![a.email] = Changed(@, a)]
     /\ Outdate(r) /\ UNCHANGED <<account, owned, overlapped>>

\* The request fails, or its transaction is rolled back.
Fails(r) ==
  /\ asking[r] # NotAsking
  /\ Answer(r) /\ UNCHANGED <<account, owned, profile, given, overlapped>>

AccountsNext ==
  \E r \in AccountRequests :
    \/ Enrol(r) \/ OpenStore(r) \/ SaveProfile(r) \/ SyncProfile(r) \/ Fails(r)
    \/ \E e \in Emails :
         \/ StartRegistration(r, e) \/ StartStore(r, e)
         \/ \E kind \in {"form", "checkout"}, row \in ProfileRow :
              ReadProfile(r, e, kind, row)

AccountsSpec == AccountsInit /\ [][AccountsNext]_accountsVars
-----------------------------------------------------------------------------
\* What a customer has last given for each column of the profile, in its form
\* or at a checkout, is what the profile has: a checkout that read an older
\* profile puts nothing back, only a form saved over another write does.
ProfileKeepsEdits == \A e \in Emails \ overlapped : profile[e] = given[e]
=============================================================================
