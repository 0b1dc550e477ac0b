-------------------------------- MODULE AccessProofs --------------------------------
(***************************************************************************)
(* Proofs about customer accounts and the second factor of a login: the    *)
(* modules Accounts and Mfa.                                               *)
(***************************************************************************)
EXTENDS Accounts, Mfa, TLAPS
-----------------------------------------------------------------------------
(* Accounts.                                                                *)
(* That a profile keeps what its customer gave last, for any accounts,     *)
(* stores and requests.  The invariant says what a request in progress     *)
(* knows: a form that is not old agrees with the profile on every column   *)
(* it does not change, and whoever edits a profile has an account, which   *)
(* no registration can take over.                                          *)

ProfileColumns == [Columns -> 0..2]
AccountKinds == {"none", "owner", "customer", "another", "form", "checkout"}
Editing(a) == a.kind \in {"form", "checkout"}

\* What is known of one request.
Informed(a) ==
  /\ a.kind \in AccountKinds /\ a.row \in ProfileColumns /\ a.old \in BOOLEAN
  /\ a.kind # "none" => a.email \in Emails
  /\ Editing(a) => account[a.email] # "none"
  /\ a.kind = "form" /\ ~a.old =>
       \A c \in Columns \ a.changes : a.row[c] = profile[a.email][c]

AccountsInv ==
  /\ account \in [Emails -> {"none", "owner", "customer"}]
  /\ profile \in [Emails -> ProfileColumns] /\ given \in [Emails -> ProfileColumns]
  /\ \A e \in Emails : account[e] = "none" => profile[e] = NoProfile
  /\ asking = [r \in AccountRequests |-> asking[r]]
  /\ \A r \in AccountRequests : Informed(asking[r])
  /\ ProfileKeepsEdits

\* The rows of the model are rows.
LEMMA ProfileRows == ProfileRow \subseteq ProfileColumns /\ NoProfile \in ProfileColumns
  BY DEF ProfileColumns, ProfileRow, NoProfile

LEMMA NothingAsked ==
  ASSUME AccountsInv PROVE Informed(NotAsking) /\ Informed(NotAsking)'
  BY ProfileRows DEF Informed, NotAsking, Asks, AccountKinds, Editing

\* A request is made, or done: the rows stay.
LEMMA RowsStay ==
  ASSUME AccountsInv, NEW r \in AccountRequests, NEW a, Informed(a),
         asking' = [asking EXCEPT ![r] = a],
         UNCHANGED <<account, profile, given, overlapped>>
  PROVE  AccountsInv'
<1>1. \A q \in AccountRequests : asking'[q] = IF q = r THEN a ELSE asking[q]
  BY DEF AccountsInv
<1>2. asking' = [q \in AccountRequests |-> asking'[q]]
  BY DEF AccountsInv
<1>3. \A q \in AccountRequests : Informed(asking'[q])
  BY <1>1 DEF AccountsInv
<1>4. \A q \in AccountRequests : Informed(asking[q])'
  BY <1>3 DEF Informed
<1>5. QED
  BY <1>2, <1>4 DEF AccountsInv, ProfileKeepsEdits

\* A profile is written, by a form or a checkout, and every other copy of it
\* is old.
LEMMA EditKept ==
  ASSUME AccountsInv, NEW r \in AccountRequests, Editing(asking[r]), Outdate(r),
         UNCHANGED account,
         NEW new \in ProfileColumns, profile' = [profile EXCEPT ![asking[r].email] = new],
         NEW g \in ProfileColumns, given' = [given EXCEPT ![asking[r].email] = g],
         overlapped \subseteq overlapped',
         asking[r].email \in overlapped' \/ g = new
  PROVE  AccountsInv'
<1> DEFINE e == asking[r].email
<1>1. e \in Emails /\ account[e] # "none"
  BY DEF AccountsInv, Informed, Editing
<1>2. /\ \A x \in Emails : profile'[x] = IF x = e THEN new ELSE profile[x]
      /\ \A x \in Emails : given'[x] = IF x = e THEN g ELSE given[x]
      /\ profile' \in [Emails -> ProfileColumns] /\ given' \in [Emails -> ProfileColumns]
  BY <1>1 DEF AccountsInv
<1>3. ProfileKeepsEdits'
  BY <1>2 DEF AccountsInv, ProfileKeepsEdits
<1>4. ASSUME NEW q \in AccountRequests
      PROVE  Informed(asking[q])'
  <2>1. Informed(asking[q])
    BY DEF AccountsInv
  <2>2. CASE q = r
    <3>1. asking'[q] = NotAsking
      BY <2>2 DEF Outdate
    <3>2. QED
      BY <3>1, NothingAsked DEF Informed
  <2>3. CASE q # r /\ Editing(asking[q]) /\ asking[q].email = e
    <3>1. asking'[q] = Aged(asking[q])
      BY <2>3 DEF Outdate, Editing
    <3>2. /\ asking'[q].kind = asking[q].kind /\ asking'[q].row = asking[q].row
          /\ asking'[q].email = asking[q].email /\ asking'[q].old = TRUE
      BY <3>1 DEF Aged
    <3>3. QED
      BY <2>1, <3>2 DEF Informed, Editing
  <2>4. CASE q # r /\ ~(Editing(asking[q]) /\ asking[q].email = e)
    <3>1. asking'[q] = asking[q]
      BY <2>4 DEF Outdate, Editing
    <3>2. Editing(asking[q]) => profile'[asking[q].email] = profile[asking[q].email]
      BY <1>2, <2>1, <2>4 DEF Informed, Editing, AccountKinds
    <3>3. QED
      BY <2>1, <3>1, <3>2 DEF Informed, Editing
  <2>5. QED
    BY <2>2, <2>3, <2>4
<1>5. asking' = [q \in AccountRequests |-> asking'[q]]
  BY DEF Outdate
<1>6. \A x \in Emails : account'[x] = "none" => profile'[x] = NoProfile
  BY <1>1, <1>2 DEF AccountsInv
<1>7. QED
  BY <1>2, <1>3, <1>4, <1>5, <1>6 DEF AccountsInv

\* A registration writes a row that nobody can be editing.
LEMMA EnrolKept ==
  ASSUME AccountsInv, NEW r \in AccountRequests, Enrol(r)
  PROVE  AccountsInv'
<1> DEFINE a == asking[r]
<1>1. a.kind \in {"owner", "customer"} /\ asking' = [asking EXCEPT ![r] = NotAsking]
      /\ overlapped' = overlapped
  BY DEF Enrol, Answer
<1>2. a.email \in Emails /\ a.row \in ProfileColumns
  BY <1>1 DEF AccountsInv, Informed
<1>3. CASE UNCHANGED <<account, profile, given>>
  BY <1>1, <1>3, NothingAsked, RowsStay
<1>4. CASE /\ account[a.email] = "none"
           /\ account' = [account EXCEPT ![a.email] = a.kind]
           /\ profile' = [profile EXCEPT ![a.email] = a.row]
           /\ given' = [given EXCEPT ![a.email] = a.row]
  <2> DEFINE e == a.email
  <2>1. /\ \A x \in Emails : account'[x] = IF x = e THEN a.kind ELSE account[x]
        /\ \A x \in Emails : profile'[x] = IF x = e THEN a.row ELSE profile[x]
        /\ \A x \in Emails : given'[x] = IF x = e THEN a.row ELSE given[x]
    BY <1>2, <1>4 DEF AccountsInv
  <2>2. /\ account' \in [Emails -> {"none", "owner", "customer"}]
        /\ profile' \in [Emails -> ProfileColumns] /\ given' \in [Emails -> ProfileColumns]
    BY <1>1, <1>2, <1>4 DEF AccountsInv
  <2>3. ASSUME NEW q \in AccountRequests
        PROVE  Informed(asking[q])'
    <3>1. CASE q = r
      <4>1. asking'[q] = NotAsking
        BY <1>1, <3>1 DEF AccountsInv
      <4>2. QED
        BY <4>1, NothingAsked DEF Informed
    <3>2. CASE q # r
      <4>1. asking'[q] = asking[q] /\ Informed(asking[q])
        BY <1>1, <3>2 DEF AccountsInv
      <4>2. Editing(asking[q]) =>
              /\ asking[q].email # e /\ asking[q].email \in Emails
        BY <1>4, <4>1 DEF Informed, Editing, AccountKinds
      <4>3. QED
        BY <2>1, <4>1, <4>2 DEF Informed, Editing
    <3>3. QED
      BY <3>1, <3>2
  <2>4. asking' = [q \in AccountRequests |-> asking'[q]]
    BY <1>1 DEF AccountsInv
  <2>5. \A x \in Emails : account'[x] = "none" => profile'[x] = NoProfile
    BY <1>1, <2>1 DEF AccountsInv
  <2>6. ProfileKeepsEdits'
    BY <1>1, <2>1 DEF AccountsInv, ProfileKeepsEdits
  <2>7. QED
    BY <2>2, <2>3, <2>4, <2>5, <2>6 DEF AccountsInv
<1>5. QED
  BY <1>3, <1>4 DEF Enrol

\* What a form gives is what the profile then has.
LEMMA SaveKept ==
  ASSUME AccountsInv, NEW r \in AccountRequests, SaveProfile(r)
  PROVE  AccountsInv'
<1> DEFINE a == asking[r]
           e == a.email
           g == IF a.old THEN a.row ELSE Changed(given[e], a)
<1>1. /\ a.kind = "form" /\ UNCHANGED account /\ Outdate(r)
      /\ profile' = [profile EXCEPT ![e] = a.row]
      /\ given' = [given EXCEPT ![e] = IF a.old THEN a.row ELSE Changed(@, a)]
      /\ overlapped' = IF a.old THEN overlapped \cup {e} ELSE overlapped
  BY DEF SaveProfile
<1>2. Editing(a) /\ Informed(a)
  BY <1>1 DEF AccountsInv, Editing
<1>3. a.row \in ProfileColumns /\ e \in Emails /\ given[e] \in ProfileColumns
  BY <1>1, <1>2 DEF AccountsInv, Informed
<1>4. given' = [given EXCEPT ![e] = g]
  BY <1>1, <1>3 DEF AccountsInv
<1>5. g \in ProfileColumns
  BY <1>3 DEF Changed, ProfileColumns
<1>6. overlapped \subseteq overlapped'
  BY <1>1
<1>7. e \in overlapped' \/ g = a.row
  <2>1. CASE a.old \/ e \in overlapped
    BY <1>1, <2>1
  <2>2. CASE ~a.old /\ e \notin overlapped
    <3>1. given[e] = profile[e]
      BY <1>3, <2>2 DEF AccountsInv, ProfileKeepsEdits
    <3>2. \A c \in Columns \ a.changes : a.row[c] = profile[e][c]
      BY <1>1, <1>2, <2>2 DEF Informed
    <3>3. a.row = [c \in Columns |-> a.row[c]]
      BY <1>3 DEF ProfileColumns
    <3>4. Changed(given[e], a) = [c \in Columns |-> a.row[c]]
      BY <3>1, <3>2 DEF Changed
    <3>5. QED
      BY <2>2, <3>3, <3>4
  <2>3. QED
    BY <2>1, <2>2
<1> HIDE DEF g
<1>8. QED
  BY <1>1, <1>2, <1>3, <1>4, <1>5, <1>6, <1>7, EditKept

\* A checkout changes the same columns of both.
LEMMA SyncKept ==
  ASSUME AccountsInv, NEW r \in AccountRequests, SyncProfile(r)
  PROVE  AccountsInv'
<1> DEFINE a == asking[r]
           e == a.email
           n == Changed(profile[e], a)
           g == Changed(given[e], a)
<1>1. /\ a.kind = "checkout" /\ UNCHANGED <<account, overlapped>> /\ Outdate(r)
      /\ profile' = [profile EXCEPT ![e] = Changed(@, a)]
      /\ given' = [given EXCEPT ![e] = Changed(@, a)]
  BY DEF SyncProfile
<1>2. Editing(a) /\ Informed(a)
  BY <1>1 DEF AccountsInv, Editing
<1>3. a.row \in ProfileColumns /\ e \in Emails /\ given[e] \in ProfileColumns /\ profile[e] \in ProfileColumns
  BY <1>1, <1>2 DEF AccountsInv, Informed
<1>4. profile' = [profile EXCEPT ![e] = n] /\ given' = [given EXCEPT ![e] = g]
  BY <1>1, <1>3 DEF AccountsInv
<1>5. n \in ProfileColumns /\ g \in ProfileColumns
  BY <1>3 DEF Changed, ProfileColumns
<1>6. overlapped \subseteq overlapped'
  BY <1>1
<1>7. e \in overlapped' \/ g = n
  BY <1>1, <1>3 DEF AccountsInv, ProfileKeepsEdits
<1> HIDE DEF n, g
<1>8. QED
  BY <1>1, <1>2, <1>4, <1>5, <1>6, <1>7, EditKept

\* What is asked is based on the rows as they are.
LEMMA AskKept ==
  ASSUME AccountsInv, NEW r \in AccountRequests, NEW e \in Emails,
         \/ StartRegistration(r, e) \/ StartStore(r, e)
         \/ \E kind \in {"form", "checkout"}, row \in ProfileRow : ReadProfile(r, e, kind, row)
  PROVE  AccountsInv'
<1>1. UNCHANGED <<account, profile, given, overlapped>>
  BY DEF StartRegistration, StartStore, ReadProfile
<1>2. ASSUME NEW kind \in {"owner", "customer", "another"}, NEW s, NEW row \in ProfileColumns
      PROVE  Informed(Asks(kind, e, s, row, {}))
  BY <1>2 DEF Informed, Asks, AccountKinds, Editing
<1>3. CASE StartRegistration(r, e) \/ StartStore(r, e)
  BY <1>1, <1>2, <1>3, ProfileRows, RowsStay DEF StartRegistration, StartStore
<1>4. ASSUME NEW kind \in {"form", "checkout"}, NEW row \in ProfileRow,
             ReadProfile(r, e, kind, row)
      PROVE  AccountsInv'
  <2> DEFINE changes == {c \in Columns : row[c] # profile[e][c]}
             a == Asks(kind, e, NoSlug, row, changes)
  <2>1. asking' = [asking EXCEPT ![r] = a] /\ profile[e] # NoProfile
    BY <1>4 DEF ReadProfile
  <2>2. account[e] # "none"
    BY <2>1 DEF AccountsInv
  <2>3. /\ a.kind = kind /\ a.email = e /\ a.row = row /\ a.changes = changes
        /\ a.old = FALSE
    BY DEF Asks
  <2>4. \A c \in Columns \ changes : row[c] = profile[e][c]
    OBVIOUS
  <2> HIDE DEF a, changes
  <2>5. Informed(a)
    BY <2>2, <2>3, <2>4, ProfileRows DEF Informed, AccountKinds, Editing
  <2>6. QED
    BY <1>1, <2>1, <2>5, RowsStay
<1>5. QED
  BY <1>3, <1>4

\* The invariant of every reachable state.
LEMMA AccountsInvariance == AccountsSpec => []AccountsInv
<1>1. AccountsInit => AccountsInv
  <2> SUFFICES ASSUME AccountsInit PROVE AccountsInv
    OBVIOUS
  <2>1. \A r \in AccountRequests : Informed(asking[r])
    <3>1. Informed(NotAsking)
      BY DEF Informed, NotAsking, Asks, AccountKinds, Editing, ProfileColumns, NoProfile
    <3>2. QED
      BY <3>1 DEF AccountsInit
  <2>2. QED
    BY <2>1, ProfileRows DEF AccountsInit, AccountsInv, ProfileKeepsEdits
<1>2. AccountsInv /\ [AccountsNext]_accountsVars => AccountsInv'
  <2> SUFFICES ASSUME AccountsInv, [AccountsNext]_accountsVars
               PROVE  AccountsInv'
    OBVIOUS
  <2>1. ASSUME NEW r \in AccountRequests, OpenStore(r) \/ Fails(r)
        PROVE  AccountsInv'
    BY <2>1, NothingAsked, RowsStay DEF OpenStore, Fails, Answer
  <2>2. CASE UNCHANGED accountsVars
    BY <2>2 DEF accountsVars, AccountsInv, Informed, Editing, ProfileKeepsEdits
  <2>3. QED
    BY <2>1, <2>2, EnrolKept, SaveKept, SyncKept, AskKept DEF AccountsNext
<1>3. QED
  BY <1>1, <1>2, PTL DEF AccountsSpec

\* A profile has what its customer gave last for each column, unless a form
\* was saved over another write (CustomerProfileSerializer.update).
THEOREM EditsAreKept == AccountsSpec => []ProfileKeepsEdits
<1>1. AccountsInv => ProfileKeepsEdits
  BY DEF AccountsInv
<1>2. QED
  BY <1>1, AccountsInvariance, PTL
-----------------------------------------------------------------------------
(* That a registration is all or nothing.  A request about a store carries *)
(* a slug, one about a profile a row with a contact, and whoever edits a   *)
(* profile has one.                                                        *)

AskRecord ==
  [kind : AccountKinds, email : Emails \cup {"none"}, slug : StoreSlugs \cup {NoSlug},
   row : ProfileRow \cup {NoProfile}, changes : SUBSET Columns, old : BOOLEAN]

\* What a request carries, by its kind.
AskTyped(a) ==
  /\ a \in AskRecord
  /\ a.kind # "none" => a.email \in Emails
  /\ a.kind \in {"owner", "another"} => a.slug \in StoreSlugs
  /\ a.kind = "owner" => a.row = NoProfile
  /\ a.kind \in {"customer", "form", "checkout"} => a.row \in ProfileRow
  /\ Editing(a) => profile[a.email] # NoProfile

AccountTypesInv ==
  /\ AccountsTypeOK
  /\ \A e \in Emails : profile[e] = NoProfile <=> given[e] = NoProfile
  /\ \A r \in AccountRequests : AskTyped(asking[r])

\* No profile is not a profile, and columns given to one make one.
LEMMA NoProfileIsNone == NoProfile \notin ProfileRow
  BY DEF NoProfile, ProfileRow, Columns

LEMMA ChangedRows ==
  ASSUME NEW row \in ProfileRow, NEW a, a.row \in ProfileRow
  PROVE  Changed(row, a) \in ProfileRow
<1> DEFINE b == a.row
<1>1. b \in ProfileRow /\ row \in ProfileRow
  OBVIOUS
<1> HIDE DEF b
<1>2. [c \in Columns |-> IF c \in a.changes THEN b[c] ELSE row[c]] \in ProfileRow
  BY <1>1 DEF ProfileRow, Columns
<1>3. QED
  BY <1>2 DEF Changed, b

LEMMA AskFields ==
  ASSUME NEW kind \in AccountKinds, NEW e \in Emails \cup {"none"},
         NEW s \in StoreSlugs \cup {NoSlug}, NEW row \in ProfileRow \cup {NoProfile},
         NEW changes \in SUBSET Columns
  PROVE  /\ Asks(kind, e, s, row, changes) \in AskRecord
         /\ Asks(kind, e, s, row, changes).kind = kind
         /\ Asks(kind, e, s, row, changes).email = e
         /\ Asks(kind, e, s, row, changes).slug = s
         /\ Asks(kind, e, s, row, changes).row = row
  BY DEF Asks, AskRecord

LEMMA NobodyAsks ==
  NotAsking \in AskRecord /\ NotAsking.kind = "none"
<1>1. "none" \in AccountKinds /\ {} \in SUBSET Columns
  BY DEF AccountKinds
<1>2. QED
  BY <1>1, AskFields DEF NotAsking

\* A request is made, or done: the rows stay.
LEMMA AskTypesKept ==
  ASSUME AccountTypesInv, NEW r \in AccountRequests, NEW a, AskTyped(a),
         asking' = [asking EXCEPT ![r] = a],
         UNCHANGED <<account, owned, profile, given, overlapped>>
  PROVE  AccountTypesInv'
<1>1. asking \in [AccountRequests -> AskRecord]
  BY DEF AccountTypesInv, AccountsTypeOK, AskRecord, AccountKinds
<1>2. \A q \in AccountRequests : asking'[q] = IF q = r THEN a ELSE asking[q]
  BY <1>1
<1>3. asking' \in [AccountRequests -> AskRecord]
  BY <1>1 DEF AskTyped
<1>4. \A q \in AccountRequests : AskTyped(asking[q])'
  BY <1>2 DEF AccountTypesInv, AskTyped, Editing
<1>5. AccountsTypeOK'
  BY <1>3 DEF AccountTypesInv, AccountsTypeOK, AskRecord, AccountKinds
<1>6. QED
  BY <1>4, <1>5 DEF AccountTypesInv

\* The rows change, the request is done, and no request loses its profile.
LEMMA RowTypesKept ==
  ASSUME AccountTypesInv,
         asking' \in [AccountRequests -> AskRecord],
         \A q \in AccountRequests : AskTyped(asking[q])',
         account' \in [Emails -> {"none", "owner", "customer"}],
         owned' \in [StoreSlugs -> Emails \cup {"none"}],
         profile' \in [Emails -> ProfileRow \cup {NoProfile}],
         given' \in [Emails -> ProfileRow \cup {NoProfile}],
         overlapped' \subseteq Emails,
         \A e \in Emails : account'[e] = "owner" => \E s \in StoreSlugs : owned'[s] = e,
         \A e \in Emails : account'[e] = "customer" <=> profile'[e] # NoProfile,
         \A e \in Emails : profile'[e] = NoProfile <=> given'[e] = NoProfile
  PROVE  AccountTypesInv'
  BY DEF AccountTypesInv, AccountsTypeOK, AskRecord, AccountKinds

\* A transaction of a registration, or of a further store, with its answer.
LEMMA AnswerTypesKept ==
  ASSUME AccountTypesInv, NEW r \in AccountRequests, Answer(r),
         \A e \in Emails : profile[e] # NoProfile => profile'[e] # NoProfile
  PROVE  /\ asking' \in [AccountRequests -> AskRecord]
         /\ \A q \in AccountRequests : AskTyped(asking[q])'
<1>1. asking \in [AccountRequests -> AskRecord]
  BY DEF AccountTypesInv, AccountsTypeOK, AskRecord, AccountKinds
<1>2. \A q \in AccountRequests : asking'[q] = IF q = r THEN NotAsking ELSE asking[q]
  BY <1>1 DEF Answer
<1>3. asking' \in [AccountRequests -> AskRecord]
  BY <1>1, NobodyAsks DEF Answer
<1>4. ASSUME NEW q \in AccountRequests
      PROVE  AskTyped(asking[q])'
  <2>1. CASE q = r
    BY <1>2, <2>1, NobodyAsks DEF AskTyped, Editing
  <2>2. CASE q # r
    BY <1>2, <2>2 DEF AccountTypesInv, AskTyped, Editing
  <2>3. QED
    BY <2>1, <2>2
<1>5. QED
  BY <1>3, <1>4

LEMMA EnrolTypesKept ==
  ASSUME AccountTypesInv, NEW r \in AccountRequests, Enrol(r)
  PROVE  AccountTypesInv'
<1> DEFINE a == asking[r]
           e == a.email
<1>1. a.kind \in {"owner", "customer"} /\ Answer(r) /\ overlapped' = overlapped
  BY DEF Enrol
<1>2. AskTyped(a)
  BY DEF AccountTypesInv
<1>3. CASE UNCHANGED <<account, owned, profile, given>>
  <2>1. AskTyped(NotAsking)
    BY NobodyAsks DEF AskTyped, Editing
  <2>2. QED
    BY <1>1, <1>3, <2>1, AskTypesKept DEF Answer
<1>4. CASE ~ UNCHANGED <<account, owned, profile, given>>
  <2>1. /\ account[e] = "none" /\ account' = [account EXCEPT ![e] = a.kind]
        /\ a.kind = "owner" => owned[a.slug] = "none"
        /\ owned' = IF a.kind = "owner" THEN [owned EXCEPT ![a.slug] = e] ELSE owned
        /\ profile' = [profile EXCEPT ![e] = a.row]
        /\ given' = [given EXCEPT ![e] = a.row]
    BY <1>4 DEF Enrol
  <2>2. e \in Emails /\ a.row \in ProfileRow \cup {NoProfile}
    BY <1>1, <1>2 DEF AskTyped
  <2>3. a.kind = "owner" => a.slug \in StoreSlugs /\ a.row = NoProfile
    BY <1>2 DEF AskTyped
  <2>4. a.kind = "customer" => a.row # NoProfile
    BY <1>2, NoProfileIsNone DEF AskTyped
  <2> HIDE DEF a, e
  <2>5. /\ account \in [Emails -> {"none", "owner", "customer"}]
        /\ owned \in [StoreSlugs -> Emails \cup {"none"}]
        /\ profile \in [Emails -> ProfileRow \cup {NoProfile}]
        /\ given \in [Emails -> ProfileRow \cup {NoProfile}]
        /\ overlapped \subseteq Emails
        /\ \A x \in Emails : account[x] = "owner" => \E s \in StoreSlugs : owned[s] = x
        /\ \A x \in Emails : account[x] = "customer" <=> profile[x] # NoProfile
        /\ \A x \in Emails : profile[x] = NoProfile <=> given[x] = NoProfile
    BY DEF AccountTypesInv, AccountsTypeOK
  <2>6. /\ account' \in [Emails -> {"none", "owner", "customer"}]
        /\ owned' \in [StoreSlugs -> Emails \cup {"none"}]
        /\ profile' \in [Emails -> ProfileRow \cup {NoProfile}]
        /\ given' \in [Emails -> ProfileRow \cup {NoProfile}]
    BY <1>1, <2>1, <2>2, <2>3, <2>5
  <2>7. \A x \in Emails :
          /\ account'[x] = IF x = e THEN a.kind ELSE account[x]
          /\ profile'[x] = IF x = e THEN a.row ELSE profile[x]
          /\ given'[x] = IF x = e THEN a.row ELSE given[x]
    BY <2>1, <2>2, <2>5
  <2>8. ASSUME NEW x \in Emails, account'[x] = "owner"
        PROVE  \E s \in StoreSlugs : owned'[s] = x
    <3>1. CASE x = e
      <4>1. a.kind = "owner" /\ a.slug \in StoreSlugs
        BY <2>3, <2>7, <2>8, <3>1
      <4>2. owned'[a.slug] = x
        BY <2>1, <2>5, <3>1, <4>1
      <4>3. QED
        BY <4>1, <4>2
    <3>2. CASE x # e
      <4>1. PICK s \in StoreSlugs : owned[s] = x
        BY <2>5, <2>7, <2>8, <3>2
      <4>2. owned'[s] = x
        BY <2>1, <2>3, <2>5, <4>1, EmailsAssumption
      <4>3. QED
        BY <4>2
    <3>3. QED
      BY <3>1, <3>2
  <2>9. \A x \in Emails : account'[x] = "customer" <=> profile'[x] # NoProfile
    BY <1>1, <2>3, <2>4, <2>5, <2>7
  <2>10. \A x \in Emails : profile'[x] = NoProfile <=> given'[x] = NoProfile
    BY <2>5, <2>7
  <2>11. \A x \in Emails : profile[x] # NoProfile => profile'[x] # NoProfile
    BY <2>1, <2>5, <2>7
  <2>12. QED
    BY <1>1, <2>5, <2>6, <2>8, <2>9, <2>10, <2>11, AnswerTypesKept, RowTypesKept
<1>5. QED
  BY <1>3, <1>4

LEMMA OpenStoreTypesKept ==
  ASSUME AccountTypesInv, NEW r \in AccountRequests, OpenStore(r)
  PROVE  AccountTypesInv'
<1> DEFINE a == asking[r]
<1>1. /\ a.kind = "another" /\ Answer(r) /\ UNCHANGED <<account, profile, given, overlapped>>
      /\ owned' = IF owned[a.slug] = "none" THEN [owned EXCEPT ![a.slug] = a.email] ELSE owned
  BY DEF OpenStore
<1>2. a.email \in Emails /\ a.slug \in StoreSlugs
  BY <1>1 DEF AccountTypesInv, AskTyped
<1> HIDE DEF a
<1>3. owned \in [StoreSlugs -> Emails \cup {"none"}]
  BY DEF AccountTypesInv, AccountsTypeOK
<1>4. owned' \in [StoreSlugs -> Emails \cup {"none"}]
  BY <1>1, <1>2, <1>3
<1>5. \A s \in StoreSlugs : owned[s] # "none" => owned'[s] = owned[s]
  BY <1>1, <1>2, <1>3
<1>6. \A x \in Emails : account'[x] = "owner" => \E s \in StoreSlugs : owned'[s] = x
  BY <1>1, <1>5, EmailsAssumption DEF AccountTypesInv, AccountsTypeOK
<1>7. /\ asking' \in [AccountRequests -> AskRecord]
      /\ \A q \in AccountRequests : AskTyped(asking[q])'
  BY <1>1, AnswerTypesKept
<1>8. QED
  BY <1>1, <1>4, <1>6, <1>7, RowTypesKept DEF AccountTypesInv, AccountsTypeOK

\* A profile is written by a form or a checkout.
LEMMA EditTypesKept ==
  ASSUME AccountTypesInv, NEW r \in AccountRequests, Editing(asking[r]), Outdate(r),
         UNCHANGED <<account, owned>>,
         NEW new \in ProfileRow, profile' = [profile EXCEPT ![asking[r].email] = new],
         NEW g \in ProfileRow, given' = [given EXCEPT ![asking[r].email] = g],
         overlapped' \subseteq Emails
  PROVE  AccountTypesInv'
<1> DEFINE e == asking[r].email
<1>1. e \in Emails /\ profile[e] # NoProfile
  BY DEF AccountTypesInv, AskTyped, Editing
<1>2. profile \in [Emails -> ProfileRow \cup {NoProfile}] /\ given \in [Emails -> ProfileRow \cup {NoProfile}]
  BY DEF AccountTypesInv, AccountsTypeOK
<1>3. /\ profile' \in [Emails -> ProfileRow \cup {NoProfile}]
      /\ given' \in [Emails -> ProfileRow \cup {NoProfile}]
      /\ \A x \in Emails : profile'[x] = IF x = e THEN new ELSE profile[x]
      /\ \A x \in Emails : given'[x] = IF x = e THEN g ELSE given[x]
  BY <1>1, <1>2
<1>4. \A x \in Emails : /\ profile'[x] = NoProfile <=> profile[x] = NoProfile
                        /\ profile'[x] = NoProfile <=> given'[x] = NoProfile
  BY <1>1, <1>3, NoProfileIsNone DEF AccountTypesInv
<1>5. ASSUME NEW q \in AccountRequests
      PROVE  asking'[q] \in AskRecord /\ AskTyped(asking[q])'
  <2>1. AskTyped(asking[q])
    BY DEF AccountTypesInv
  <2>2. CASE q = r
    <3>1. asking'[q] = NotAsking
      BY <2>2 DEF Outdate
    <3>2. QED
      BY <3>1, NobodyAsks DEF AskTyped, Editing
  <2>3. CASE asking'[q] = Aged(asking[q])
    <3>1. /\ Aged(asking[q]).kind = asking[q].kind /\ Aged(asking[q]).row = asking[q].row
          /\ Aged(asking[q]).email = asking[q].email /\ Aged(asking[q]).slug = asking[q].slug
      BY DEF Aged
    <3>2. Aged(asking[q]) \in AskRecord
      BY <2>1 DEF AskTyped, AskRecord, Aged
    <3>3. QED
      BY <1>4, <2>1, <2>3, <3>1, <3>2 DEF AskTyped, Editing
  <2>4. CASE asking'[q] = asking[q]
    BY <1>4, <2>1, <2>4 DEF AskTyped, Editing
  <2>5. QED
    BY <2>2, <2>3, <2>4 DEF Outdate
<1>6. asking' \in [AccountRequests -> AskRecord]
  BY <1>5 DEF Outdate
<1>7. \A x \in Emails : account'[x] = "customer" <=> profile'[x] # NoProfile
  BY <1>4 DEF AccountTypesInv, AccountsTypeOK
<1>8. QED
  BY <1>3, <1>4, <1>5, <1>6, <1>7, RowTypesKept DEF AccountTypesInv, AccountsTypeOK

LEMMA SaveTypesKept ==
  ASSUME AccountTypesInv, NEW r \in AccountRequests, SaveProfile(r) \/ SyncProfile(r)
  PROVE  AccountTypesInv'
<1> DEFINE a == asking[r]
           e == a.email
<1>1. Editing(a) /\ Outdate(r) /\ UNCHANGED <<account, owned>>
  BY DEF SaveProfile, SyncProfile, Editing
<1>2. e \in Emails /\ a.row \in ProfileRow /\ profile[e] # NoProfile
  BY <1>1 DEF AccountTypesInv, AskTyped, Editing
<1>3. profile[e] \in ProfileRow /\ given[e] \in ProfileRow
  BY <1>2 DEF AccountTypesInv, AccountsTypeOK
<1>4. Changed(profile[e], a) \in ProfileRow /\ Changed(given[e], a) \in ProfileRow
  BY <1>2, <1>3, ChangedRows
<1>5. overlapped' \subseteq Emails
  BY <1>2 DEF SaveProfile, SyncProfile, AccountTypesInv, AccountsTypeOK
<1>6. CASE SaveProfile(r)
  <2>1. /\ profile' = [profile EXCEPT ![e] = a.row]
        /\ given' = [given EXCEPT ![e] = IF a.old THEN a.row ELSE Changed(given[e], a)]
    BY <1>2, <1>6 DEF SaveProfile, AccountTypesInv, AccountsTypeOK
  <2>2. CASE a.old
    BY <1>1, <1>2, <1>5, <2>1, <2>2, EditTypesKept
  <2>3. CASE ~a.old
    BY <1>1, <1>2, <1>4, <1>5, <2>1, <2>3, EditTypesKept
  <2>4. QED
    BY <2>2, <2>3
<1>7. CASE SyncProfile(r)
  <2>1. /\ profile' = [profile EXCEPT ![e] = Changed(profile[e], a)]
        /\ given' = [given EXCEPT ![e] = Changed(given[e], a)]
    BY <1>2, <1>7 DEF SyncProfile, AccountTypesInv, AccountsTypeOK
  <2>2. QED
    BY <1>1, <1>4, <1>5, <2>1, EditTypesKept
<1>8. QED
  BY <1>6, <1>7

LEMMA RequestTypesKept ==
  ASSUME AccountTypesInv, NEW r \in AccountRequests, NEW e \in Emails,
         \/ StartRegistration(r, e) \/ StartStore(r, e)
         \/ \E kind \in {"form", "checkout"}, row \in ProfileRow : ReadProfile(r, e, kind, row)
  PROVE  AccountTypesInv'
<1>1. UNCHANGED <<account, owned, profile, given, overlapped>>
  BY DEF StartRegistration, StartStore, ReadProfile
<1>2. {} \in SUBSET Columns
  OBVIOUS
<1>3. ASSUME NEW s \in StoreSlugs, NEW kind \in {"owner", "another"}
      PROVE  AskTyped(Asks(kind, e, s, NoProfile, {}))
  BY <1>2, <1>3, AskFields DEF AskTyped, AccountKinds, Editing
<1>4. ASSUME NEW row \in ProfileRow
      PROVE  AskTyped(Asks("customer", e, NoSlug, row, {}))
  BY <1>2, <1>4, AskFields DEF AskTyped, AccountKinds, Editing
<1>5. ASSUME NEW row \in ProfileRow, NEW kind \in {"form", "checkout"},
             NEW changes \in SUBSET Columns, profile[e] # NoProfile
      PROVE  AskTyped(Asks(kind, e, NoSlug, row, changes))
  BY <1>5, AskFields DEF AskTyped, AccountKinds, Editing
<1>6. PICK a : AskTyped(a) /\ asking' = [asking EXCEPT ![r] = a]
  <2>1. CASE StartRegistration(r, e)
    BY <1>3, <1>4, <2>1 DEF StartRegistration
  <2>2. CASE StartStore(r, e)
    BY <1>3, <2>2 DEF StartStore
  <2>3. ASSUME NEW kind \in {"form", "checkout"}, NEW row \in ProfileRow,
               ReadProfile(r, e, kind, row)
        PROVE  \E a : AskTyped(a) /\ asking' = [asking EXCEPT ![r] = a]
    BY <1>5, <2>3 DEF ReadProfile
  <2>4. QED
    BY <2>1, <2>2, <2>3
<1>7. QED
  BY <1>1, <1>6, AskTypesKept

\* An account has all it registered for, a store or a profile, or is not there
\* at all, whoever takes its email or its slug meanwhile (RegisterUserSerializer,
\* create_for_owner; a part of SubsystemsTypeOK).
THEOREM AccountTypes == AccountsSpec => []AccountsTypeOK
<1>1. AccountsInit => AccountTypesInv
  <2> SUFFICES ASSUME AccountsInit PROVE AccountTypesInv
    OBVIOUS
  <2>1. asking \in [AccountRequests -> AskRecord]
    BY NobodyAsks DEF AccountsInit
  <2>2. \A r \in AccountRequests : AskTyped(asking[r])
    BY NobodyAsks DEF AccountsInit, AskTyped, Editing
  <2>3. AccountsTypeOK
    BY <2>1 DEF AccountsInit, AccountsTypeOK, AskRecord, AccountKinds
  <2>4. QED
    BY <2>2, <2>3 DEF AccountTypesInv, AccountsInit
<1>2. AccountTypesInv /\ [AccountsNext]_accountsVars => AccountTypesInv'
  <2> SUFFICES ASSUME AccountTypesInv, [AccountsNext]_accountsVars
               PROVE  AccountTypesInv'
    OBVIOUS
  <2>1. ASSUME NEW r \in AccountRequests, Fails(r)
        PROVE  AccountTypesInv'
    <3>1. AskTyped(NotAsking)
      BY NobodyAsks DEF AskTyped, Editing
    <3>2. QED
      BY <2>1, <3>1, AskTypesKept DEF Fails, Answer
  <2>2. CASE UNCHANGED accountsVars
    BY <2>2 DEF accountsVars, AccountTypesInv, AccountsTypeOK, AskTyped, Editing
  <2>3. QED
    BY <2>1, <2>2, EnrolTypesKept, OpenStoreTypesKept, SaveTypesKept, RequestTypesKept
    DEF AccountsNext
<1>3. AccountTypesInv => AccountsTypeOK
  BY DEF AccountTypesInv
<1>4. QED
  BY <1>1, <1>2, <1>3, PTL DEF AccountsSpec
-----------------------------------------------------------------------------
(* Mfa.                                                                     *)
(* What the second factor keeps although no request locks its rows, for    *)
(* any number of requests, secrets and seconds.  Each property rests on    *)
(* what a request in progress knows of the rows it has read:               *)
(*                                                                         *)
(*  - a challenge not yet marked as used has made no session;              *)
(*  - a confirmation under way has read the secret of the row it will      *)
(*    flag, unless a setup wrote in between;                               *)
(*  - a request that found a backup code, alone, found one that has not    *)
(*    counted.                                                             *)

MfaSteps == {"none", "read", "reset", "found", "proved", "saved", "cleared"}
MfaKinds == {"none", "setup", "confirm", "disable", "verify"}
MfaRequest == [kind : MfaKinds, step : MfaSteps, key : 0..MaxSecrets, secret : 0..MaxSecrets,
            code : 0..MaxSecrets, challenge : Seconds]

Typed ==
  /\ device \in [key : 0..MaxSecrets, secret : 0..MaxSecrets, confirmed : BOOLEAN]
  /\ codes \in [Numbers -> {"none", "unused", "used"}]
  /\ app \subseteq Numbers
  /\ made \in 0..MaxSecrets
  /\ clock \in Seconds /\ challenges \subseteq Seconds
  /\ mfa \in [MfaRequests -> MfaRequest]
  /\ \A r \in MfaRequests : mfa[r].step = "found" => mfa[r].code \in Numbers

\* ChallengeMintsOnce: the mark in the cache comes before the session.
ChallengeInv ==
  /\ minted \in [Seconds -> 0..1]
  /\ \A s \in Seconds : minted[s] = 1 => s \in used

\* ConfirmedIsProven: a key is never used again, so that only the row a
\* confirmation has read can be the one it flags.
ConfirmationInv ==
  /\ ConfirmedIsProven
  /\ device.key <= made
  /\ device.key = 0 => device = NoDevice
  /\ \A r \in MfaRequests :
       At(r, "confirm", "proved") =>
         /\ mfa[r].key \in 1..made
         /\ mfa[r].secret \in proven
         /\ mfa[r].key = device.key => device.secret = mfa[r].secret \/ crossed
  /\ \A r \in MfaRequests : At(r, "setup", "reset") => mfa[r].key \in 1..made
  /\ \A r \in MfaRequests : mfa[r].step = "found" => mfa[r].kind # "confirm"

\* BackupCodeCountsOnce: a code is unused until it counts, and new sets are new.
BackupInv ==
  /\ spent \in [Numbers -> Nat]
  /\ BackupCodeCountsOnce
  /\ \A c \in Numbers : codes[c] = "unused" => spent[c] = 0
  /\ \A c \in Numbers : c > made => codes[c] = "none" /\ spent[c] = 0
  /\ \A r \in MfaRequests :
       mfa[r].step = "found" /\ mfa[r].code \notin raced =>
         /\ spent[mfa[r].code] = 0
         /\ \A q \in MfaRequests :
              mfa[q].step = "found" /\ mfa[q].code = mfa[r].code => q = r

MfaInv == Typed /\ ChallengeInv /\ ConfirmationInv /\ BackupInv

\* An idle request is one.
LEMMA NoRequestIsOne == NoRequest \in MfaRequest
  BY MfaBoundsAssumption DEF NoRequest, OnDevice, MfaRequest, MfaKinds, MfaSteps, Seconds

LEMMA InitEstablishes == MfaInit => MfaInv
<1> SUFFICES ASSUME MfaInit PROVE MfaInv
  OBVIOUS
<1> USE MfaBoundsAssumption
<1>1. Typed
  BY NoRequestIsOne DEF MfaInit, Typed, NoDevice, NoRequest, OnDevice, Seconds, Numbers
<1>2. ChallengeInv
  BY DEF MfaInit, ChallengeInv, Seconds
<1>3. ConfirmationInv
  BY DEF MfaInit, ConfirmationInv, ConfirmedIsProven, NoDevice, NoRequest, OnDevice, At
<1>4. BackupInv
  BY DEF MfaInit, BackupInv, BackupCodeCountsOnce, NoRequest, OnDevice, Numbers
<1>5. QED
  BY <1>1, <1>2, <1>3, <1>4 DEF MfaInv

-----------------------------------------------------------------------------
\* How a step writes one request: its step alone, nothing left, or a new one.
LEMMA StepWrites ==
  ASSUME mfa \in [MfaRequests -> MfaRequest], NEW r \in MfaRequests,
         NEW step \in MfaSteps, Step(r, step)
  PROVE  /\ mfa' \in [MfaRequests -> MfaRequest]
         /\ \A q \in MfaRequests : q # r => mfa'[q] = mfa[q]
         /\ mfa'[r].kind = mfa[r].kind /\ mfa'[r].step = step
         /\ mfa'[r].key = mfa[r].key /\ mfa'[r].secret = mfa[r].secret
         /\ mfa'[r].code = mfa[r].code
<1> DEFINE n == [kind |-> mfa[r].kind, step |-> step, key |-> mfa[r].key,
                 secret |-> mfa[r].secret, code |-> mfa[r].code,
                 challenge |-> mfa[r].challenge]
<1>1. mfa' = [mfa EXCEPT ![r] = [mfa[r] EXCEPT !.step = step]]
  BY DEF Step
<1>2. [mfa[r] EXCEPT !.step = step] = n
  <2>1. PICK q \in MfaRequest : q = mfa[r]
    OBVIOUS
  <2>2. QED
    BY <2>1 DEF MfaRequest
<1>3. n \in MfaRequest
  BY DEF MfaRequest
<1>4. /\ n.kind = mfa[r].kind /\ n.step = step /\ n.key = mfa[r].key
      /\ n.secret = mfa[r].secret /\ n.code = mfa[r].code
  OBVIOUS
<1> HIDE DEF n
<1>5. QED
  BY <1>1, <1>2, <1>3, <1>4

LEMMA NewWrites ==
  ASSUME mfa \in [MfaRequests -> MfaRequest], NEW r \in MfaRequests, NEW n \in MfaRequest,
         mfa' = [mfa EXCEPT ![r] = n]
  PROVE  /\ mfa' \in [MfaRequests -> MfaRequest]
         /\ \A q \in MfaRequests : q # r => mfa'[q] = mfa[q]
         /\ mfa'[r] = n
  OBVIOUS

LEMMA DoneWrites ==
  ASSUME mfa \in [MfaRequests -> MfaRequest], NEW r \in MfaRequests, Done(r)
  PROVE  /\ mfa' \in [MfaRequests -> MfaRequest]
         /\ \A q \in MfaRequests : q # r => mfa'[q] = mfa[q]
         /\ mfa'[r] = NoRequest
  BY NoRequestIsOne DEF Done

\* A request that offers a second factor has proved an app code, or found an
\* unused backup code.
LEMMA ProveWrites ==
  ASSUME Typed, NEW r \in MfaRequests, NEW kind \in MfaKinds, NEW s \in Seconds,
         Prove(r, kind, s)
  PROVE  /\ mfa' \in [MfaRequests -> MfaRequest]
         /\ \A q \in MfaRequests : q # r => mfa'[q] = mfa[q]
         /\ mfa'[r].kind = kind
         /\ \/ mfa'[r].step = "proved" /\ UNCHANGED raced
            \/ \E c \in Numbers :
                 /\ codes[c] = "unused"
                 /\ mfa'[r].step = "found" /\ mfa'[r].code = c
                 /\ raced' = IF \E q \in MfaRequests :
                                  mfa[q].step = "found" /\ mfa[q].code = c
                             THEN raced \cup {c} ELSE raced
<1>1. ASSUME NEW step \in MfaSteps, NEW c \in 0..MaxSecrets
      PROVE  Offering(kind, step, c, s) \in MfaRequest
  BY <1>1, MfaBoundsAssumption DEF Offering, MfaRequest
<1>2. 0 \in 0..MaxSecrets /\ Numbers \subseteq 0..MaxSecrets
  BY MfaBoundsAssumption DEF Numbers
<1>3. "proved" \in MfaSteps /\ "found" \in MfaSteps
  BY DEF MfaSteps
<1>4. CASE mfa' = [mfa EXCEPT ![r] = Offering(kind, "proved", 0, s)] /\ UNCHANGED raced
  <2>1. mfa'[r] = Offering(kind, "proved", 0, s)
    BY <1>1, <1>2, <1>3, <1>4, NewWrites DEF Typed
  <2>2. mfa'[r].kind = kind /\ mfa'[r].step = "proved"
    BY <2>1 DEF Offering
  <2>3. QED
    BY <1>1, <1>2, <1>3, <1>4, <2>2, NewWrites DEF Typed
<1>5. ASSUME NEW c \in Numbers, mfa' = [mfa EXCEPT ![r] = Offering(kind, "found", c, s)]
      PROVE  /\ mfa' \in [MfaRequests -> MfaRequest]
             /\ \A q \in MfaRequests : q # r => mfa'[q] = mfa[q]
             /\ mfa'[r].kind = kind /\ mfa'[r].step = "found" /\ mfa'[r].code = c
  <2>1. mfa'[r] = Offering(kind, "found", c, s)
    BY <1>1, <1>2, <1>3, <1>5, NewWrites DEF Typed
  <2>2. mfa'[r].kind = kind /\ mfa'[r].step = "found" /\ mfa'[r].code = c
    BY <2>1 DEF Offering
  <2>3. QED
    BY <1>1, <1>2, <1>3, <1>5, <2>2, NewWrites DEF Typed
<1>6. QED
  BY <1>4, <1>5 DEF Prove
-----------------------------------------------------------------------------
LEMMA Names ==
  /\ MfaKinds = {"none", "setup", "confirm", "disable", "verify"}
  /\ {"read", "reset", "proved", "saved", "cleared"} \subseteq MfaSteps \ {"found"}
  /\ 0 \in 0..MaxSecrets /\ 0 \in Seconds
  BY MfaBoundsAssumption DEF MfaKinds, MfaSteps, Seconds

LEMMA OnDeviceWrites ==
  ASSUME mfa \in [MfaRequests -> MfaRequest], NEW r \in MfaRequests,
         NEW kind \in MfaKinds, NEW step \in MfaSteps,
         NEW key \in 0..MaxSecrets, NEW secret \in 0..MaxSecrets,
         mfa' = [mfa EXCEPT ![r] = OnDevice(kind, step, key, secret)]
  PROVE  /\ mfa' \in [MfaRequests -> MfaRequest]
         /\ \A q \in MfaRequests : q # r => mfa'[q] = mfa[q]
         /\ mfa'[r].kind = kind /\ mfa'[r].step = step
         /\ mfa'[r].key = key /\ mfa'[r].secret = secret
<1>1. OnDevice(kind, step, key, secret) \in MfaRequest
  BY MfaBoundsAssumption DEF OnDevice, MfaRequest, Seconds
<1>2. /\ mfa' \in [MfaRequests -> MfaRequest]
      /\ \A q \in MfaRequests : q # r => mfa'[q] = mfa[q]
      /\ mfa'[r] = OnDevice(kind, step, key, secret)
  BY <1>1, NewWrites
<1>3. QED
  BY <1>2 DEF OnDevice
-----------------------------------------------------------------------------
\* Rows and requests stay what they are.
LEMMA TypesKept ==
  ASSUME Typed, NEW r \in MfaRequests, MfaStep(r)
  PROVE  Typed'
<1> DEFINE requests ==
      /\ mfa' \in [MfaRequests -> MfaRequest]
      /\ \A q \in MfaRequests : mfa'[q].step = "found" => mfa'[q].code \in Numbers
<1> USE MfaBoundsAssumption
<1>0. mfa \in [MfaRequests -> MfaRequest]
  BY DEF Typed
<1>1. CASE SetupRead(r)
  <2>1. requests
    <3>1. mfa' = [mfa EXCEPT ![r] = OnDevice("setup", "read", 0, 0)]
      BY <1>1 DEF SetupRead
    <3>2. 0 \in 0..MaxSecrets /\ 0 \in 0..MaxSecrets
      BY Names DEF Typed
    <3>3. /\ mfa' \in [MfaRequests -> MfaRequest]
          /\ \A q \in MfaRequests : q # r => mfa'[q] = mfa[q]
          /\ mfa'[r].step = "read"
      BY <1>0, <3>1, <3>2, OnDeviceWrites, Names
    <3>4. QED
      BY <3>3 DEF Typed
  <2>2. QED
    BY <1>1, <2>1 DEF SetupRead, Typed, Others
<1>2. CASE SetupReset(r)
  <2> DEFINE key == IF device.key = 0 THEN made + 1 ELSE device.key
  <2>1. key \in 0..MaxSecrets /\ made' \in 0..MaxSecrets
    BY <1>2 DEF SetupReset, Typed
  <2>2. requests
    <3>1. mfa' = [mfa EXCEPT ![r] = OnDevice("setup", "reset", key, 0)]
      BY <1>2 DEF SetupReset
    <3>2. key \in 0..MaxSecrets /\ 0 \in 0..MaxSecrets
      BY <2>1, Names DEF Typed
    <3>3. /\ mfa' \in [MfaRequests -> MfaRequest]
          /\ \A q \in MfaRequests : q # r => mfa'[q] = mfa[q]
          /\ mfa'[r].step = "reset"
      BY <1>0, <3>1, <3>2, OnDeviceWrites, Names
    <3>4. QED
      BY <3>3 DEF Typed
  <2>3. device' = [key |-> key, secret |-> device.secret, confirmed |-> FALSE]
    BY <1>2 DEF SetupReset, Typed
  <2>4. QED
    BY <1>2, <2>1, <2>2, <2>3 DEF SetupReset, Typed, Others
<1>3. CASE SetupSave(r)
  <2>1. requests
    BY <1>3, DoneWrites DEF SetupSave, Typed, NoRequest, OnDevice
  <2>2. CASE RowIsThere(r) /\ made < MaxSecrets
    <3>1. /\ made' = made + 1
          /\ device' = [device EXCEPT !.secret = made', !.confirmed = FALSE]
          /\ app' \in {app, app \cup {made'}}
      BY <1>3, <2>2 DEF SetupSave
    <3>2. made' \in Numbers /\ made' \in 0..MaxSecrets
      BY <2>2, <3>1 DEF Typed, Numbers
    <3>3. device' = [key |-> device.key, secret |-> made', confirmed |-> FALSE]
      BY <3>1 DEF Typed
    <3>4. app' \subseteq Numbers
      BY <3>1, <3>2 DEF Typed
    <3>5. QED
      BY <1>3, <2>1, <3>2, <3>3, <3>4 DEF SetupSave, Typed, Others
  <2>3. CASE ~(RowIsThere(r) /\ made < MaxSecrets)
    BY <1>3, <2>1, <2>3 DEF SetupSave, Typed, Others
  <2>4. QED
    BY <2>2, <2>3
<1>4. CASE ConfirmRead(r)
  <2>1. requests
    <3>1. mfa' = [mfa EXCEPT ![r] = OnDevice("confirm", "proved", device.key, device.secret)]
      BY <1>4 DEF ConfirmRead
    <3>2. device.key \in 0..MaxSecrets /\ device.secret \in 0..MaxSecrets
      BY Names DEF Typed
    <3>3. /\ mfa' \in [MfaRequests -> MfaRequest]
          /\ \A q \in MfaRequests : q # r => mfa'[q] = mfa[q]
          /\ mfa'[r].step = "proved"
      BY <1>0, <3>1, <3>2, OnDeviceWrites, Names
    <3>4. QED
      BY <3>3 DEF Typed
  <2>2. QED
    BY <1>4, <2>1 DEF ConfirmRead, Typed, Others
<1>5. CASE ConfirmSave(r)
  <2>1. CASE RowIsThere(r)
    <3>1. requests
      BY <1>5, <2>1, StepWrites, Names DEF ConfirmSave, Typed
    <3>2. device' = [key |-> device.key, secret |-> device.secret, confirmed |-> TRUE]
      BY <1>5, <2>1 DEF ConfirmSave, Typed
    <3>3. QED
      BY <1>5, <3>1, <3>2 DEF ConfirmSave, Typed, Others
  <2>2. CASE ~RowIsThere(r)
    <3>1. requests
      BY <1>5, <2>2, DoneWrites DEF ConfirmSave, Typed, NoRequest, OnDevice
    <3>2. QED
      BY <1>5, <2>2, <3>1 DEF ConfirmSave, Typed, Others
  <2>3. QED
    BY <2>1, <2>2
<1>6. CASE ConfirmDelete(r)
  <2>1. requests
    BY <1>6, StepWrites, Names DEF ConfirmDelete, Typed
  <2>2. QED
    BY <1>6, <2>1 DEF ConfirmDelete, Typed, Others
<1>7. CASE ConfirmInsert(r)
  <2>1. requests
    BY <1>7, DoneWrites DEF ConfirmInsert, Typed, NoRequest, OnDevice
  <2>2. made' \in 0..MaxSecrets
    BY <1>7 DEF ConfirmInsert, Typed
  <2>3. codes' \in [Numbers -> {"none", "unused", "used"}]
    BY <1>7 DEF ConfirmInsert, Typed
  <2>4. QED
    BY <1>7, <2>1, <2>2, <2>3 DEF ConfirmInsert, Typed, Others
<1>8. CASE Consume(r)
  <2>1. requests
    <3>1. CASE codes[mfa[r].code] = "none"
      BY <1>8, <3>1, DoneWrites DEF Consume, Typed, NoRequest, OnDevice
    <3>2. CASE codes[mfa[r].code] # "none"
      BY <1>8, <3>2, StepWrites, Names DEF Consume, Typed
    <3>3. QED
      BY <3>1, <3>2
  <2>2. codes' \in [Numbers -> {"none", "unused", "used"}]
    BY <1>8 DEF Consume, Typed
  <2>3. QED
    BY <1>8, <2>1, <2>2 DEF Consume, Typed, Others
<1>9. CASE Mint(r)
  <2>1. requests
    BY <1>9, DoneWrites DEF Mint, Typed, NoRequest, OnDevice
  <2>2. QED
    BY <1>9, <2>1 DEF Mint, Typed
<1>10. ASSUME NEW s \in Seconds, VerifyRead(r, s)
       PROVE  Typed'
  <2>1. requests
    BY <1>10, ProveWrites, Names DEF VerifyRead, Typed
  <2>2. QED
    BY <1>10, <2>1 DEF VerifyRead, Typed, Others
<1>11. CASE DisableRead(r)
  <2>1. 0 \in Seconds
    BY DEF Seconds
  <2>2. requests
    <3>1. CASE device.confirmed
      BY <1>11, <2>1, <3>1, ProveWrites, Names DEF DisableRead, Typed
    <3>2. CASE ~device.confirmed
      <4>1. Offering("disable", "proved", 0, 0) = OnDevice("disable", "proved", 0, 0)
        BY DEF Offering, OnDevice
      <4>2. QED
        BY <1>11, <3>2, <4>1, OnDeviceWrites, Names DEF DisableRead, Typed
    <3>3. QED
      BY <3>1, <3>2
  <2>3. QED
    BY <1>11, <2>2 DEF DisableRead, Typed, Others
<1>12. CASE DisableDevice(r)
  <2>1. requests
    BY <1>12, StepWrites, Names DEF DisableDevice, Typed
  <2>2. QED
    BY <1>12, <2>1 DEF DisableDevice, Typed, NoDevice, Others
<1>13. CASE DisableCodes(r)
  <2>1. requests
    BY <1>13, DoneWrites DEF DisableCodes, Typed, NoRequest, OnDevice
  <2>2. QED
    BY <1>13, <2>1 DEF DisableCodes, Typed, Others
<1>14. QED
  BY <1>1, <1>2, <1>3, <1>4, <1>5, <1>6, <1>7, <1>8, <1>9, <1>10, <1>11, <1>12, <1>13
  DEF MfaStep
-----------------------------------------------------------------------------
\* Sessions are made by Mint alone, after the mark.
LEMMA ChallengeKept ==
  ASSUME ChallengeInv, NEW r \in MfaRequests, MfaStep(r)
  PROVE  ChallengeInv'
<1>1. CASE Mint(r)
  <2> DEFINE s == mfa[r].challenge
  <2>1. used' = used \cup {s}
    BY <1>1 DEF Mint
  <2>2. minted' = IF s \in used THEN minted ELSE [minted EXCEPT ![s] = @ + 1]
    BY <1>1 DEF Mint
  <2> HIDE DEF s
  <2>3. CASE s \in used
    BY <2>1, <2>2, <2>3 DEF ChallengeInv
  <2>4. CASE s \notin used
    <3>1. ASSUME NEW x \in Seconds
          PROVE  minted'[x] \in 0..1 /\ (minted'[x] = 1 => x \in used')
      <4>1. minted[x] \in 0..1 /\ (minted[x] = 1 => x \in used)
        BY DEF ChallengeInv
      <4>2. minted'[x] = IF x = s THEN minted[x] + 1 ELSE minted[x]
        BY <2>2, <2>4 DEF ChallengeInv
      <4>3. QED
        BY <2>1, <2>4, <4>1, <4>2
    <3>2. minted' = [x \in Seconds |-> minted'[x]]
      BY <2>2, <2>4 DEF ChallengeInv
    <3>3. QED
      BY <3>1, <3>2 DEF ChallengeInv
  <2>5. QED
    BY <2>3, <2>4
<1>2. CASE UNCHANGED <<minted, used>>
  BY <1>2 DEF ChallengeInv
<1>3. Mint(r) \/ UNCHANGED <<minted, used>>
  BY DEF MfaStep, Others, SetupRead, SetupReset, SetupSave, ConfirmRead, ConfirmSave,
         ConfirmDelete, ConfirmInsert, Consume, VerifyRead, DisableRead, DisableDevice,
         DisableCodes
<1>4. QED
  BY <1>1, <1>2, <1>3
-----------------------------------------------------------------------------
\* What a step leaves alone that writes no device and proves nothing new.
LEMMA ConfirmationUntouched ==
  ASSUME ConfirmationInv, Typed, UNCHANGED <<device, proven, crossed>>,
         made' \in {made, made + 1},
         \A q \in MfaRequests :
           \/ mfa'[q] = mfa[q]
           \/ /\ ~(mfa'[q].kind = "confirm" /\ mfa'[q].step = "proved")
              /\ ~(mfa'[q].kind = "setup" /\ mfa'[q].step = "reset")
              /\ mfa'[q].step = "found" => mfa'[q].kind # "confirm"
  PROVE  ConfirmationInv'
<1>1. made \in Nat /\ made <= made'
  BY MfaBoundsAssumption DEF Typed
<1>2. ConfirmedIsProven' /\ device'.key <= made' /\ (device'.key = 0 => device' = NoDevice)
  BY <1>1, MfaBoundsAssumption DEF ConfirmationInv, ConfirmedIsProven, Typed
<1>3. ASSUME NEW q \in MfaRequests
      PROVE  /\ At(q, "confirm", "proved")' =>
                  /\ mfa'[q].key \in 1..made'
                  /\ mfa'[q].secret \in proven'
                  /\ mfa'[q].key = device'.key =>
                       device'.secret = mfa'[q].secret \/ crossed'
             /\ At(q, "setup", "reset")' => mfa'[q].key \in 1..made'
             /\ mfa'[q].step = "found" => mfa'[q].kind # "confirm"
  BY <1>1, MfaBoundsAssumption DEF ConfirmationInv, At, Typed
<1>4. QED
  BY <1>2, <1>3 DEF ConfirmationInv

\* A setup that writes under a confirmation is noted.
LEMMA PassedOver ==
  ASSUME ConfirmationInv, NEW r \in MfaRequests, made \in Nat, made' \in Nat, made <= made',
         proven' = proven, crossed' = Crosses,
         \A q \in MfaRequests : q # r => mfa'[q] = mfa[q],
         mfa'[r].kind # "confirm"
  PROVE  \A q \in MfaRequests :
           At(q, "confirm", "proved")' => /\ mfa'[q].key \in 1..made'
                                          /\ mfa'[q].secret \in proven'
                                          /\ crossed'
<1> SUFFICES ASSUME NEW q \in MfaRequests, At(q, "confirm", "proved")'
             PROVE  /\ mfa'[q].key \in 1..made'
                    /\ mfa'[q].secret \in proven'
                    /\ crossed'
  OBVIOUS
<1>1. q # r /\ mfa'[q] = mfa[q]
  BY DEF At
<1>2. At(q, "confirm", "proved")
  BY <1>1 DEF At
<1>3. mfa[q].key \in 1..made /\ mfa[q].secret \in proven
  BY <1>2 DEF ConfirmationInv
<1>4. crossed'
  BY <1>2 DEF Crosses
<1>5. QED
  BY <1>1, <1>3, <1>4

LEMMA ConfirmationKept ==
  ASSUME Typed, ConfirmationInv, NEW r \in MfaRequests, MfaStep(r)
  PROVE  ConfirmationInv'
<1>0. mfa \in [MfaRequests -> MfaRequest] /\ made \in Nat
  BY MfaBoundsAssumption DEF Typed
<1>1. CASE SetupRead(r)
  <2>1. mfa' = [mfa EXCEPT ![r] = OnDevice("setup", "read", 0, 0)]
    BY <1>1 DEF SetupRead
  <2>2. /\ \A q \in MfaRequests : q # r => mfa'[q] = mfa[q]
        /\ mfa'[r].kind = "setup" /\ mfa'[r].step = "read"
    BY <1>0, <2>1, OnDeviceWrites, Names
  <2>3. QED
    BY <1>1, <2>2, ConfirmationUntouched DEF SetupRead
<1>2. CASE SetupReset(r)
  <2> DEFINE key == IF device.key = 0 THEN made + 1 ELSE device.key
  <2>1. /\ key \in 0..MaxSecrets /\ key # 0 /\ key <= made' /\ made <= made'
        /\ made' \in Nat
    <3>1. /\ made < MaxSecrets
          /\ made' = IF device.key = 0 THEN made + 1 ELSE made
      BY <1>2 DEF SetupReset
    <3>2. device.key \in 0..MaxSecrets /\ device.key <= made
      BY DEF Typed, ConfirmationInv
    <3>3. QED
      BY <1>0, <3>1, <3>2, MfaBoundsAssumption
  <2>2. mfa' = [mfa EXCEPT ![r] = OnDevice("setup", "reset", key, 0)]
    BY <1>2 DEF SetupReset
  <2>3. /\ \A q \in MfaRequests : q # r => mfa'[q] = mfa[q]
        /\ mfa'[r].kind = "setup" /\ mfa'[r].step = "reset" /\ mfa'[r].key = key
    <3> HIDE DEF key
    <3>1. key \in 0..MaxSecrets /\ 0 \in 0..MaxSecrets
      BY <2>1, Names
    <3>2. "setup" \in MfaKinds /\ "reset" \in MfaSteps
      BY Names
    <3>3. /\ mfa' \in [MfaRequests -> MfaRequest]
          /\ \A q \in MfaRequests : q # r => mfa'[q] = mfa[q]
          /\ mfa'[r].kind = "setup" /\ mfa'[r].step = "reset"
          /\ mfa'[r].key = key /\ mfa'[r].secret = 0
      BY <1>0, <2>2, <3>1, <3>2, OnDeviceWrites
    <3>4. QED
      BY <3>3
  <2>4. device' = [key |-> key, secret |-> device.secret, confirmed |-> FALSE]
    BY <1>2 DEF SetupReset, Typed
  <2>5. device'.key = key /\ ~device'.confirmed
    BY <2>4
  <2>6. proven' = proven /\ crossed' = Crosses
    BY <1>2 DEF SetupReset
  <2> HIDE DEF key
  <2>7. \A q \in MfaRequests :
          At(q, "confirm", "proved")' => /\ mfa'[q].key \in 1..made'
                                         /\ mfa'[q].secret \in proven'
                                         /\ crossed'
    BY <1>0, <2>1, <2>3, <2>6, PassedOver
  <2>8. \A q \in MfaRequests : At(q, "setup", "reset")' => mfa'[q].key \in 1..made'
    BY <1>0, <2>1, <2>3 DEF ConfirmationInv, At, Typed
  <2>9. \A q \in MfaRequests : mfa'[q].step = "found" => mfa'[q].kind # "confirm"
    BY <2>3 DEF ConfirmationInv
  <2>10. QED
    BY <2>1, <2>5, <2>7, <2>8, <2>9 DEF ConfirmationInv, ConfirmedIsProven
<1>3. CASE SetupSave(r)
  <2>1. /\ \A q \in MfaRequests : q # r => mfa'[q] = mfa[q]
        /\ mfa'[r] = NoRequest
    BY <1>0, <1>3, DoneWrites DEF SetupSave
  <2>2. mfa'[r].kind = "none" /\ mfa'[r].step = "none"
    BY <2>1 DEF NoRequest, OnDevice
  <2>3. CASE RowIsThere(r) /\ made < MaxSecrets
    <3>1. /\ made' = made + 1 /\ crossed' = Crosses /\ proven' = proven
          /\ device' = [device EXCEPT !.secret = made', !.confirmed = FALSE]
      BY <1>3, <2>3 DEF SetupSave
    <3>2. device' = [key |-> device.key, secret |-> made', confirmed |-> FALSE]
      BY <3>1 DEF Typed
    <3>3. device'.key = device.key /\ ~device'.confirmed
      BY <3>2
    <3>4. device.key \in 1..made
      BY <1>3, <2>3 DEF SetupSave, RowIsThere, ConfirmationInv
    <3>5. \A q \in MfaRequests :
            At(q, "confirm", "proved")' => /\ mfa'[q].key \in 1..made'
                                           /\ mfa'[q].secret \in proven'
                                           /\ crossed'
      BY <1>0, <2>1, <2>2, <3>1, PassedOver
    <3>6. \A q \in MfaRequests : At(q, "setup", "reset")' => mfa'[q].key \in 1..made'
      BY <1>0, <2>1, <2>2, <3>1 DEF ConfirmationInv, At, Typed
    <3>7. \A q \in MfaRequests : mfa'[q].step = "found" => mfa'[q].kind # "confirm"
      BY <2>1, <2>2 DEF ConfirmationInv
    <3>8. device'.key <= made' /\ device'.key # 0
      BY <1>0, <3>1, <3>3, <3>4
    <3>9. QED
      BY <3>3, <3>5, <3>6, <3>7, <3>8 DEF ConfirmationInv, ConfirmedIsProven
  <2>4. CASE ~(RowIsThere(r) /\ made < MaxSecrets)
    BY <1>3, <2>1, <2>2, <2>4, ConfirmationUntouched DEF SetupSave
  <2>5. QED
    BY <2>3, <2>4
<1>4. CASE ConfirmRead(r)
  <2>1. mfa' = [mfa EXCEPT ![r] = OnDevice("confirm", "proved", device.key, device.secret)]
    BY <1>4 DEF ConfirmRead
  <2>2. device.key \in 0..MaxSecrets /\ device.secret \in 0..MaxSecrets
    BY DEF Typed
  <2>3. /\ \A q \in MfaRequests : q # r => mfa'[q] = mfa[q]
        /\ mfa'[r].kind = "confirm" /\ mfa'[r].step = "proved"
        /\ mfa'[r].key = device.key /\ mfa'[r].secret = device.secret
    <3>1. "confirm" \in MfaKinds /\ "proved" \in MfaSteps
      BY Names
    <3>2. PICK key \in 0..MaxSecrets, secret \in 0..MaxSecrets :
            key = device.key /\ secret = device.secret
      BY <2>2
    <3>3. mfa' = [mfa EXCEPT ![r] = OnDevice("confirm", "proved", key, secret)]
      BY <2>1, <3>2
    <3>4. /\ mfa' \in [MfaRequests -> MfaRequest]
          /\ \A q \in MfaRequests : q # r => mfa'[q] = mfa[q]
          /\ mfa'[r].kind = "confirm" /\ mfa'[r].step = "proved"
          /\ mfa'[r].key = key /\ mfa'[r].secret = secret
      BY <1>0, <3>1, <3>3, OnDeviceWrites
    <3>5. QED
      BY <3>2, <3>4
  <2>4. device.secret # 0
    BY <1>4, MfaBoundsAssumption DEF ConfirmRead, Typed, Numbers
  <2>5. device.key \in 1..made
    BY <1>0, <2>2, <2>4, MfaBoundsAssumption DEF ConfirmationInv, NoDevice
  <2>6. proven' = proven \cup {device.secret} /\ UNCHANGED <<device, made, crossed>>
    BY <1>4 DEF ConfirmRead
  <2>7. ASSUME NEW q \in MfaRequests, At(q, "confirm", "proved")'
        PROVE  /\ mfa'[q].key \in 1..made'
               /\ mfa'[q].secret \in proven'
               /\ mfa'[q].key = device'.key =>
                    device'.secret = mfa'[q].secret \/ crossed'
    <3>1. CASE q = r
      BY <2>3, <2>5, <2>6, <3>1
    <3>2. CASE q # r
      BY <2>3, <2>6, <2>7, <3>2 DEF ConfirmationInv, At
    <3>3. QED
      BY <3>1, <3>2
  <2>8. \A q \in MfaRequests : /\ At(q, "setup", "reset")' => mfa'[q].key \in 1..made'
                               /\ mfa'[q].step = "found" => mfa'[q].kind # "confirm"
    BY <2>3, <2>6 DEF ConfirmationInv, At
  <2>9. ConfirmedIsProven' /\ device'.key <= made' /\ (device'.key = 0 => device' = NoDevice)
    BY <2>6 DEF ConfirmationInv, ConfirmedIsProven
  <2>10. QED
    BY <2>7, <2>8, <2>9 DEF ConfirmationInv
<1>5. CASE ConfirmSave(r)
  <2>1. CASE RowIsThere(r)
    <3>1. /\ \A q \in MfaRequests : q # r => mfa'[q] = mfa[q]
          /\ mfa'[r].step = "saved"
      BY <1>0, <1>5, <2>1, StepWrites, Names DEF ConfirmSave
    <3>2. device' = [key |-> device.key, secret |-> device.secret, confirmed |-> TRUE]
      BY <1>5, <2>1 DEF ConfirmSave, Typed
    <3>3. device'.key = device.key /\ device'.secret = device.secret
      BY <3>2
    <3>4. UNCHANGED <<made, proven, crossed>>
      BY <1>5 DEF ConfirmSave
    <3>5. device.key # 0 /\ (device.secret \in proven \/ crossed)
      BY <1>5, <2>1 DEF ConfirmSave, RowIsThere, ConfirmationInv
    <3>6. ConfirmedIsProven' /\ device'.key <= made' /\ device'.key # 0
      BY <3>3, <3>4, <3>5 DEF ConfirmationInv, ConfirmedIsProven
    <3>7. \A q \in MfaRequests :
            At(q, "confirm", "proved")' =>
              /\ mfa'[q].key \in 1..made'
              /\ mfa'[q].secret \in proven'
              /\ mfa'[q].key = device'.key => device'.secret = mfa'[q].secret \/ crossed'
      BY <3>1, <3>3, <3>4 DEF ConfirmationInv, At
    <3>8. \A q \in MfaRequests : /\ At(q, "setup", "reset")' => mfa'[q].key \in 1..made'
                                 /\ mfa'[q].step = "found" => mfa'[q].kind # "confirm"
      BY <3>1, <3>4 DEF ConfirmationInv, At
    <3>9. QED
      BY <3>6, <3>7, <3>8 DEF ConfirmationInv
  <2>2. CASE ~RowIsThere(r)
    <3>1. /\ \A q \in MfaRequests : q # r => mfa'[q] = mfa[q]
          /\ mfa'[r] = NoRequest
      BY <1>0, <1>5, <2>2, DoneWrites DEF ConfirmSave
    <3>2. mfa'[r].kind = "none" /\ mfa'[r].step = "none"
      BY <3>1 DEF NoRequest, OnDevice
    <3>3. QED
      BY <1>5, <2>2, <3>1, <3>2, ConfirmationUntouched DEF ConfirmSave
  <2>3. QED
    BY <2>1, <2>2
<1>6. CASE ConfirmDelete(r) \/ DisableCodes(r) \/ ConfirmInsert(r) \/ Mint(r)
  <2>1. /\ \A q \in MfaRequests : q # r => mfa'[q] = mfa[q]
        /\ mfa'[r].step \in {"cleared", "none"}
    <3>1. CASE Step(r, "cleared")
      BY <1>0, <3>1, StepWrites, Names
    <3>2. CASE Done(r)
      BY <1>0, <3>2, DoneWrites DEF NoRequest, OnDevice
    <3>3. QED
      BY <1>6, <3>1, <3>2 DEF ConfirmDelete, DisableCodes, ConfirmInsert, Mint
  <2>2. UNCHANGED <<device, proven, crossed>> /\ made' \in {made, made + 1}
    BY <1>6 DEF ConfirmDelete, DisableCodes, ConfirmInsert, Mint
  <2>3. QED
    BY <2>1, <2>2, ConfirmationUntouched
<1>7. CASE Consume(r)
  <2>1. /\ \A q \in MfaRequests : q # r => mfa'[q] = mfa[q]
        /\ mfa'[r].kind # "confirm" /\ mfa'[r].step \in {"none", "proved"}
    <3>1. CASE Step(r, "proved")
      <4>1. mfa[r].kind # "confirm"
        BY <1>7 DEF Consume, ConfirmationInv
      <4>2. QED
        BY <1>0, <3>1, <4>1, StepWrites, Names
    <3>2. CASE Done(r)
      BY <1>0, <3>2, DoneWrites DEF NoRequest, OnDevice
    <3>3. QED
      BY <1>7, <3>1, <3>2 DEF Consume
  <2>2. UNCHANGED <<device, proven, crossed, made>>
    BY <1>7 DEF Consume
  <2>3. QED
    BY <2>1, <2>2, ConfirmationUntouched
<1>8. ASSUME NEW s \in Seconds, VerifyRead(r, s)
      PROVE  ConfirmationInv'
  <2>1. /\ \A q \in MfaRequests : q # r => mfa'[q] = mfa[q]
        /\ mfa'[r].kind = "verify"
    BY <1>8, ProveWrites, Names DEF VerifyRead
  <2>2. UNCHANGED <<device, proven, crossed, made>>
    BY <1>8 DEF VerifyRead
  <2>3. QED
    BY <2>1, <2>2, ConfirmationUntouched
<1>9. CASE DisableRead(r)
  <2>1. /\ \A q \in MfaRequests : q # r => mfa'[q] = mfa[q]
        /\ mfa'[r].kind = "disable"
    <3>1. CASE device.confirmed
      BY <1>9, <3>1, ProveWrites, Names DEF DisableRead
    <3>2. CASE ~device.confirmed
      <4>1. mfa' = [mfa EXCEPT ![r] = OnDevice("disable", "proved", 0, 0)]
        BY <1>9, <3>2 DEF DisableRead, Offering, OnDevice
      <4>2. QED
        BY <1>0, <4>1, OnDeviceWrites, Names
    <3>3. QED
      BY <3>1, <3>2
  <2>2. UNCHANGED <<device, proven, crossed, made>>
    BY <1>9 DEF DisableRead
  <2>3. QED
    BY <2>1, <2>2, ConfirmationUntouched
<1>10. CASE DisableDevice(r)
  <2>1. /\ \A q \in MfaRequests : q # r => mfa'[q] = mfa[q]
        /\ mfa'[r].step = "cleared"
    BY <1>0, <1>10, StepWrites, Names DEF DisableDevice
  <2>2. device' = NoDevice /\ UNCHANGED <<made, proven>>
    BY <1>10 DEF DisableDevice
  <2>3. device'.key = 0 /\ ~device'.confirmed
    BY <2>2 DEF NoDevice
  <2>4. \A q \in MfaRequests :
          At(q, "confirm", "proved")' => /\ mfa'[q].key \in 1..made'
                                         /\ mfa'[q].secret \in proven'
                                         /\ mfa'[q].key # device'.key
    BY <1>0, <2>1, <2>2, <2>3 DEF ConfirmationInv, At
  <2>5. \A q \in MfaRequests : /\ At(q, "setup", "reset")' => mfa'[q].key \in 1..made'
                               /\ mfa'[q].step = "found" => mfa'[q].kind # "confirm"
    BY <2>1, <2>2 DEF ConfirmationInv, At
  <2>6. device'.key <= made'
    BY <1>0, <2>2, <2>3
  <2>7. QED
    BY <2>2, <2>3, <2>4, <2>5, <2>6 DEF ConfirmationInv, ConfirmedIsProven
<1>11. QED
  BY <1>1, <1>2, <1>3, <1>4, <1>5, <1>6, <1>7, <1>8, <1>9, <1>10 DEF MfaStep
-----------------------------------------------------------------------------
\* What a step leaves alone that touches no backup code.
LEMMA BackupUntouched ==
  ASSUME Typed, BackupInv, UNCHANGED <<codes, spent, raced>>,
         made' \in {made, made + 1},
         \A q \in MfaRequests : mfa'[q] = mfa[q] \/ mfa'[q].step # "found"
  PROVE  BackupInv'
<1>1. made \in Nat /\ made' \in Nat /\ made <= made'
  BY MfaBoundsAssumption DEF Typed
<1>2. \A c \in Numbers : c > made' => c > made
  BY <1>1 DEF Numbers
<1>3. ASSUME NEW q \in MfaRequests, mfa'[q].step = "found", mfa'[q].code \notin raced'
      PROVE  /\ spent'[mfa'[q].code] = 0
             /\ \A p \in MfaRequests :
                  mfa'[p].step = "found" /\ mfa'[p].code = mfa'[q].code => p = q
  BY <1>3 DEF BackupInv
<1>4. QED
  BY <1>2, <1>3 DEF BackupInv, BackupCodeCountsOnce

\* The codes of a user are deleted.
LEMMA BackupDeleted ==
  ASSUME Typed, BackupInv, UNCHANGED <<spent, raced, made>>,
         codes' = [c \in Numbers |-> "none"],
         \A q \in MfaRequests : mfa'[q] = mfa[q] \/ mfa'[q].step # "found"
  PROVE  BackupInv'
<1>1. ASSUME NEW q \in MfaRequests, mfa'[q].step = "found", mfa'[q].code \notin raced'
      PROVE  /\ spent'[mfa'[q].code] = 0
             /\ \A p \in MfaRequests :
                  mfa'[p].step = "found" /\ mfa'[p].code = mfa'[q].code => p = q
  BY <1>1 DEF BackupInv
<1>2. \A c \in Numbers : codes'[c] = "none"
  OBVIOUS
<1>3. QED
  BY <1>1, <1>2 DEF BackupInv, BackupCodeCountsOnce

\* Two requests that hold one code are the race that is noted.
LEMMA BackupFound ==
  ASSUME Typed, BackupInv, NEW r \in MfaRequests, NEW c \in Numbers,
         UNCHANGED <<codes, spent, made>>,
         \A q \in MfaRequests : q # r => mfa'[q] = mfa[q],
         codes[c] = "unused", mfa'[r].step = "found", mfa'[r].code = c,
         raced' = IF \E q \in MfaRequests : mfa[q].step = "found" /\ mfa[q].code = c
                  THEN raced \cup {c} ELSE raced
  PROVE  BackupInv'
<1>1. raced \subseteq raced'
  OBVIOUS
<1>2. ASSUME NEW q \in MfaRequests, mfa'[q].step = "found", mfa'[q].code \notin raced'
      PROVE  /\ spent'[mfa'[q].code] = 0
             /\ \A p \in MfaRequests :
                  mfa'[p].step = "found" /\ mfa'[p].code = mfa'[q].code => p = q
  <2>1. CASE q = r
    <3>1. spent[c] = 0
      BY DEF BackupInv
    <3>2. ASSUME NEW p \in MfaRequests, mfa'[p].step = "found", mfa'[p].code = c, p # r
          PROVE  FALSE
      <4>1. mfa[p].step = "found" /\ mfa[p].code = c
        BY <3>2
      <4>2. c \in raced'
        BY <4>1
      <4>3. QED
        BY <1>2, <2>1, <4>2
    <3>3. QED
      BY <2>1, <3>1, <3>2
  <2>2. CASE q # r
    <3>1. mfa[q].step = "found" /\ mfa[q].code = mfa'[q].code /\ mfa[q].code \notin raced
      BY <1>1, <1>2, <2>2
    <3>2. /\ spent[mfa[q].code] = 0
          /\ \A p \in MfaRequests :
               mfa[p].step = "found" /\ mfa[p].code = mfa[q].code => p = q
      BY <3>1 DEF BackupInv
    <3>3. ASSUME mfa[q].code = c PROVE FALSE
      <4>1. c \in raced'
        BY <3>1, <3>3
      <4>2. QED
        BY <1>2, <3>1, <3>3, <4>1
    <3>4. ASSUME NEW p \in MfaRequests, mfa'[p].step = "found", mfa'[p].code = mfa'[q].code
          PROVE  p = q
      <4>1. p # r
        BY <3>1, <3>3, <3>4
      <4>2. QED
        BY <3>1, <3>2, <3>4, <4>1
    <3>5. QED
      BY <3>1, <3>2, <3>4
  <2>3. QED
    BY <2>1, <2>2
<1>3. QED
  BY <1>1, <1>2 DEF BackupInv, BackupCodeCountsOnce

\* A code that counts is marked, and whoever still holds it is noted.
LEMMA BackupCounted ==
  ASSUME Typed, BackupInv, NEW r \in MfaRequests, NEW c \in Numbers,
         UNCHANGED <<raced, made>>,
         \A q \in MfaRequests : q # r => mfa'[q] = mfa[q],
         mfa'[r].step # "found",
         mfa[r].step = "found", mfa[r].code = c, codes[c] # "none",
         codes' = [codes EXCEPT ![c] = "used"],
         spent' = [spent EXCEPT ![c] = @ + 1]
  PROVE  BackupInv'
<1>0. spent \in [Numbers -> Nat] /\ codes \in [Numbers -> {"none", "unused", "used"}]
  BY DEF BackupInv, Typed
<1>1. /\ spent' \in [Numbers -> Nat]
      /\ spent'[c] = spent[c] + 1 /\ codes'[c] = "used"
      /\ \A d \in Numbers : d # c => spent'[d] = spent[d] /\ codes'[d] = codes[d]
  BY <1>0
<1>2. ASSUME NEW d \in Numbers
      PROVE  /\ spent'[d] <= 1 \/ d \in raced'
             /\ codes'[d] = "unused" => spent'[d] = 0
             /\ d > made' => codes'[d] = "none" /\ spent'[d] = 0
  <2>1. CASE d = c
    <3>1. c \notin raced => spent[c] = 0
      BY DEF BackupInv
    <3>2. ~(c > made)
      BY DEF BackupInv
    <3>3. QED
      BY <1>0, <1>1, <2>1, <3>1, <3>2
  <2>2. CASE d # c
    BY <1>1, <2>2 DEF BackupInv, BackupCodeCountsOnce
  <2>3. QED
    BY <2>1, <2>2
<1>3. ASSUME NEW q \in MfaRequests, mfa'[q].step = "found", mfa'[q].code \notin raced'
      PROVE  /\ spent'[mfa'[q].code] = 0
             /\ \A p \in MfaRequests :
                  mfa'[p].step = "found" /\ mfa'[p].code = mfa'[q].code => p = q
  <2>1. q # r /\ mfa'[q] = mfa[q]
    BY <1>3
  <2>2. /\ spent[mfa[q].code] = 0
        /\ \A p \in MfaRequests :
             mfa[p].step = "found" /\ mfa[p].code = mfa[q].code => p = q
    BY <1>3, <2>1 DEF BackupInv
  <2>3. mfa[q].code # c
    BY <2>1, <2>2
  <2>4. mfa[q].code \in Numbers
    BY <1>3, <2>1 DEF Typed
  <2>5. spent'[mfa[q].code] = 0
    BY <1>1, <2>2, <2>3, <2>4
  <2>6. QED
    BY <2>1, <2>2, <2>5
<1>4. QED
  BY <1>1, <1>2, <1>3 DEF BackupInv, BackupCodeCountsOnce

\* A new set has not counted, and no request holds it.
LEMMA BackupInserted ==
  ASSUME Typed, BackupInv, UNCHANGED <<spent, raced>>,
         made < MaxSecrets, made' = made + 1, codes' = [codes EXCEPT ![made'] = "unused"],
         \A q \in MfaRequests : mfa'[q] = mfa[q] \/ mfa'[q].step # "found"
  PROVE  BackupInv'
<1>1. made \in Nat /\ made' \in Numbers /\ made' > made
  BY MfaBoundsAssumption DEF Typed, Numbers
<1>2. \A c \in Numbers : codes'[c] = IF c = made' THEN "unused" ELSE codes[c]
  BY <1>1 DEF Typed
<1>3. ASSUME NEW c \in Numbers
      PROVE  /\ codes'[c] = "unused" => spent'[c] = 0
             /\ c > made' => codes'[c] = "none" /\ spent'[c] = 0
  <2>1. CASE c = made'
    BY <1>1, <2>1 DEF BackupInv
  <2>2. CASE c # made'
    <3>1. codes'[c] = codes[c] /\ (c > made' => c > made)
      BY <1>1, <1>2, <2>2 DEF Numbers
    <3>2. QED
      BY <3>1 DEF BackupInv
  <2>3. QED
    BY <2>1, <2>2
<1>4. ASSUME NEW q \in MfaRequests, mfa'[q].step = "found", mfa'[q].code \notin raced'
      PROVE  /\ spent'[mfa'[q].code] = 0
             /\ \A p \in MfaRequests :
                  mfa'[p].step = "found" /\ mfa'[p].code = mfa'[q].code => p = q
  BY <1>4 DEF BackupInv
<1>5. QED
  BY <1>3, <1>4 DEF BackupInv, BackupCodeCountsOnce

LEMMA BackupKept ==
  ASSUME Typed, BackupInv, NEW r \in MfaRequests, MfaStep(r)
  PROVE  BackupInv'
<1>0. mfa \in [MfaRequests -> MfaRequest]
  BY DEF Typed
<1>a. ASSUME NEW kind \in MfaKinds, NEW s \in Seconds, Prove(r, kind, s),
             UNCHANGED <<codes, spent, made>>
      PROVE  BackupInv'
  <2>1. /\ \A q \in MfaRequests : q # r => mfa'[q] = mfa[q]
        /\ \/ mfa'[r].step = "proved" /\ UNCHANGED raced
           \/ \E c \in Numbers :
                /\ codes[c] = "unused"
                /\ mfa'[r].step = "found" /\ mfa'[r].code = c
                /\ raced' = IF \E q \in MfaRequests :
                                 mfa[q].step = "found" /\ mfa[q].code = c
                            THEN raced \cup {c} ELSE raced
    BY <1>a, ProveWrites
  <2>2. CASE mfa'[r].step = "proved" /\ UNCHANGED raced
    BY <1>a, <2>1, <2>2, BackupUntouched
  <2>3. ASSUME NEW c \in Numbers,
               codes[c] = "unused", mfa'[r].step = "found", mfa'[r].code = c,
               raced' = IF \E q \in MfaRequests : mfa[q].step = "found" /\ mfa[q].code = c
                        THEN raced \cup {c} ELSE raced
        PROVE  BackupInv'
    BY <1>a, <2>1, <2>3, BackupFound
  <2>4. QED
    BY <2>1, <2>2, <2>3
<1>1. CASE SetupRead(r) \/ SetupReset(r) \/ ConfirmRead(r)
  <2>1. PICK kind \in MfaKinds, step \in MfaSteps, key \in 0..MaxSecrets, secret \in 0..MaxSecrets :
          /\ mfa' = [mfa EXCEPT ![r] = OnDevice(kind, step, key, secret)]
          /\ step # "found"
    <3>1. CASE SetupRead(r)
      BY <3>1, Names DEF SetupRead
    <3>2. CASE SetupReset(r)
      <4> DEFINE key == IF device.key = 0 THEN made + 1 ELSE device.key
      <4>1. key \in 0..MaxSecrets
        BY <3>2, MfaBoundsAssumption DEF SetupReset, Typed
      <4>2. mfa' = [mfa EXCEPT ![r] = OnDevice("setup", "reset", key, 0)]
        BY <3>2 DEF SetupReset
      <4> HIDE DEF key
      <4>3. QED
        BY <4>1, <4>2, Names
    <3>3. CASE ConfirmRead(r)
      BY <3>3, Names DEF ConfirmRead, Typed
    <3>4. QED
      BY <1>1, <3>1, <3>2, <3>3
  <2>2. \A q \in MfaRequests : mfa'[q] = mfa[q] \/ mfa'[q].step # "found"
    <3>1. /\ mfa' \in [MfaRequests -> MfaRequest]
          /\ \A q \in MfaRequests : q # r => mfa'[q] = mfa[q]
          /\ mfa'[r].kind = kind /\ mfa'[r].step = step
          /\ mfa'[r].key = key /\ mfa'[r].secret = secret
      BY <1>0, <2>1, OnDeviceWrites
    <3>2. QED
      BY <2>1, <3>1
  <2>3. UNCHANGED <<codes, spent, raced>> /\ made' \in {made, made + 1}
    BY <1>1 DEF SetupRead, SetupReset, ConfirmRead
  <2>4. QED
    BY <2>2, <2>3, BackupUntouched
<1>2. CASE SetupSave(r) \/ Mint(r) \/ (ConfirmInsert(r) /\ ~(made < MaxSecrets))
  <2>1. \A q \in MfaRequests : mfa'[q] = mfa[q] \/ mfa'[q].step # "found"
    <3>1. Done(r)
      BY <1>2 DEF SetupSave, Mint, ConfirmInsert
    <3>2. QED
      BY <1>0, <3>1, DoneWrites DEF NoRequest, OnDevice
  <2>2. UNCHANGED <<codes, spent, raced>> /\ made' \in {made, made + 1}
    BY <1>2 DEF SetupSave, Mint, ConfirmInsert
  <2>3. QED
    BY <2>1, <2>2, BackupUntouched
<1>3. CASE ConfirmSave(r) \/ DisableDevice(r)
  <2>1. \A q \in MfaRequests : mfa'[q] = mfa[q] \/ mfa'[q].step # "found"
    <3>1. CASE Done(r)
      BY <1>0, <3>1, DoneWrites DEF NoRequest, OnDevice
    <3>2. ASSUME NEW step \in {"saved", "cleared"}, Step(r, step)
          PROVE  \A q \in MfaRequests : mfa'[q] = mfa[q] \/ mfa'[q].step # "found"
      BY <1>0, <3>2, StepWrites, Names
    <3>3. QED
      BY <1>3, <3>1, <3>2 DEF ConfirmSave, DisableDevice
  <2>2. UNCHANGED <<codes, spent, raced, made>>
    BY <1>3 DEF ConfirmSave, DisableDevice
  <2>3. QED
    BY <2>1, <2>2, BackupUntouched
<1>4. CASE ConfirmDelete(r) \/ DisableCodes(r)
  <2>1. \A q \in MfaRequests : mfa'[q] = mfa[q] \/ mfa'[q].step # "found"
    <3>1. CASE Done(r)
      BY <1>0, <3>1, DoneWrites DEF NoRequest, OnDevice
    <3>2. CASE Step(r, "cleared")
      BY <1>0, <3>2, StepWrites, Names
    <3>3. QED
      BY <1>4, <3>1, <3>2 DEF ConfirmDelete, DisableCodes
  <2>2. UNCHANGED <<spent, raced, made>> /\ codes' = [c \in Numbers |-> "none"]
    BY <1>4 DEF ConfirmDelete, DisableCodes
  <2>3. QED
    BY <2>1, <2>2, BackupDeleted
<1>5. CASE ConfirmInsert(r) /\ made < MaxSecrets
  <2>1. \A q \in MfaRequests : mfa'[q] = mfa[q] \/ mfa'[q].step # "found"
    BY <1>0, <1>5, DoneWrites DEF ConfirmInsert, NoRequest, OnDevice
  <2>2. /\ UNCHANGED <<spent, raced>>
        /\ made' = made + 1 /\ codes' = [codes EXCEPT ![made'] = "unused"]
    BY <1>5 DEF ConfirmInsert
  <2>3. QED
    BY <1>5, <2>1, <2>2, BackupInserted
<1>6. CASE Consume(r)
  <2>1. CASE codes[mfa[r].code] = "none"
    <3>1. Done(r) /\ UNCHANGED <<codes, spent, raced, made>>
      BY <1>6, <2>1 DEF Consume
    <3>2. \A q \in MfaRequests : mfa'[q] = mfa[q] \/ mfa'[q].step # "found"
      BY <1>0, <3>1, DoneWrites DEF NoRequest, OnDevice
    <3>3. QED
      BY <3>1, <3>2, BackupUntouched
  <2>2. CASE codes[mfa[r].code] # "none"
    <3> DEFINE c == mfa[r].code
    <3>1. /\ mfa[r].step = "found" /\ codes[c] # "none"
          /\ codes' = [codes EXCEPT ![c] = "used"]
          /\ spent' = [spent EXCEPT ![c] = @ + 1]
          /\ Step(r, "proved") /\ UNCHANGED <<raced, made>>
      BY <1>6, <2>2 DEF Consume
    <3>2. c \in Numbers /\ mfa[r].code = c
      BY <3>1 DEF Typed
    <3>3. /\ \A q \in MfaRequests : q # r => mfa'[q] = mfa[q]
          /\ mfa'[r].step # "found"
      BY <1>0, <3>1, StepWrites, Names
    <3> HIDE DEF c
    <3>4. QED
      BY <3>1, <3>2, <3>3, BackupCounted
  <2>3. QED
    BY <2>1, <2>2
<1>7. ASSUME NEW s \in Seconds, VerifyRead(r, s)
      PROVE  BackupInv'
  BY <1>a, <1>7, Names DEF VerifyRead
<1>8. CASE DisableRead(r)
  <2>1. CASE device.confirmed
    BY <1>a, <1>8, <2>1, Names DEF DisableRead
  <2>2. CASE ~device.confirmed
    <3>1. mfa' = [mfa EXCEPT ![r] = OnDevice("disable", "proved", 0, 0)]
      BY <1>8, <2>2 DEF DisableRead, Offering, OnDevice
    <3>2. 0 \in 0..MaxSecrets /\ "disable" \in MfaKinds /\ "proved" \in MfaSteps
      BY Names
    <3>3. /\ mfa' \in [MfaRequests -> MfaRequest]
          /\ \A q \in MfaRequests : q # r => mfa'[q] = mfa[q]
          /\ mfa'[r].step = "proved"
      BY <1>0, <3>1, <3>2, OnDeviceWrites
    <3>4. UNCHANGED <<codes, spent, raced, made>>
      BY <1>8, <2>2 DEF DisableRead
    <3>5. QED
      BY <3>3, <3>4, BackupUntouched
  <2>3. QED
    BY <2>1, <2>2
<1>9. QED
  BY <1>1, <1>2, <1>3, <1>4, <1>5, <1>6, <1>7, <1>8 DEF MfaStep
-----------------------------------------------------------------------------
\* The invariant of every reachable state.
LEMMA Invariance == MfaSpec => []MfaInv
<1>1. MfaInv /\ [MfaNext]_mfaVars => MfaInv'
  <2> SUFFICES ASSUME MfaInv, [MfaNext]_mfaVars
               PROVE  MfaInv'
    OBVIOUS
  <2>1. CASE Password
    BY <2>1 DEF Password, MfaInv, Typed, ChallengeInv, ConfirmationInv, ConfirmedIsProven,
                BackupInv, BackupCodeCountsOnce, At, NoDevice
  <2>2. CASE Tick
    BY <2>2, MfaBoundsAssumption
    DEF Tick, MfaInv, Typed, ChallengeInv, ConfirmationInv, ConfirmedIsProven,
        BackupInv, BackupCodeCountsOnce, At, NoDevice, Seconds
  <2>3. ASSUME NEW r \in MfaRequests, MfaStep(r)
        PROVE  MfaInv'
    BY <2>3, TypesKept, ChallengeKept, ConfirmationKept, BackupKept DEF MfaInv
  <2>4. CASE UNCHANGED mfaVars
    BY <2>4 DEF mfaVars, MfaInv, Typed, ChallengeInv, ConfirmationInv, ConfirmedIsProven,
                BackupInv, BackupCodeCountsOnce, At, NoDevice
  <2>5. QED
    BY <2>1, <2>2, <2>3, <2>4 DEF MfaNext
<1>2. QED
  BY <1>1, InitEstablishes, PTL DEF MfaSpec

-----------------------------------------------------------------------------
\* What the challenges, the app and the marks of the history may hold: only a
\* challenge that was signed is offered, so that only such a one is used.
MfaMarksInv ==
  /\ challenges \subseteq 0..clock /\ used \subseteq challenges
  /\ \A r \in MfaRequests : mfa[r].kind = "verify" => mfa[r].challenge \in challenges
  /\ proven \subseteq app /\ crossed \in BOOLEAN /\ raced \subseteq Numbers

\* A request whose kind or challenge is new has one that was signed.
LEMMA OffersKept ==
  ASSUME MfaMarksInv, Typed, NEW r \in MfaRequests, MfaStep(r)
  PROVE  \A q \in MfaRequests : mfa'[q].kind = "verify" => mfa'[q].challenge \in challenges
<1> SUFFICES ASSUME NEW q \in MfaRequests, mfa'[q].kind = "verify"
             PROVE  mfa'[q].challenge \in challenges
  OBVIOUS
<1>0. mfa \in [MfaRequests -> MfaRequest]
  BY DEF Typed
<1>1. CASE mfa'[q].kind = mfa[q].kind /\ mfa'[q].challenge = mfa[q].challenge
  BY <1>1 DEF MfaMarksInv
<1>2. ASSUME NEW step \in MfaSteps, Step(r, step)
      PROVE  mfa'[q].kind = mfa[q].kind /\ mfa'[q].challenge = mfa[q].challenge
  <2>1. mfa' = [mfa EXCEPT ![r] = [mfa[r] EXCEPT !.step = step]]
    BY <1>2 DEF Step
  <2>2. PICK n \in MfaRequest : n = mfa[r]
    BY <1>0
  <2>3. [n EXCEPT !.step = step].kind = n.kind
        /\ [n EXCEPT !.step = step].challenge = n.challenge
    BY DEF MfaRequest
  <2>4. QED
    BY <1>0, <2>1, <2>2, <2>3
<1>3. ASSUME Done(r) PROVE mfa'[q] = mfa[q]
  BY <1>0, <1>3 DEF Done, NoRequest, OnDevice
<1>4. ASSUME NEW kind, kind # "verify", NEW step, NEW key, NEW secret,
             mfa' = [mfa EXCEPT ![r] = OnDevice(kind, step, key, secret)]
      PROVE  mfa'[q] = mfa[q]
  BY <1>0, <1>4 DEF OnDevice
<1>5. ASSUME NEW kind, NEW s, Prove(r, kind, s), kind # "verify" \/ s \in challenges
      PROVE  mfa'[q] = mfa[q] \/ mfa'[q].challenge \in challenges
  BY <1>0, <1>5 DEF Prove, Offering
<1>6. CASE SetupRead(r) \/ SetupReset(r) \/ ConfirmRead(r)
  BY <1>1, <1>4, <1>6 DEF SetupRead, SetupReset, ConfirmRead
<1>7. CASE SetupSave(r) \/ ConfirmInsert(r) \/ Mint(r) \/ DisableCodes(r)
  BY <1>1, <1>3, <1>7 DEF SetupSave, ConfirmInsert, Mint, DisableCodes
<1>8. CASE ConfirmSave(r) \/ ConfirmDelete(r) \/ Consume(r) \/ DisableDevice(r)
  <2>1. {"saved", "cleared", "proved"} \subseteq MfaSteps
    BY DEF MfaSteps
  <2>2. QED
    BY <1>1, <1>2, <1>3, <1>8, <2>1
    DEF ConfirmSave, ConfirmDelete, Consume, DisableDevice
<1>9. ASSUME NEW s \in Seconds, VerifyRead(r, s)
      PROVE  mfa'[q].challenge \in challenges
  BY <1>1, <1>5, <1>9 DEF VerifyRead
<1>10. CASE DisableRead(r)
  <2>1. CASE device.confirmed
    BY <1>1, <1>5, <1>10, <2>1 DEF DisableRead
  <2>2. CASE ~device.confirmed
    BY <1>0, <1>1, <1>10, <2>2 DEF DisableRead, Offering
  <2>3. QED
    BY <2>1, <2>2
<1>11. QED
  BY <1>6, <1>7, <1>8, <1>9, <1>10 DEF MfaStep

LEMMA MarksKept ==
  ASSUME MfaMarksInv, Typed, Typed', NEW r \in MfaRequests, MfaStep(r)
  PROVE  MfaMarksInv'
<1>1. challenges' = challenges /\ clock' = clock
  BY DEF MfaStep, Others, SetupRead, SetupReset, SetupSave, ConfirmRead, ConfirmSave,
         ConfirmDelete, ConfirmInsert, Consume, Mint, VerifyRead, DisableRead,
         DisableDevice, DisableCodes
<1>2. \A q \in MfaRequests : mfa'[q].kind = "verify" => mfa'[q].challenge \in challenges'
  BY <1>1, OffersKept
<1>3. used' \subseteq challenges'
  <2>1. CASE Mint(r)
    BY <1>1, <2>1 DEF Mint, MfaMarksInv, At
  <2>2. CASE ~Mint(r)
    BY <1>1, <2>2
    DEF MfaMarksInv, MfaStep, Others, SetupRead, SetupReset, SetupSave, ConfirmRead,
        ConfirmSave, ConfirmDelete, ConfirmInsert, Consume, VerifyRead, DisableRead,
        DisableDevice, DisableCodes
  <2>3. QED
    BY <2>1, <2>2
<1>4. proven' \subseteq app'
  <2>1. CASE ConfirmRead(r)
    BY <2>1 DEF ConfirmRead, MfaMarksInv
  <2>2. CASE SetupSave(r)
    BY <2>2 DEF SetupSave, MfaMarksInv
  <2>3. CASE UNCHANGED <<proven, app>>
    BY <2>3 DEF MfaMarksInv
  <2>4. QED
    BY <2>1, <2>2, <2>3
    DEF MfaStep, SetupRead, SetupReset, ConfirmSave, ConfirmDelete, ConfirmInsert, Consume,
        Mint, VerifyRead, DisableRead, DisableDevice, DisableCodes
<1>5. crossed' \in BOOLEAN
  <2>1. Crosses \in BOOLEAN
    BY DEF Crosses, MfaMarksInv
  <2>2. crossed' \in {crossed, Crosses, FALSE}
    BY DEF MfaStep, SetupRead, SetupReset, SetupSave, ConfirmRead, ConfirmSave,
           ConfirmDelete, ConfirmInsert, Consume, Mint, VerifyRead, DisableRead,
           DisableDevice, DisableCodes
  <2>3. QED
    BY <2>1, <2>2 DEF MfaMarksInv
<1>6. raced' \subseteq Numbers
  <2>1. ASSUME NEW kind, NEW s, Prove(r, kind, s) PROVE raced' \subseteq Numbers
    BY <2>1 DEF Prove, MfaMarksInv
  <2>2. CASE UNCHANGED raced
    BY <2>2 DEF MfaMarksInv
  <2>3. QED
    BY <2>1, <2>2
    DEF MfaStep, SetupRead, SetupReset, SetupSave, ConfirmRead, ConfirmSave, ConfirmDelete,
        ConfirmInsert, Consume, Mint, VerifyRead, DisableRead, DisableDevice, DisableCodes
<1>7. QED
  BY <1>1, <1>2, <1>3, <1>4, <1>5, <1>6 DEF MfaMarksInv

LEMMA MfaMarks == MfaSpec => []MfaMarksInv
<1>1. MfaInit => MfaMarksInv
  <2> SUFFICES ASSUME MfaInit PROVE MfaMarksInv
    OBVIOUS
  <2>1. \A r \in MfaRequests : mfa[r].kind = "none"
    BY DEF MfaInit, NoRequest, OnDevice
  <2>2. QED
    BY <2>1 DEF MfaInit, MfaMarksInv
<1>2. MfaMarksInv /\ MfaInv /\ MfaInv' /\ [MfaNext]_mfaVars => MfaMarksInv'
  <2> SUFFICES ASSUME MfaMarksInv, Typed, Typed', [MfaNext]_mfaVars
               PROVE  MfaMarksInv'
    BY DEF MfaInv
  <2>1. clock \in Nat
    BY MfaBoundsAssumption DEF Typed, Seconds
  <2>2. CASE Password
    BY <2>1, <2>2 DEF Password, MfaMarksInv
  <2>3. CASE Tick
    <3>1. 0..clock \subseteq 0..clock'
      BY <2>1, <2>3 DEF Tick
    <3>2. QED
      BY <2>3, <3>1 DEF Tick, MfaMarksInv
  <2>4. ASSUME NEW r \in MfaRequests, MfaStep(r) PROVE MfaMarksInv'
    BY <2>4, MarksKept
  <2>5. CASE UNCHANGED mfaVars
    BY <2>5 DEF mfaVars, MfaMarksInv
  <2>6. QED
    BY <2>2, <2>3, <2>4, <2>5 DEF MfaNext
<1>3. QED
  BY <1>1, <1>2, Invariance, PTL DEF MfaSpec

\* No used challenge but a signed one, no confirmed secret that was not in the
\* app, no set of backup codes that was not generated, and no device without a
\* key (TOTPDevice, MFABackupCode, the login challenges).
THEOREM MfaTypes == MfaSpec => []MfaTypeOK
<1>1. MfaInv /\ MfaMarksInv => MfaTypeOK
  <2> SUFFICES ASSUME MfaInv, MfaMarksInv PROVE MfaTypeOK
    OBVIOUS
  <2> USE MfaBoundsAssumption
  <2>1. minted \in [Seconds -> 0..(MaxClock + 2)]
    BY DEF MfaInv, ChallengeInv
  <2>2. \A c \in Numbers : codes[c] # "none" => c <= made
    BY DEF MfaInv, BackupInv, Typed, Numbers
  <2>3. /\ device.key = 0 => device = NoDevice
        /\ spent \in [Numbers -> Nat]
    BY DEF MfaInv, ConfirmationInv, BackupInv
  <2>4. QED
    BY <2>1, <2>2, <2>3
    DEF MfaInv, Typed, MfaMarksInv, MfaTypeOK, MfaRequest, MfaKinds, MfaSteps
<1>2. QED
  BY <1>1, Invariance, MfaMarks, PTL
-----------------------------------------------------------------------------
\* However many requests carry a challenge at once, it makes one session: the
\* cache marks it before the tokens are made (MfaVerifyView).
THEOREM ChallengesMintOnce == MfaSpec => []ChallengeMintsOnce
<1>1. MfaInv => ChallengeMintsOnce
  BY DEF MfaInv, ChallengeInv, ChallengeMintsOnce
<1>2. QED
  BY <1>1, Invariance, PTL

\* A confirmed device holds a secret the user has shown a code for, unless a
\* setup wrote the device under the confirmation (MfaSetupConfirmView).
THEOREM ConfirmationIsProven == MfaSpec => []ConfirmedIsProven
<1>1. MfaInv => ConfirmedIsProven
  BY DEF MfaInv, ConfirmationInv
<1>2. QED
  BY <1>1, Invariance, PTL

\* A backup code counts once, unless two requests found it before either
\* marked it (MFABackupCode.consume).
THEOREM BackupCodesCountOnce == MfaSpec => []BackupCodeCountsOnce
<1>1. MfaInv => BackupCodeCountsOnce
  BY DEF MfaInv, BackupInv
<1>2. QED
  BY <1>1, Invariance, PTL
=============================================================================
