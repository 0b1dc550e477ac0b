----------------------------- MODULE MCSubsystems -----------------------------
(***************************************************************************)
(* Instances for TLC of the modules that share no state with one another:  *)
(* `subject` names the one whose behaviours are explored, the others stay  *)
(* as they begin.                                                          *)
(***************************************************************************)
EXTENDS Accounts, Categories, Banners, BotConversations, Mfa, MCRowLocks, Carts,
        ProductSearch, StoreSettings

VARIABLE subject

serverVars == <<accountsVars, categoriesVars, bannersVars, botVars, mfaVars, rowLocksVars,
                settingsVars>>
vars == <<subject, serverVars, cartsVars, searchVars>>

Subjects == {"accounts", "categories", "banners", "bot", "mfa", "locks", "carts",
             "search", "settings"}

\* All the variables but those of `subject`.
Rest ==
  /\ UNCHANGED subject
  /\ subject # "accounts" => UNCHANGED accountsVars
  /\ subject # "categories" => UNCHANGED categoriesVars
  /\ subject # "banners" => UNCHANGED bannersVars
  /\ subject # "bot" => UNCHANGED botVars
  /\ subject # "mfa" => UNCHANGED mfaVars
  /\ subject # "locks" => UNCHANGED rowLocksVars
  /\ subject # "carts" => UNCHANGED cartsVars
  /\ subject # "search" => UNCHANGED searchVars
  /\ subject # "settings" => UNCHANGED settingsVars

Init ==
  /\ subject \in Subjects
  /\ AccountsInit /\ CategoriesInit /\ BannersInit /\ BotInit /\ MfaInit
  /\ RowLocksInit /\ CartsInit /\ SearchInit /\ StoreSettingsInit
  \* What the others begin with does not matter.
  /\ subject = "carts" \/ legacy = FALSE
  /\ subject = "search" \/ want = CHOOSE w \in Wanted : w.page = 1
  /\ subject = "settings" \/ table = "store"
  \* The columns of Store are treated alike: one of them is watched.
  /\ table = "store" => watched = "name"

Next ==
  /\ Rest
  /\ \/ subject = "accounts" /\ AccountsNext
     \/ subject = "categories" /\ CategoriesNext
     \/ subject = "banners" /\ BannersNext
     \/ subject = "bot" /\ BotNext
     \/ subject = "mfa" /\ MfaNext
     \/ subject = "locks" /\ RowLocksNext
     \/ subject = "carts" /\ CartsNext
     \/ subject = "search" /\ SearchNext
     \/ subject = "settings" /\ StoreSettingsNext

SubsystemsSpec == Init /\ [][Next]_vars

\* Requests, transactions and tabs bear the same two names in every instance,
\* and so do slugs and placements: each pair is interchangeable.
SubsystemsSymmetry == Permutations(MfaRequests) \cup Permutations(Placements)

\* The types of all of them.
SubsystemsTypeOK ==
  /\ subject = "accounts" => AccountsTypeOK
  /\ subject = "categories" => CategoriesTypeOK
  /\ subject = "banners" => BannersTypeOK
  /\ subject = "bot" => BotTypeOK
  /\ subject = "mfa" => MfaTypeOK
  /\ subject = "locks" => RowLocksTypeOK
  /\ subject = "carts" => CartsTypeOK
  /\ subject = "search" => SearchTypeOK
  /\ subject = "settings" => StoreSettingsTypeOK
=============================================================================
