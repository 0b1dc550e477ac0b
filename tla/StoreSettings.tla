---------------------------- MODULE StoreSettings ----------------------------
(***************************************************************************)
(* The settings of a store.  Some are columns of Store, written by four    *)
(* endpoints with update_fields; the rest are rows of their own, one for   *)
(* each store, made by the first request that asks for them and saved      *)
(* whole.  The Django admin saves whole rows of every table, as its page   *)
(* showed them and the staff member changed them.  No lock is held from    *)
(* the read to the save.                                                   *)
(*                                                                         *)
(* The tables share nothing: a behaviour follows one row, of `table`, and  *)
(* the history of one of its columns.  A column has one of two contents,   *)
(* TRUE by default.                                                        *)
(***************************************************************************)

CONSTANTS
  SettingsCalls,   \* requests and pages in progress at a time
  StoreColumns,    \* bound: the columns of Store
  PlainColumns,    \* bound: the columns of a table without rules between them
  DeliveryFlags,   \* bound: delivery_enabled, pickup_enabled
  PaymentFlags     \* bound: accepts_pix, accepts_card, accepts_cash

VARIABLES
  table,         \* the table
  setting,       \* its row for the store
  settingsCall,  \* what each call is about to save
  watched,       \* the column the history is about
  settingsGiven, \* history: the content last given for it
  undone         \* history: whether an old row was since saved over it

settingsVars == <<table, setting, settingsCall, watched, settingsGiven, undone>>

Plain == {"label_settings", "merchant_profile", "storefront_appearance"}
CommerceColumns == {"orders_enabled"} \cup DeliveryFlags \cup PaymentFlags
SettingColumns ==
  IF table = "store" THEN StoreColumns
  ELSE IF table = "commerce_settings" THEN CommerceColumns
  ELSE PlainColumns

NoSetting == [x \in {} |-> TRUE]
NoSettingsCall == [via |-> "none", row |-> NoSetting, gives |-> FALSE, old |-> FALSE]

\* Contents for some of the columns.
Contents == UNION {[columns -> BOOLEAN] : columns \in SUBSET SettingColumns}
SettingCalls ==
  [via : {"none", "patch", "admin", "refused"}, row : Contents,
   gives : BOOLEAN, old : BOOLEAN]

StoreSettingsTypeOK ==
  /\ table \in {"store", "commerce_settings"} \cup Plain
  /\ setting \in [SettingColumns -> BOOLEAN] \cup {NoSetting}
  /\ watched \in SettingColumns /\ settingsGiven \in BOOLEAN /\ undone \in BOOLEAN
  /\ settingsCall \in [SettingsCalls -> SettingCalls]
  \* A call that is to save has found its row.
  /\ (\E c \in SettingsCalls : settingsCall[c].via # "none") =>
       setting \in [SettingColumns -> BOOLEAN]

\* create_for_owner makes the commerce settings of a store; the default store
\* and the older ones have none.
StoreSettingsInit ==
  /\ table \in {"store", "commerce_settings"} \cup Plain
  /\ setting \in {NoSetting, [x \in SettingColumns |-> TRUE]}
  /\ table = "store" => setting # NoSetting
  /\ table \in Plain => setting = NoSetting
  /\ settingsCall = [c \in SettingsCalls |-> NoSettingsCall]
  /\ watched \in SettingColumns /\ settingsGiven = TRUE /\ undone = FALSE
-----------------------------------------------------------------------------
\* get_for_store: two requests that both miss the row make it once, by the
\* unique store of the table.
Found == IF setting = NoSetting THEN [x \in SettingColumns |-> TRUE] ELSE setting

\* _validate_commerce_invariants, and the constraints of the table.
OpenStoreSells(row) ==
  table = "commerce_settings" /\ row["orders_enabled"] =>
    /\ \E x \in DeliveryFlags : row[x]
    /\ \E x \in PaymentFlags : row[x]

\* Calls that save the whole row.
SavesAll(via) == via = "admin" \/ table # "store"

\* Mutated forms: every save is of the whole row; only of what was sent.
WriteAll(via, sent) == SettingColumns
WriteSent(via, sent) == sent

\* The columns in the UPDATE.
Written(via, sent) == IF SavesAll(via) THEN SettingColumns ELSE sent

\* A call finds the row, merges what it was sent and validates the result.  A
\* page of the admin sends the whole row: it gives what was changed on it.
ReadSetting(c, via, sent) ==
  /\ settingsCall[c] = NoSettingsCall
  /\ setting' = Found
  /\ \E row \in [SettingColumns -> BOOLEAN] :
       /\ \A x \in SettingColumns \ sent : row[x] = Found[x]
       /\ via = "admin" => \A x \in sent : row[x] # Found[x]
       /\ OpenStoreSells(row)
       /\ settingsCall' = [settingsCall EXCEPT ![c] =
            [via |-> via, row |-> [x \in Written(via, sent) |-> row[x]],
             gives |-> watched \in sent, old |-> FALSE]]
  /\ UNCHANGED <<table, watched, settingsGiven, undone>>

\* MyStoreDetailView, StoreSettingsView, StoreAppearanceSettingsView and
\* StoreReceiptSettingsView.
RenameStore(c) ==
  table = "store" /\ {"name"} \subseteq StoreColumns /\ ReadSetting(c, "patch", {"name"})

PatchPhone(c) ==
  /\ table = "store" /\ {"whatsapp_phone"} \subseteq StoreColumns
  /\ ReadSetting(c, "patch", {"whatsapp_phone"})

PatchLook(c) ==
  \E sent \in SUBSET ({"display_name", "logo_url", "tagline", "theme"} \cap StoreColumns) :
    table = "store" /\ ReadSetting(c, "patch", sent)

PatchReceipt(c) ==
  \E sent \in SUBSET ({"receipt_exchange_policy", "receipt_paper_format"} \cap StoreColumns) :
    table = "store" /\ ReadSetting(c, "patch", sent)

\* StoreLabelSettingsView, MerchantProfileView, StorefrontAppearanceView and
\* StoreCommerceSettingsView.
PatchLabels(c) ==
  table = "label_settings" /\ \E sent \in SUBSET SettingColumns : ReadSetting(c, "patch", sent)

PatchProfile(c) ==
  table = "merchant_profile" /\ \E sent \in SUBSET SettingColumns : ReadSetting(c, "patch", sent)

PatchAppearance(c) ==
  /\ table = "storefront_appearance"
  /\ \E sent \in SUBSET SettingColumns : ReadSetting(c, "patch", sent)

PatchCommerce(c) ==
  /\ table = "commerce_settings"
  /\ \E sent \in SUBSET SettingColumns : ReadSetting(c, "patch", sent)

\* A page of the admin shows a row.
OpenAdminPage(c) ==
  setting # NoSetting /\ \E sent \in SUBSET SettingColumns : ReadSetting(c, "admin", sent)

\* A GET, a patch that is not valid, a checkout or a sheet of labels.
Materialise ==
  /\ setting = NoSetting
  /\ setting' = Found
  /\ UNCHANGED <<table, settingsCall, watched, settingsGiven, undone>>

\* A whole row read before another save changed the column.
Outdated(a) ==
  IF a.via \in {"patch", "admin"} /\ SavesAll(a.via)
  THEN [via |-> a.via, row |-> a.row, gives |-> a.gives, old |-> TRUE] ELSE a

\* A row the constraints refuse raises, and the call is answered 500.
SaveSetting(c) ==
  LET a == settingsCall[c]
      saved == [x \in SettingColumns |-> IF x \in DOMAIN a.row THEN a.row[x] ELSE setting[x]]
  IN /\ a.via \in {"patch", "admin"}
     /\ IF OpenStoreSells(saved)
        THEN /\ setting' = saved
             /\ settingsGiven' = IF a.gives THEN saved[watched] ELSE settingsGiven
             /\ undone' = (~a.gives /\ (undone \/ (SavesAll(a.via) /\ a.old)))
             /\ settingsCall' = [d \in SettingsCalls |->
                  IF d = c THEN NoSettingsCall
                  ELSE IF saved[watched] # setting[watched] THEN Outdated(settingsCall[d])
                  ELSE settingsCall[d]]
        ELSE /\ settingsCall' = [settingsCall EXCEPT ![c] =
                  [NoSettingsCall EXCEPT !.via = "refused"]]
             /\ UNCHANGED <<setting, settingsGiven, undone>>
     /\ UNCHANGED <<table, watched>>

\* The request fails, or the page is closed.
LeaveSetting(c) ==
  /\ settingsCall[c].via # "none"
  /\ settingsCall' = [settingsCall EXCEPT ![c] = NoSettingsCall]
  /\ UNCHANGED <<table, setting, watched, settingsGiven, undone>>

StoreSettingsNext ==
  \/ Materialise
  \/ \E c \in SettingsCalls :
       \/ RenameStore(c) \/ PatchPhone(c) \/ PatchLook(c) \/ PatchReceipt(c)
       \/ PatchLabels(c) \/ PatchProfile(c) \/ PatchAppearance(c) \/ PatchCommerce(c)
       \/ OpenAdminPage(c) \/ SaveSetting(c) \/ LeaveSetting(c)

StoreSettingsSpec == StoreSettingsInit /\ [][StoreSettingsNext]_settingsVars
-----------------------------------------------------------------------------
\* A column that is not what a request or a page last gave for it was undone
\* by a row read before that and saved whole over it: by a page of the admin,
\* or in a table whose endpoint saves the whole row.  The four endpoints that
\* share the Store row (update_fields) never undo one another's columns.
LossHasACause ==
  setting # NoSetting /\ setting[watched] # settingsGiven => undone

\* The database never refuses a save: since the row is saved as it was
\* validated, two patches that are valid one by one do not make an open store
\* without a way to deliver or to be paid.
ConstraintsNeverBite == \A c \in SettingsCalls : settingsCall[c].via # "refused"
=============================================================================
