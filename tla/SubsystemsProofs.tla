-------------------------- MODULE SubsystemsProofs --------------------------
(***************************************************************************)
(* The modules that share no state, side by side: whatever moves, each of  *)
(* them follows its own specification, so that what is proved of one holds *)
(* in the instance that explores them all.                                 *)
(***************************************************************************)
EXTENDS MCSubsystems, AccessProofs, StorefrontProofs, BackOfficeProofs
-----------------------------------------------------------------------------
LEMMA EachBegins ==
  Init => /\ AccountsInit /\ CategoriesInit /\ BannersInit /\ BotInit /\ MfaInit
          /\ RowLocksInit /\ CartsInit /\ SearchInit /\ StoreSettingsInit
  BY DEF Init

\* A step is one of the module explored, and leaves the others alone.
LEMMA EachSteps ==
  ASSUME [Next]_vars
  PROVE  /\ [AccountsNext]_accountsVars /\ [CategoriesNext]_categoriesVars
         /\ [BannersNext]_bannersVars /\ [BotNext]_botVars /\ [MfaNext]_mfaVars
         /\ [RowLocksNext]_rowLocksVars /\ [CartsNext]_cartsVars
         /\ [SearchNext]_searchVars /\ [StoreSettingsNext]_settingsVars
<1>1. CASE UNCHANGED vars
  BY <1>1 DEF vars, serverVars
<1>2. CASE Next
  BY <1>2 DEF Next, Rest
<1>3. QED
  BY <1>1, <1>2

\* Each module behaves as it would alone.
LEMMA EachByItself ==
  SubsystemsSpec => /\ AccountsSpec /\ CategoriesSpec /\ BannersSpec /\ BotSpec
                    /\ MfaSpec /\ RowLocksSpec /\ CartsSpec /\ SearchSpec
                    /\ StoreSettingsSpec
  BY EachBegins, EachSteps, PTL
  DEF SubsystemsSpec, AccountsSpec, CategoriesSpec, BannersSpec, BotSpec, MfaSpec,
      RowLocksSpec, CartsSpec, SearchSpec, StoreSettingsSpec

\* The rows, requests, tabs and lists of all nine are what they may be.
THEOREM SubsystemTypes == SubsystemsSpec => []SubsystemsTypeOK
<1>1. /\ AccountsTypeOK /\ CategoriesTypeOK /\ BannersTypeOK /\ BotTypeOK /\ MfaTypeOK
      /\ RowLocksTypeOK /\ CartsTypeOK /\ SearchTypeOK /\ StoreSettingsTypeOK
      => SubsystemsTypeOK
  BY DEF SubsystemsTypeOK
<1>2. QED
  BY <1>1, EachByItself, AccountTypes, CategoryTypes, BannerTypesHold, BotTypesHold,
     MfaTypes, RowLockTypes, CartTypes, SearchTypes, SettingsTypesHold, PTL
=============================================================================
