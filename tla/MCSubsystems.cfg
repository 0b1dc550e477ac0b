SPECIFICATION SubsystemsSpec
CONSTANTS
  Emails = {e1, e2}
  Customers = {e1}
  StoreNames = {shop}
  MaxSuffix = 2
  AccountRequests = {a, b}
  CategoryIds = {1, 2, 3}
  Slugs = {x, y}
  CategoryForms = {a, b}
  MaxBanners = 3
  Placements = {x, y}
  BannerCalls = {a, b}
  BotTabs = {a, b}
  MaxMessages = 3
  BotOrders = {o1}
  MfaRequests = {a, b}
  MaxSecrets = 4
  MaxClock = 1
  Products <- ProductIds
  Variants <- VariantIds
  Orders = {1}
  ProductOf <- ProductsOfVariants
  CategoryOf <- CategoriesOfProducts
  Transactions = {a, b}
  Stores = {"default", "shop"}
  CartTabs = {a, b}
  CartDays = 1
  CartTtl = 0
  MaxVisits = 3
  Shops = {"default", "shop"}
  FilterSets = {any, chosen}
  MaxPages = 2
  MaxLate = 1
  SettingsCalls = {a, b}
  StoreColumns = {"name", "theme", "whatsapp_phone", "receipt_paper_format"}
  PlainColumns = {"x", "y"}
  DeliveryFlags = {"delivery_enabled", "pickup_enabled"}
  PaymentFlags = {"accepts_pix"}
INVARIANTS
  SubsystemsTypeOK
  ProfileKeepsEdits
  ParentsEnd
  PositionsAreRanks
  OneConversationPerTab
  StatusIsOfLastMessage
  ChallengeMintsOnce
  ConfirmedIsProven
  BackupCodeCountsOnce
  DeadlockHasACause
  CartsStayApart
  SavedWhenTyped
  ShownIsWanted
  LossHasACause
  ConstraintsNeverBite
SYMMETRY SubsystemsSymmetry
CHECK_DEADLOCK FALSE
