SPECIFICATION Spec
CONSTANTS
  Kind <- Kinds
  Nameless = {""}
  First <- AtFirst
  Snapshot <- Later
  Finance <- Finances
  Purchases <- PurchaseData
  Marketplace = {"m1", "m2"}
  Detail = "m2"
  Period = {"30d", "7d"}
  Default = "30d"
  PageSize = 2
  FinanceHealth = 78
  SuppliersHealth = 66
  MaxDb = 2
  MaxFlight = 2
  MaxClick = 2
CONSTRAINT DashboardOnce
INVARIANTS CatalogFresh PeriodShown PagesCover GrowthIsTorn PagesAgree
CHECK_DEADLOCK FALSE
