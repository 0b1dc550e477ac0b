-------------------------- MODULE MCSalesDashboard --------------------------
\* Instances of SalesDashboard for TLC.
EXTENDS SalesDashboard, TLC
=============================================================================
