--------------------------- MODULE MCTenantAdmin ---------------------------
EXTENDS TenantAdmin, TLC

CONSTANTS dt, tn1, s1, s2, s3
=============================================================================
