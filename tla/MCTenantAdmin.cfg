\* Three requests at once on a tenant that is created, resized and deactivated.
CONSTANTS
    dt = dt
    tn1 = tn1
    s1 = s1
    s2 = s2
    s3 = s3
    Tenant = {tn1}
    DefaultTenant = dt
    MaxDeleting = 1
    Session = {s1, s2, s3}
    MaxQuota = 2
    Null = Null
SPECIFICATION FairTenantsSpec
INVARIANTS
    TenantsTypeOK
    LateAdmissionsBounded
PROPERTIES
    OverQuotaOnlyWhenOvertaken
    RequestEnds
CHECK_DEADLOCK FALSE
