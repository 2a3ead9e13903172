SPECIFICATION Spec
CONSTANTS
    Jobs = {1, 2, 3}
    Slots = {s1, s2}
    Tenants = {"alpha", "beta"}
    TenantOf <- TwoTenants
    LeaseFor = 1
    RetryDelay = 1
    MaxAttempts = 2
    MaxTime = 2
    NoSlot = NoSlot
SYMMETRY SlotSymmetry
INVARIANTS TypeOK AttemptsAgree BoundedOvertaking
PROPERTIES SingleSettler LiveLeaseUntouched ImplementsLease
CHECK_DEADLOCK FALSE
