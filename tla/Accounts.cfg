\* Three requests or pushes, two devices, three identities of which two have the
\* same address.  The requests are used up: no deadlock check.
SPECIFICATION Spec
CONSTANTS
    r1 = r1
    r2 = r2
    r3 = r3
    Request = {r1, r2, r3}
    Identity <- MCIdentity
    x = x
    y = y
    Email = {x, y}
    EmailOf <- MCEmailOf
    phone = phone
    tablet = tablet
    Device = {phone, tablet}
    None = None
SYMMETRY MCSymmetry
CHECK_DEADLOCK FALSE
INVARIANTS
    TypeOK
    OneAccountPerIdentity
    FirstLoginOnce
    DeviceHasOneLivingOwner
    PushReachesOwner
    RetryTakesLatestDevice
