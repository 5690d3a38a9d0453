\* Two requests at a time over either adapter, in production or not: one
\* username, one new phone and a demo user's, two codes, one restart.
SPECIFICATION Spec
CONSTANTS
    Slots = {s1, s2}
    Names = {ann}
    Admin = Admin
    Phones = {alice, phone}
    AlicePhone = alice
    BobPhone = bob
    NoName = NoName
    MaxUsers = 5
    MaxCodes = 2
    MaxClubs = 1
    MaxRestarts = 1
INVARIANTS
    TypeOK
    OneRowPerName
    OtpSingleUse
    ClubsAreComplete
    OwnerIsAdmin
PROPERTY MembershipKept
SYMMETRY AnySlot
CONSTRAINT FewCodes
CHECK_DEADLOCK FALSE
