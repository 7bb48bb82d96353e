CONSTANTS
    Roles = {"owner", "admin", "member"}
    Users = {u1, u2, u3}
    Founder = u1
    Visits = {p1, p2}
    Invites = {i1, i2}
    Teams = {t1}
    Databases = {d1}
    Seats = 2
    None = None
    MaxVisits = 5
    Calls = {c1, c2}
    Sessions = {s1, s2, s3}
    Links = {k1}
    Codes = {r1}
    MaxFails = 1
    MaxStep = 2
    MaxCalls = 3
    Tabs = {t1,t2}
    MaxTries = 3
    Flows = {1,2}
    Hops = {h1,h2}
    MaxHops = 2
    Guests = {g1,g2}
    GuestRoles = {"owner","viewer"}
    MaxKnocks = 2
SPECIFICATION Spec
INVARIANTS MembersSafe SignInSafe SignUpSafe OAuthSafe GatewaySafe
CHECK_DEADLOCK FALSE
