SPECIFICATION Spec
CONSTANTS
    ann = ann
    bob = bob
    acme = acme
    bolt = bolt
    t1 = t1
    r1 = r1
    r2 = r2
    c1 = c1
    c2 = c2
    Nobody = Nobody
    UnknownSlug = UnknownSlug
    Requests = {r1, r2}
    Connections = {c1, c2}
    Users = {ann, bob}
    Orgs = {acme, bolt}
    Tokens = {t1}
    Scope <- MCScope
    Enrolled <- MCEnrolled
    MaxChanges = 2
SYMMETRY Symmetry
INVARIANTS TypeOK ReadsOwnRowsOnly ScopeHolds NobodyIsStuck
PROPERTIES EntersAsMember RevocationSticks
