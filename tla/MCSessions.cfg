SPECIFICATION Spec
CONSTANTS
    Users = {u1, u2}
    Passwords = {p1, p2}
    Devices = {d1, d2, d3}
    Tokens = {k1, k2, k3}
    Challenges = {c1}
    Resets = {r1}
    Handlers = {h1}
    None = None
SYMMETRY Symmetry
INVARIANTS
    TokenSafety SingleUse
PROPERTY LostFamiliesStayLost
