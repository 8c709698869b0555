SPECIFICATION DesktopSpec
CONSTANTS
    Users = {u1}
    User = u1
    Passwords = {p1}
    Devices = {d1, d2}
    Tokens = {k1, k2, k3}
    Challenges = {}
    Resets = {}
    Handlers = {}
    Threads = {h1, h2}
    MaxFaults = 1
    None = None
CHECK_DEADLOCK FALSE
SYMMETRY Symmetry
INVARIANTS NeverCutOffByItself RestingTokensAreNewest
