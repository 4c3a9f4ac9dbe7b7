SPECIFICATION AccountsSpec
CONSTANTS
    Ids = {u1, u2}
    Root = u1
    Addrs = {root, other}
    RootAddr = root
    Typings = {"lower", "mixed"}
    Passwords = {p, q}
    RootPw = p
    Blank = Blank
    Slots = {s1, s2}
    Nobody = Nobody
    MaxBoots = 1
 
 
 
PROPERTY OldPasswordProved
SYMMETRY SlotSymmetry
CHECK_DEADLOCK FALSE
