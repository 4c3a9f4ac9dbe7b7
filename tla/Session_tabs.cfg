SPECIFICATION Spec
CONSTANTS
    Ids = {u1, u2}
    Root = u1
    Addrs = {root, other}
    RootAddr = root
    Typings = {"lower"}
    Passwords = {p}
    RootPw = p
    Blank = Blank
    Slots = {c1, c2}
    Calls = {c1, c2}
    Nobody = Nobody
    MaxBoots = 1
    MaxEvents = 2
INVARIANT TypeOK
INVARIANT DataOfShownAccount
 
PROPERTY DialogOutlivesAnswers
PROPERTY SubmitComesBack
CHECK_DEADLOCK FALSE
