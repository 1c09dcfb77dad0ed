SPECIFICATION Spec
CONSTANTS
    u1 = u1
    u2 = u2
    c1 = c1
    c2 = c2
    pw1 = pw1
    pw2 = pw2
    Clients <- TwoClients
    Ids <- TwoIds
    Passwords <- TwoPasswords
    Spellings = {"ann@x", "ann@X"}
    Normal <- Normalised
    AccessTTL = 1
    RefreshTTL = 2
    None = None
    Garbage = Garbage
    MaxTime = 3
SYMMETRY Alike
INVARIANTS TypeOK OneUserPerEmail SessionsEnd
