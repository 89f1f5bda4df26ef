SPECIFICATION FairSpec
CONSTANTS
    Groups = {g1, g2}
    Silenced = {g2}
    Users = {u1, u2}
    Sudo = {u2}
    g1 = g1
    g2 = g2
    u1 = u1
    u2 = u2
    Handlers = {h1, h2}
    h1 = h1
    h2 = h2
    Passwords = {p1, p2}
    p1 = p1
    p2 = p2
    Settings = {s1, s2}
    s1 = s1
    s2 = s2
    None = None
    MaxEvents = 3
INVARIANTS TypeOK UnannouncedIsExplained SyncFollowsTheText
PROPERTIES OnlyAdministratorsChange KeepsMapping MappedGetsMembers
