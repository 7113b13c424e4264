SPECIFICATION Spec
CONSTANTS
    u1 = u1
    u2 = u2
    Users = {u1, u2}
    p1 = p1
    p2 = p2
    p3 = p3
    Pairs = {p1, p2, p3}
    None = None
    Forms <- MCForms
    MaxChanges = 3
INVARIANT LifeInv
INVARIANT SubscriptionConnects
 
INVARIANT NeverBare
PROPERTY NoRotationUnderClients
