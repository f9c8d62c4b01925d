SPECIFICATION MCSpec
CONSTANTS
    Users = {u1, u2}
    Invitations = {v1}
    Tokens = {t1}
    Ids = {1, 2}
    Handlers = {h1, h2}
    None = None
    LockLimit = 2
    MaxPassword = 1
    Emails = {u1, u2}
    Modes = {"open", "invite_only"}
    Domain = {}
    MailInvites = {m1}
    MailTokens = {k1}
    Flows = {f1}
    Providers = {p1}
    Slugs = {g1, g2}
    Subjects = {s1}
    Callers = {h1, h2}
    Nobody = Nobody
INVARIANTS InvitationMakesOneAccount LoginSessionsCurrent LockAtLimit InvitedAndJoined TokenOpensOnce
PROPERTY IdentityStays
SYMMETRY MCSymmetry
CHECK_DEADLOCK FALSE
