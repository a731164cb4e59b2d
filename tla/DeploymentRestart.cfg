CONSTANTS
    roles = roles
    topics_ = topics_
    users = users
    attempts = attempts
    ix_weight = ix_weight
    ix_email = ix_email
    ix_role_slug = ix_role_slug
    ix_started = ix_started
    role_slug = role_slug
    user = user
    admin = admin
    owner = owner
    Tables <- MCTables
    Indexes <- MCIndexes
    Additions <- MCAdditions
    OnAddition <- MCOnAddition
    LateIndexes <- MCLateIndexes
    RolesTable = roles
    TopicsTable = topics_
    StoredRoles <- MCStoredRoles
    DefaultRoles <- MCDefaultRoles
    DefaultTopics = {general}
    Accounts = {a1, a2, a3}
    Slugs = {user, admin, owner, tutor}
    Weights = {1, 2, 3, 4}
    NewSlugs = {tutor}
    DefaultSlug = user
    AssignWeight = 3
    Reqs = {q1, q2}
    UsersTable = users
    RoleColumn = role_slug
    Bare = Bare
    None = None
SPECIFICATION Spec
SYMMETRY Symmetry
INVARIANT TypeOK
INVARIANT UpIsComplete
INVARIANT NoEscalation
PROPERTY LadderStands
