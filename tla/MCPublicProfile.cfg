SPECIFICATION Spec
CONSTANTS
    Types = {contact}
    Contact = contact
    Values = {a, b}
    Empty = empty
    Requests = {r1, r2}
    Visitors = {w1, w2}
    Owners = {owner}
    Managers = {owner}
    Reviewers = {staff}
    Suspenders = {staff}
    MaxToday = 1
    MaxViews = 3
SYMMETRY Interchangeable
CHECK_DEADLOCK FALSE
INVARIANTS
    ViewsAreCounted
    RemovalsAreAudited
