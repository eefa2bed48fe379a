SPECIFICATION FairSpec
CONSTANTS
    r1 = r1
    r2 = r2
    r3 = r3
    s1 = s1
    s2 = s2
    o1 = o1
    o2 = o2
    q1 = q1
    f1 = f1
    Repos = {r1, r2, r3}
    LocalRepos = {r1, r2}
    Present = {r1}
    SetNames = {s1, s2}
    Members <- MCMembers
    Filters = {f1}
    Matching <- MCMatching
    Orgs = {o1}
    OtherOrgs = {o2}
    Queries = {q1}
    Found <- MCFound
    MaxGen = 2
    Empty = Empty
    None = None
INVARIANTS
    IInv
PROPERTIES
    EscBacksOut
    NewestShown
    RepoToggleRepairs
    CloneReturns
