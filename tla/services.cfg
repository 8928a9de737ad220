\* One service at a time; two handlers and four requests
SPECIFICATION MCSpec
CONSTANTS
    Handlers = {h1, h2}
    MaxRequests = 4
    None = None
    Emails = {e1, e2}
    Subjects = {s1, s2}
    Passwords = {w1, w2}
    p1 = p1
    p2 = p2
    t1 = t1
    t2 = t2
    Products = {p1, p2}
    Categories = {k1}
    Reviewers = {u1}
    Texts = {t1, t2}
    Scores = {good}
    FirstRows <- MCRows
    MaxStock = 1
    Shoppers = {u1, u2}
    Places = {a1, a2, a3}
    Purchases = {o1}
    News = {"paid", "in-progress", "cancelled"}
    Clients = {c1, c2}
    Limits = {0, 1, 2}
    Goods = {g1, g2}
    Prices = {1, 149}
    Quantities = {1, 2}
    Offers <- MCOffers
    DefaultPageSize = 2
    PageSizes = {0, 1, 2, 3}
    MaxRows = 4
    Wares = {a, b}
    Threshold = 1
    MaxUnits = 3
INVARIANTS
    AcctTypeOK
    AnsweredCanSignIn
    DefaultIsLastSet
    CatTypeOK
    LoneEditsKeepCounters
    LoneRatingsAreExact
    LoneEntriesAreFresh
    MailsAreTrue
    MailAtMostOnce
    OptedOutGetNoMail
    BillsAddUp
    WalksMissNothing
PROPERTIES
    LinkIsStable
    HalfRegistrationsStay
    BlocksEnd
    SalesAreWarnedOf
CHECK_DEADLOCK FALSE
