\* Both peers, their sessions, restarts and failed saves; what is pending settles.
SPECIFICATION FairSpec
CONSTANTS
    a = a
    b = b
    m1 = m1
    m2 = m2
    m3 = m3
    m4 = m4
    Nodes = {a, b}
    Lower = a
    Messages = {m1, m2, m3, m4}
    From <- Senders
    Kind <- Kinds
    Horizon <- OneExpires
    MaxNow = 1
    AppLimit = 2
    ControlLimit = 2
    InboxLimit = 1
    ReceiptLimit = 1
    Cases <- Exchanges
INVARIANTS   ConfirmedIsHeld ObligationKept OneSessionPerGeneration
 
CHECK_DEADLOCK FALSE
