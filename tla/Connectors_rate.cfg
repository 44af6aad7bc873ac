\* Two mails to one domain, where one is allowed in an hour.
SPECIFICATION ConnectorSpec
CONSTANTS
    Payloads = {m1, m2}
    DomainOf <- MCDomainOf
    RateMax = 1
    RateWindow = 2
    MaxTime = 1
    MaxPreviews = 2
    NoCall = NoCall
INVARIANT MailsLimited
CHECK_DEADLOCK FALSE
