\* Any sequence of requests, with firmware arriving at any time.
SPECIFICATION Spec
CONSTANTS
    Logins = {admin1, admin2}
    Public = Public
    NoRequest = NoRequest
INVARIANTS
    TypeOK
    Answered
    RefusedChangesNothing
PROPERTIES
    OnlyWithLogin
    Served
