SPECIFICATION Spec
CONSTANTS
    Page = 72
    Bottom = 8
    Limit = 160
    Requests = {13, 36, 88}
    Gaps = {8}
INVARIANTS TypeOK BlocksIntact ListLinked
PROPERTIES ImplementsHeap
