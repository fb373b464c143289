SPECIFICATION Spec
CONSTANTS
    Page = 72
    Bottom = 8
    Limit = 176
    Requests = {8, 16}
    Gaps = {24}
INVARIANTS HeaderIsSize
