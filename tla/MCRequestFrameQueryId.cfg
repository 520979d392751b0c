CONSTANTS
    None = None
    SuppliedIds = {5}
    RandomIds <- MCRandomIds
    FieldSizes <- MCFieldSizes
    ExpirySizes <- MCExpirySizes
    MaxFields = 2
SPECIFICATION Spec
INVARIANTS
    QueryIdSent
