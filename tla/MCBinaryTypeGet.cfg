CONSTANTS
    FieldIds <- MCFieldIds
    MaxFields = 3
    None = None
SPECIFICATION Spec
INVARIANTS
    GetBinaryTypeAnswers
