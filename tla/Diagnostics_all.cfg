\* Every outcome of a text, a well-formed and a malformed uri, two edits that
\* may overlap.
SPECIFICATION Spec
CONSTANTS
    Uris = {"a.jsonnet", "%zz"}
    Texts <- MCTexts
    Outcome <- MCOutcome
    NumDiags <- MCNumDiags
    BadUris = {"%zz"}
    NoText = NoText
    MaxEdits = 2
INVARIANTS TypeOK PublishedComplete PublishedOnce LeakOnlyOnLexError ShownIsCurrent
PROPERTIES ImplementsService GoodEditsPublished CollectorsEnd
CHECK_DEADLOCK FALSE
