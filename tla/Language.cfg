CONSTANTS
    a = a
    b = b
    c = c
    Scripts <- ConstantScripts
SPECIFICATION AllSpec
INVARIANTS
    AnnotationsInForce
    TextFollowsEditor
    FilesIdentified
    BodiesJudged
    StructureRead
    ConstantsJudged
    CallsJudged
    IndexCoherent
PROPERTIES
    AffectedComplete
CHECK_DEADLOCK FALSE
