SPECIFICATION Spec
CONSTANTS
    None = None
    Person = Person
    Text = Text
    Answer = {x, y}
    Job = {flow, doc}
    Document = {doc}
    Worker = {w1, w2}
    MaxVersion = 3
SYMMETRY Symmetry
INVARIANTS
    TypeOK
    VersionMatchesFile
PROPERTIES
    ImplementsLog
    DecisionsSurviveRunning
CHECK_DEADLOCK FALSE
