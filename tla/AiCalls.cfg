SPECIFICATION AiSpec
CONSTANTS
    h = h
    a = a
    Voter = {h, a}
    Creator = h
    NoVoter = NoVoter
    Socket = {s1, s2}
    Story = {st1}
    Mode = "sync"
    Grace = 1
    Windows = {1}
    MaxTime = 1
    Text = {x, y}
    Limit = 2
SYMMETRY Symmetry
INVARIANTS
    OneCallPerStory
PROPERTIES
    AnswerKept
    NoTraceBeforeShare
