SPECIFICATION AiLiveSpec
CONSTANTS
    h = h
    a = a
    Voter = {h}
    Creator = h
    NoVoter = NoVoter
    Socket = {s1}
    Story = {st1}
    Mode = "sync"
    Grace = 1
    Windows = {1}
    MaxTime = 0
    Text = {x}
    Limit = 1
PROPERTIES
    CallSettles
