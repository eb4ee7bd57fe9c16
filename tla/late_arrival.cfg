SPECIFICATION Spec
CONSTANTS
    Hosts = {"h1", "h2", "h3"}
    Stays = "h3"
    Instances = {i1}
    NoHost = NoHost
    BackoffLimit = 1
    Configs <- MCConfigs
    Scenarios = {{"slow_arrival"}}
INVARIANTS AlwaysPreDrained
