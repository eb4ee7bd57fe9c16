SPECIFICATION FairSpec
CONSTANTS
    Hosts = {"h1", "h2", "h3"}
    Stays = "h3"
    Instances = {i1}
    NoHost = NoHost
    BackoffLimit = 1
    Configs <- MCConfigs
    Scenarios = {{"late_mark"}, {"failed_move", "power_off"}, {"slow_arrival"}}
INVARIANTS PreDrained ForgottenInOrder
PROPERTIES NextToGoIsNotPicked ImplementsCluster JobsEnd
