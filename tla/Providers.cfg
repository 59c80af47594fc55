SPECIFICATION MonitorSpec
CONSTANTS
    qwen = qwen
    llama = llama
    cli = cli
    box = box
    chore = chore
    NoHost = NoHost
    Providers = {qwen, llama, cli}
    Hosts = {box}
    HostOf <- MCHostOf
    WakeTarget <- MCWakeTarget
    Kind <- MCKind
    Chains <- MCChains
    Chores = {chore}
    Text <- MCText
    ChainKey <- MCChainKey
    Deadline <- MCDeadline
    Interval = 2
    RoundLimit = 1
    WakeCooldown = 3
    Startup = 2
    StaleOutput = 1
    ClientTimeout <- MCClientTimeout
    MinutesPerTick = 5
    MaxUpsets = 2
PROPERTIES
    MonitorSound
    WaitingIsServed
CHECK_DEADLOCK FALSE
