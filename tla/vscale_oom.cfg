INIT Init
NEXT Next
CONSTANTS
    Cfgs <- FreeSteps
    NoCfg = NoCfg
    NoRow = NoRow
    Usages = {"none", "low", "mid", "high"}
    WorkingSets = {2, 4}
    UpSize = 2
    UpHits = 2
    DownSize = 2
    DownHits = 2
    MemUpSize = 2
    MemUpHits = 2
    MemDownSize = 2
    MemStep = 2
    CPUCooldown = 1
    MemUpCooldown = 1
    MemDownCooldown = 2
    MaxKills = 1
    MaxEvents = 1
PROPERTY
    OOMDoubles
