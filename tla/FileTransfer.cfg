CONSTANTS
    SENSOR_LIST_FILE = SENSOR_LIST_FILE
    REGION_CONFIG_FILE = REGION_CONFIG_FILE
    UNKNOWN_FILE = UNKNOWN_FILE
    INFO = INFO
    NOFILE = NOFILE
    MIXED = MIXED
    Versions = {1, 2, 3}
    FileSize <- MCFileSize
    PcNames <- MCPcNames
    MAX_CONFIG_FILE_SIZE = 4
    CHUNK = 2
    MaxJobs = 2
    MaxReboots = 1
    NetRequests <- MCNetRequests
    RemoteRequests <- MCRemoteRequests
    LoraRequests <- MCLoraRequests
    OfflineRequests = {60, 300}
    MaxCfgCmds = 2
SPECIFICATION Spec
INVARIANTS
    TypeOK
    DownloadedFileLoaded
PROPERTIES
    ConfigSurvivesReboot
