SPECIFICATION Spec
CONSTANTS
    MaxMessages = 2
    MaxConnects = 1
    MaxResets = 0
    Oversized = {}
    Configs <- OneConfig
    DefaultCfg <- IgnoreNew
    Threshold = 0
PROPERTIES
    KeptWhileOffline
