SPECIFICATION FairSpec
CONSTANTS
    Messages = {"MESH_SERVER_SET", "RTC_SERVER_SET", "RTC_SERVER_SET name", "RTC_SERVER_SET mesh",
                "SWITCH_TO_RTC_SERVER", "SWITCH_TO_MESH_SERVER", "LOGIN"}
    SysvNum = 1
    RingNum = 2
    UiCmds = {"MESH_SERVER_SET", "RTC_SERVER_SET", "RTC_SERVER_SET name", "SWITCH_TO_RTC_SERVER",
              "SWITCH_TO_MESH_SERVER"}
    Replay = 1
    MaxDrain = 2
    FaultSets = {{"MESH_SERVER_SET", "RTC_SERVER_SET", "crash"},
                 {"RTC_SERVER_SET name", "crash"},
                 {"SWITCH_TO_RTC_SERVER", "crash"},
                 {"SWITCH_TO_MESH_SERVER", "crash"},
                 {"av", "crash"}}
INVARIANTS
    TypeOK
    RestoresChoice
PROPERTIES
    ChannelInOrder
    AvComesUp
