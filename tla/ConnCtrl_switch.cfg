SPECIFICATION FairSpec
CONSTANTS
    Peers = {}
    MeshServers = {"m1"}
    RtcServers = {"r1"}
    UiCmdSets = {{"SWITCH_TO_RTC_SERVER", "SWITCH_TO_MESH_SERVER", "DJI_STREAM_NAME_SET"}}
    MaxQueue = 1
PROPERTIES
    SlotsDrain
    LoginEnds
