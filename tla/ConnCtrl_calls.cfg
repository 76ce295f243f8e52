SPECIFICATION Spec
CONSTANTS
    Peers = {1}
    MeshServers = {"m1"}
    RtcServers = {"r1"}
    UiCmdSets = {
        {"MESH_LOGIN", "MESH_CONN", "MESH_DISCONN", "MESH_LOGOUT", "RTC_LOGIN"},
        {"MESH_LOGIN", "MESH_CONN", "MESH_DISCONN", "MESH_LOGOUT", "RTC_HDMI_CALL", "MESH_SERVER_SET"},
        {"RTC_LOGIN", "RTC_HDMI_CALL"},
        {"RTC_DISCONN", "RTC_LOGIN", "RTC_LOGOUT", "RTC_DJI_STREAM_STOP", "CFG_VIDEO"}}
    MaxQueue = 1
INVARIANTS
    TypeOK
    CameraHasReason
    StatusImpliesWanted
    PeerForgotten
    ServerImpliesStarted
