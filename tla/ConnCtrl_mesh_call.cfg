SPECIFICATION Spec
CONSTANTS
    Peers = {1}
    MeshServers = {"m1"}
    RtcServers = {"r1"}
    UiCmdSets = {{"MESH_LOGIN", "MESH_CONN", "MESH_DISCONN", "MESH_LOGOUT", "RTC_LOGIN"}}
    MaxQueue = 1
PROPERTIES
    MeshCallRejected
