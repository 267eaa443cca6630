SPECIFICATION Spec
CONSTANTS
  in1 = in1
  out1 = out1
  ui1 = ui1
  ip1 = ip1
  ip2 = ip2
  ip3 = ip3
  NoNode = NoNode
  NoIp = NoIp
  Nodes = {in1, out1}
  InboundNodes = {in1}
  Ip <- SharedIps
  OpenIps = {ip1}
  UiIps = {}
  MaxInbound = 1
  Grace = 2
  UiTimeout = 2
INVARIANTS
  FinderIsSafe
