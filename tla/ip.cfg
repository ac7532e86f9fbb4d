\* Two interfaces with equal, nested or separate subnets, up to two gateways.
CONSTANTS
  net0 = net0
  net1 = net1
  Devs <- MCDevs
  NeedArp <- MCNeedArp
  Bits = 3
  Unicasts = {1, 2}
  Lens = {1, 2}
  Gateways = {6}
  Remotes = {2, 3, 7}
  MaxGateways = 2
SPECIFICATION Spec
INVARIANT BestRoute
INVARIANT OnLinkDirect
 
 
INVARIANT EchoReturns
