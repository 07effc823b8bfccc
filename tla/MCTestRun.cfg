\* Every kind of test, one client for "clients" and two for the others, and one more
\* for the TCP flow beside UDP, two times.
SPECIFICATION FairSpec
CONSTANTS
  c1 = c1
  c2 = c2
  c3 = c3
  Clients <- MCClients
  TcpClient = c3
  Modes = {"udp", "clients", "wsrc", "share"}
  Times = 2
INVARIANTS TypeOK OneReader OwnLogs HostsClean FlowsHeard
PROPERTIES TestEnds
CHECK_DEADLOCK FALSE
