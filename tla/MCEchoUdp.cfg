\* The server listens on an IPv6 address; sends can fail.
CONSTANTS
  A = A
  B = B
  m1 = m1
  m2 = m2
  Zero = Zero
  Server = Server
  Family = "AF_INET6"
  Clients = {A, B}
  Msgs = {m1, m2}
  Lines <- MCLines
  SendMayFail = TRUE
SPECIFICATION Spec
INVARIANT EchoToSender
