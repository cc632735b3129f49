CONSTANTS
  A = A
  B = B
  m1 = m1
  m2 = m2
  m3 = m3
  Clients = {A, B}
  Msgs = {m1, m2, m3}
  Lines <- MCLines
SPECIFICATION Spec
PROPERTY ChatDelivered
