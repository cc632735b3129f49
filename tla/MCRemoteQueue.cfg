CONSTANTS
  p1 = p1
  p2 = p2
  a = a
  b = b
  c = c
  Producers = {p1, p2}
  Items = {a, b, c}
  Script <- MCScript
  MaxReuse = 1
  Null = Null
  Inactive = Inactive
  None = None
SPECIFICATION Spec
INVARIANT TypeOK
INVARIANT QueuesWellFormed
INVARIANT InactiveOnlyWhenArmed
PROPERTY QueueRefinement
PROPERTY ItemsRun
