\* Three values through every kind of node, queues of one, and three control
\* operations, the first of which starts it.
SPECIFICATION FairSpec
CONSTANTS
  src = src
  proc = proc
  rt = rt
  flt = flt
  agg = agg
  err = err
  snk = snk
  v1 = v1
  v2 = v2
  v3 = v3
  a = a
  default = default
  Nodes <- TheNodes
  Order <- TheOrder
  Kind <- TheKind
  Source = src
  Routes <- TheRoutes
  Default = default
  Wiring <- TheWiring
  Pushes <- ThePushes
  Bad <- TheBad
  RouteOf <- TheRouteOf
  Passes <- ThePasses
  Window = 2
  Timed = TRUE
  Capacity = 1
  Pausable = {proc}
  Removable = {flt}
  Edges <- TheEdges
  MaxOps = 3
  NoNode = NoNode
CHECK_DEADLOCK FALSE
INVARIANTS TypeOK DeliveredInOrder NothingLostSilently NoDeadlock
PROPERTIES StopIsComplete Drains
