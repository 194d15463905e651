SPECIFICATION RouteSpec
CONSTANT
    Width = 7
CHECK_DEADLOCK FALSE
INVARIANT NetworksRouted
