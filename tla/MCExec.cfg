\* Two orders in two slots, at the same time or the second one in the slot of
\* the first; every failure of a connection, the resolver's late close included.
\* A partial fill takes the path of "canceled" or of "filled" and is left out.
SPECIFICATION ExecFairSpec
CONSTANTS
  MaxPending = 2
  MaxOrders = 2
  MaxConns = 2
  MaxTurned = 1
  GiveUpPolls = 2
  Outcomes = {"filled", "canceled", "refused"}
  Mishaps = {"error", "close", "noid", "gap"}
INVARIANT ExecTypeOK
INVARIANT ReportsAreReal
INVARIANT AnswersMeetTheirOrder
INVARIANT OrdersAccountedFor
INVARIANT NoOrderVanishes
INVARIANT FlagIsHonest
PROPERTY KnownOrdersAreReleased
CHECK_DEADLOCK FALSE
