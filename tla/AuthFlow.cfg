CONSTANTS
  g1 = g1
  g2 = g2
  x1 = x1
  x2 = x2
  k1 = k1
  k2 = k2
  s1 = s1
  NoCode = NoCode
  NoToken = NoToken
  Grants <- TwoGrants
  Exchanges <- TwoExchanges
  Clients <- OneClient
  Codes <- TwoCodes
  Tokens <- OneToken
  IdTokens <- OneToken
SPECIFICATION FlowSpec
INVARIANTS TypeOK SingleUse GrantUsable RefusedOnlyIfSpent
PROPERTIES CodeRedeemed EveryRequestAnswered
CHECK_DEADLOCK FALSE
