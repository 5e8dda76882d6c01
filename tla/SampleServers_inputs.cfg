SPECIFICATION SampleSpec
CONSTANT Questions <- Pairs
INVARIANTS
  
  SendsAreJudged
  FlowsAreTold
  RoutingAgrees
CHECK_DEADLOCK FALSE
