SPECIFICATION ContractSpec
INVARIANT EveryRequestIsSent
CHECK_DEADLOCK FALSE
