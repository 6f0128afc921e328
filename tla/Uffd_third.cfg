SPECIFICATION UfSpec
CONSTANTS
  Pages = 1
  Letters = 20
INVARIANT ThirdLoopChanges
CHECK_DEADLOCK FALSE
