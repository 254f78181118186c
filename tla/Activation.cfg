SPECIFICATION SwitchingSpec
CONSTANTS
  Slot <- FourSlots
  Tab <- TwoTabs
  Window <- OneWindow
  WindowOf <- SameWindow
  TabOf <- TabOfFour
  TypeOf <- WheelAndDrag
  Sends <- TwoAndTwo
  Pauses <- OnePause
  Budget = 5
  AckDeadline = 1
  MaxSteal = 1
INVARIANT ReachesOwnTab
PROPERTIES OnlyHangsExpire Serialized ChainAdvances
CHECK_DEADLOCK FALSE
