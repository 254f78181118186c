SPECIFICATION FairSpec
CONSTANTS
  Slot <- FourSlots
  Tab <- TwoTabs
  Window <- OneWindow
  WindowOf <- SameWindow
  TabOf <- TabOfFour
  TypeOf <- WheelAndDrag
  Sends <- TwoAndTwo
  Pauses <- OnePause
  Budget = 6
  AckDeadline = 1
  MaxSteal = 0
PROPERTY ChainAdvances
CHECK_DEADLOCK FALSE
