CONSTANTS
  Sessions <- MCSessions
  TOTAL_GPIO_NUM = 3
  GpioTable <- MCGpioTable
  UnusedGpio = {2}
  Sensors = {1, 2}
  MAX_FAN_PWM_INDEX_COUNT = 2
  MAX_FAN_DUTY_VALUE = 2
  MaxRsv = 2
SPECIFICATION Spec
INVARIANTS MuxReturned ErrorChangesNothing
PROPERTY SlotsApart
