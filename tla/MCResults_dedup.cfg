CONSTANTS
  j1 = j1
  j2 = j2
  h1 = h1
  h2 = h2
  a1 = a1
  Jobs = {j1, j2}
  Hosts = {h1, h2}
  Addresses = {a1}
  AddressesOf <- OneAddress
  Literals = {}
  V6 = {}
  LookupMayFail = FALSE
  TargetOf <- Connects
  NoEvent = NoEvent
  Events <- AllEvents
  EventsOf <- JobEvents
  Series <- AllSeries
  SeriesOf <- EventSeries
  Window = 3
  Delay = 1
  MaxNow = 6
SPECIFICATION Spec
\* at the end of the clock an event may wait for ever
CHECK_DEADLOCK FALSE
SYMMETRY Swap
PROPERTIES Spaced DroppedForAnother LikeForLike
