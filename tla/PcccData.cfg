CONSTANTS
  Addresses <- TextAddresses
  Files <- Held
  Words = {0, 513, 32768, 65535}
  MaxRead = 2
  WriteCounts = {1, 42, 43, 63, 64, 127, 128, 255}
  Statuses = {0, 16}
  Queues = {1, 300}
  AskedSizes = {0, 1, 80, 109, 110, 255, 300}
  RecordSizes = {0, 40, 109}
  SentValues <- Messages
  Tags <- TextTags
  Integers32 <- Numbers
  Counts = {1, 2}
  LgxStatuses = {0, 5}
  OtherServices = {76, 77, 84}
SPECIFICATION AnySpec
INVARIANTS
  AddressIsUnderstood EveryFormIsPublished OnlyArraysAreRead BitIsRead
  CountIsRead RecordIsDelivered WriteAnnouncesItsData WriteIsReported
  PathNamesElement WriteCarriesItsData ElementsAreRead ConfirmedIsWritten
CHECK_DEADLOCK FALSE
