SPECIFICATION CodecSpec
CONSTANTS
  Spans <- MCSpans
  Samples <- MCSamples
  Messages <- MCMessages
  None = None
INVARIANTS RoundTrip RequestsWhole UplinkFits ParsedWhole PortalAnnouncesWhatItSends DnsQuestionInside
PROPERTIES CalendarFollows TextInOrder
CHECK_DEADLOCK FALSE
