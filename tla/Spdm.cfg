\* Responder: two peers, two tags, three frames.  Requester: the whole flow of
\* eighteen exchanges with two messages sent unasked.
CONSTANTS
  Eid = {8, 9}
  Tag = {0, 1}
  MaxFrames = 3
  MaxEvents = 2
SPECIFICATION SpdmSpec
INVARIANTS AnsweredOnce AnswersInStep
PROPERTIES MailboxEmptied FlowEnds
CHECK_DEADLOCK FALSE
