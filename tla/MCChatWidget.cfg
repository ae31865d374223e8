SPECIFICATION Spec
CONSTANTS
  ann = ann
  Users <- MCUsers
  NoId = NoId
  MaxAsked = 1
  MaxHeads = 1
  MaxMsg = 2
  MaxApplies = 1
INVARIANTS
  TypeOK
  AnswersMatch
  NoDangling
  PageShowsPeer
  AddsShownUser
