SPECIFICATION DialogsSpec
CONSTANTS
  LabelW = 12
  LabelH = 7
  Images <- MCImages
  Shapes <- MCShapes
  FixedSizes <- MCFixedSizes
  Points <- MCPoints
  dragSquareEdge = 3
  cropperMinimumWidth = 2
  cropperMinimumHeight = 2
  Slack = 1
  KeyOrder <- MCKeyOrder
  HintKeys <- MCHintKeys
  TextWidth <- MCTextWidth
  TextHigh = 16
  CloseWidth = 15
  ListWidth = 302
  ListHigh = 25
  EditWidth = 50
  EditHigh = 25
  HintWidth = 272
INVARIANTS
  DialogsTypeOK
  SquareInside
  NothingClipped
  HintsFollowLabels
  LabelsApart
PROPERTIES
  MoveKeepsInside
