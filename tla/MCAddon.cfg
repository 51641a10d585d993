CONSTANTS
  PageSize = 2
  World <- Installations
  HighBitrate = 8
  HighSize = 8
SPECIFICATION Spec
INVARIANTS
  TypeOK
  CatalogsAnswer
  PagesAreComplete
  ListedTitlesOpen
  StreamsAreOfTheTitle
  LinksPlayTheirFile
  LightVersionsFirst
  OneLinkPerConnection
