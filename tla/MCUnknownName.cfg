\* The methods with lists that name what no node is there for.
SPECIFICATION ServicesSpec
CONSTANTS
  DomNodes = {1, 2, 3, 4, 5, 6}
  DomKind <- MCDomKind
  DomTag <- MCDomTag
  DomText <- MCDomText
  DomAttrs <- MCDomAttrs
  Markups <- MCMarkups
  DomMoves = FALSE
  XmlNames = {"a", "b"}
  XmlAttrNames = {"x"}
  MaxPieces = 5
  AttrNodes = {1, 2, 3, 4, 5, 6}
  AttrName <- MCAttrName
  AttrLocal <- MCAttrLocal
  AttrValues = {"v"}
  NsPrefixes = {"p"}
  NsUris = {"u", "v"}
  NsLocals = {"a", "b"}
  MaxNsElements = 3
  MaxNsAttrs = 2
  PoolSize = 16
  PoolHead = 8
  DataHead = 4
  LargeSize = 2
  CleanupSize = 4
  PoolAlign = 2
  MaxFromPool = 11
  AllocSizes = {1, 7, 13}
  MaxAllocs = 4
  MaxClears = 2
  BufferSize = 3
  WriteSizes = {1, 3, 4, 7}
  CopySizes = {0, 2, 3, 7, 10}
  MaxWritten = 9
  SizeInc = 3
  AppendSizes = {0, 1, 2, 5}
  MaxXmlBuffer = 24
  RingSize = 4
  HashKeys = {1, 2, 3, 4, 5}
  HashData = {"d", "e"}
  parahash <- MCHash
  MaxNodes = 4
  HashSize = 2
  ListHeads = {1, 2}
  ListEntries = {3, 4, 5}
  IniStarts <- MCIniStarts
  IniNames <- MCIniNames
  IniTexts = {"v", "w"}
  MaxIniPuts = 3
  MaxIniCrashes = 1
  BodySizes = {0, 1, 3, 4}
  BlockSize = 2
  MAX_HEADERS = 4
  MaxLines = 5
  Values <- MCValues
  Opaques <- MCOpaques
  UserLen = 4
  RealmLen = 2
  CheckedRealmLen = 2
  NonceLen = 3
  UriLen = 4
  CpeUser <- MCCpeUser
  AcsUser <- MCAcsUser
  CpePwd <- MCCpePwd
  UrlParts <- MCUrlParts
  SentUrls <- MCSentUrls
  SchemeLen = 1
  HostLen = 3
  DocumentLen = 6
  MaxPosts = 2
  ParamDocs <- MCParamDocs
  SearchPaths <- MCSearchPaths
  InstanceNames = {"1", "2"}
  MaxParams = 13
  MaxEdits = 4
  HeaderIds = {"i"}
  ParamValues = {"v", "w"}
  FileUrls = {"", "u"}
  AskedLists <- MCAskedLists
  SetLists <- MCSetLists
  RenewSize = 3
  InformNames <- MCInformNames
  EventLists <- MCEventLists
  MaxAsked = 2
  MaxBetween = 1

CHECK_DEADLOCK FALSE
INVARIANT UnknownNameFaults
