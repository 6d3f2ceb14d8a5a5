\* A section of a text that is XML, with the digit 0 in it.
SPECIFICATION XmlSpec
CONSTANTS
  XmlNames = {"a", "b"}
  XmlAttrNames = {"x"}
  MaxPieces = 5

CHECK_DEADLOCK FALSE
INVARIANT SectionsAsInXml
