\* Uploads and downloads, interrupted and resumed, in blocks of at most two bytes.
CONSTANTS
  Byte <- SmallBytes
  Texts <- SmallTexts
  BufSize = 2
  Faults = {"short", "cr", "fclose"}
  None = None
SPECIFICATION Spec
INVARIANTS TypeOK StoredIsPrefix CopyIsPrefix
PROPERTIES Whole226
