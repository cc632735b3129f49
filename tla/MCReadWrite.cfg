\* Every read mode on a 4-byte buffer; the peer (or file) has nothing or
\* exactly the buffer's worth, written one byte at a time; it may close
\* and a read may fail.
CONSTANTS
  Size = 4
  Modes <- AllModes
  StreamLens = {0, 4}
  MayClose = TRUE
  MayFail = TRUE
SPECIFICATION Spec
INVARIANT TypeOK
INVARIANT ResultAccounted
PROPERTY ReadCompletes
