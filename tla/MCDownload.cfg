SPECIFICATION TransferSpec
CONSTANTS
  BodySizes = {0, 1, 3, 4}
  BlockSize = 2
  MAX_HEADERS = 4
  MaxLines = 5



CHECK_DEADLOCK FALSE
INVARIANT DownloadReported
