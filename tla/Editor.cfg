CONSTANTS
  Alphabet <- MCAlphabet
  MaxLength = 5
  Texts <- MCTexts
  HistoryCap = 2
  None = None
SPECIFICATION Spec
INVARIANTS TypeOK HistoryIsWhatRan ScannerKeepsCode AsksBeforePlainWrite QuotedIsOneToken WhatRunsWasAsked ErrorCountsFromRun
