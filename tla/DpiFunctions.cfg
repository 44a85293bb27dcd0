SPECIFICATION Spec
CONSTANTS
  PatternChars = {"a", "b", "*", "?", "^"}
  MaxPattern = 4
  StringChars = {"a", "b"}
  MaxString = 4
  Chars = {"a", "*", "+", "?", ".", "^", "$", "/"}
  MaxGlob = 4
  MaxLengths = {8, 17}
  Strings <- ShortStrings
  ChunkWidth = 2
  MaxSize = 5
  MaxChunk = 3
INVARIANTS MatchesGlob FindsWhatIsMeant ConvertsOnce Fits ValueExtended
PROPERTY Returns
CHECK_DEADLOCK FALSE
