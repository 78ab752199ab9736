SPECIFICATION LibrarySpec
CONSTANTS
  MaxAddr = 4
  Values = 3
  SetArgs <- MCSetArgs
  Width = 8
  Formats <- MCFormats
  Numbers <- MCNumbers
  Strings <- MCStrings
INVARIANTS
  ResultsInMemory
  CompareIsLexicographic
  NumbersReadBack
  ArgumentsInOrder
