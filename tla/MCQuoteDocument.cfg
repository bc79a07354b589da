\* Quotes of up to three concepts, from their prices to the pages of their PDF.
CONSTANTS
  HalfRange = 128
  Whole = 100
  ColumnLimit = 60
  Items <- MCItems
  Options <- MCOptions
  CustomerTexts <- MCCustomerTexts
  PaymentTexts <- MCPaymentTexts
  NoteTexts <- MCNoteTexts
  MaxConcepts = 3
  Columns = 4
SPECIFICATION Spec
INVARIANTS
  PriceIsExact
  QuoteAddsUp
  FiguresAddUp
  ReadingOrder
  OnlyOversizedSpills
  WrapsTightly
\* A request ends.
CHECK_DEADLOCK FALSE
