--------------------------- MODULE QuoteDocument ---------------------------
(***************************************************************************)
(* One quote from its price to its PDF: Create prices the concepts and     *)
(* stores them (service/quotes.go, repository/quotes.go), GeneratePDF      *)
(* works out discount and tax, and the document is laid out on pages       *)
(* (document/quote_pdf.go).  Who else writes the quote meanwhile is        *)
(* QuotesTx's business; here nobody does.                                  *)
(***************************************************************************)
EXTENDS Money, Sequences, SequencesExt

CONSTANTS
  Items,          \* the concepts a client may send, with the rates they meet
  Options,        \* the discounts and taxes asked for, in basis points
  CustomerTexts,  \* name and contact data, one value after the other
  PaymentTexts,   \* deposit, balance and form of payment
  NoteTexts,      \* validity, notes and specifications
  MaxConcepts,    \* the concepts of a quote (50 in the code)
  Columns,        \* the width of a text, in characters of width 1
  ColumnLimit     \* the first amount that NUMERIC(14, 2) refuses, in cents

\* Paragraphs of words; no word is empty (strings.Fields).
Texts == Seq(Seq(Nat \ {0}))

ASSUME ColumnsAssumption == Columns \in Nat \ {0}
ASSUME TextsAssumption == CustomerTexts \cup PaymentTexts \cup NoteTexts \subseteq Texts
\* The last conjunct: rates are NUMERIC(12, 2), grams and minutes have a maximum
\* (service/quotes.go:304, 416), so everything but the electricity fits in int64.
ASSUME ItemsAssumption ==
  \A item \in Items :
    /\ item.unit \in Nat \ {0} /\ item.pieces \in Nat \ {0}
    /\ item.material \in Nat /\ item.machine \in Nat /\ item.sale \in Nat
    /\ item.electricity \in Nat /\ item.preparation \in Nat
    /\ item.material + item.machine + item.sale + item.preparation * item.unit
         < item.unit * MaxInt64
    /\ item.text \in Texts
ASSUME ColumnLimitAssumption == ColumnLimit \in Nat /\ 2 * ColumnLimit <= HalfRange

VARIABLES
  pc,         \* what happens next
  concepts,   \* the priced concepts, in order
  totals,     \* costo_total and precio_sugerido_total
  figures,    \* the summary of the PDF
  page, y,    \* the page being drawn and how far down it is filled
  drawn,      \* what has been drawn, in the order it was
  wrapped,    \* the last text wrapped and its lines
  pending     \* lines still to draw of a paragraph, and paragraphs to come

vars == <<pc, concepts, totals, figures, page, y, drawn, wrapped, pending>>

-----------------------------------------------------------------------------
(* Wrapping.  A text is a sequence of paragraphs, a paragraph a sequence of
   words, a word the number of its characters; a line is a sequence of parts of
   words with a space between two of them.  A character has one width, wrap's own:
   the code measures in the font set last, which after a table header (bold 8) is
   not the one the row is then drawn in (regular 8.5).                         *)

Total(s) == FoldLeft(LAMBDA a, b: a + b, 0, s)

Measured(line) == Total(line) + Len(line) - 1

\* A word wider than the column is cut in pieces that fill it, but for the last.
splitWord(word) ==
  [i \in 1..((word + Columns - 1) \div Columns) |->
     IF i * Columns <= word THEN Columns ELSE word % Columns]

\* The parts of a paragraph; `more` marks those that continue a word.
Parts(words) ==
  FlattenSeq([i \in DOMAIN words |->
    LET parts == splitWord(words[i])
    IN  [j \in DOMAIN parts |-> [size |-> parts[j], more |-> j > 1]]])

\* Variant: a line that is exactly full does not fit.
FitsStrictly(line) == Measured(line) < Columns

Fits(line) == Measured(line) <= Columns

\* The body of wrap's loops: put the part on the current line, or flush that line.
PutPart(at, part) ==
  LET line == Append(at.current, part.size)
  IN  IF ~part.more /\ (at.current = <<>> \/ Fits(line))
        THEN [at EXCEPT !.current = line]
        ELSE [lines |-> IF at.current = <<>> THEN at.lines
                                             ELSE Append(at.lines, at.current),
              current |-> <<part.size>>]

wrapParagraph(words) ==
  LET end == FoldLeft(PutPart, [lines |-> <<>>, current |-> <<>>], Parts(words))
  IN  Append(end.lines, end.current)

wrap(text) == FlattenSeq([i \in DOMAIN text |-> wrapParagraph(text[i])])

-----------------------------------------------------------------------------
(* Pricing: CalculateQuoteInput with the rates as fractions over item.unit
   cents; the preparation is a whole number of cents.                         *)

calculate(item) ==
  LET material    == moneyFromRat(item.material, item.unit)
      machine     == moneyFromRat(item.machine, item.unit)
      sale        == moneyFromRat(item.sale, item.unit)
      electricity == moneyFromRat(item.electricity, item.unit)
      suggested   == Int64(material + sale + electricity + item.preparation)
  IN  [item     |-> item,
       amounts  |-> {material, machine, electricity, item.preparation},
       cost     |-> Int64(material + machine + electricity + item.preparation),
       price    |-> suggested,
       perPiece |-> divideMoney(suggested, item.pieces)]

\* Variant: the total is built from the rounded price of a piece.
AddedByPiece(sums, c) ==
  [cost  |-> Int64(sums.cost + c.cost),
   price |-> Int64(sums.price + c.perPiece * c.item.pieces)]

Added(sums, c) == [cost |-> Int64(sums.cost + c.cost), price |-> Int64(sums.price + c.price)]

\* The guard of Create; the subtraction is one of int64.
Exceeds(total, amount) == total > Int64(MaxInt64 - amount)

\* What the CHECKs and the types of the columns let in.
Storable(amount) == amount >= 0 /\ amount < ColumnLimit

AddConcept(item) ==
  LET c == calculate(item)
  IN  /\ pc = "price"
      /\ Len(concepts) < MaxConcepts
      /\ IF Exceeds(totals.cost, c.cost) \/ Exceeds(totals.price, c.price)
           THEN pc' = "refused" /\ UNCHANGED <<concepts, totals>>
           ELSE /\ concepts' = Append(concepts, c)
                /\ totals' = Added(totals, c)
                /\ UNCHANGED pc
      /\ UNCHANGED <<figures, page, y, drawn, wrapped, pending>>

\* One transaction: the quote and all its concepts, or nothing.
Create ==
  /\ pc = "price"
  /\ concepts # <<>>
  /\ pc' = IF /\ Storable(totals.cost) /\ Storable(totals.price)
              /\ \A i \in DOMAIN concepts :
                   \A a \in concepts[i].amounts \cup {concepts[i].cost, concepts[i].price,
                                                      concepts[i].perPiece} : Storable(a)
             THEN "stored" ELSE "refused"
  /\ UNCHANGED <<concepts, totals, figures, page, y, drawn, wrapped, pending>>

-----------------------------------------------------------------------------
(* The document.  Heights and tops are points from the top of a letter page.  *)

FooterTop == 754

Mark(what, onPage, top, height, n) ==
  [what |-> what, page |-> onPage, top |-> top, bottom |-> top + height, n |-> n]

\* The marks of one kind, in order.
Only(what, marks) ==
  LET only[i \in 0..Len(marks)] ==
        IF i = 0 THEN <<>>
        ELSE IF marks[i].what = what THEN Append(only[i - 1], marks[i]) ELSE only[i - 1]
  IN  only[Len(marks)]

drawFooter == Mark("footer", page, FooterTop, 16, page)

addPage == Mark("continuation", page + 1, 38, 17, 0)

\* What every page break does: close this page, open the next, head it.
TurnPage(headings) == drawn' = drawn \o <<drawFooter, addPage>> \o headings

Draw(marks) == drawn' = drawn \o marks

drawHeader == Mark("header", 1, 39, 57, 0)

\* The service's part, the first page and its header.
GeneratePDF(option) ==
  /\ pc = "stored"
  /\ parsePercentage(option.discount) /\ parsePercentage(option.tax)
  /\ figures' = Figures(totals.price, option.discount, option.tax)
  /\ page' = 1
  /\ Draw(<<drawHeader>>)
  /\ pc' = "information"
  /\ UNCHANGED <<concepts, totals, y, wrapped, pending>>

InformationHeight(n) == Max({92, 42 + 13 * n})

\* Both blocks, side by side, then the heading of the table and its header.
DrawInformation(customer, payment) ==
  LET height == InformationHeight(Max({Len(wrap(customer)), Len(wrap(payment))}))
      title  == 118 + height + 28
  IN  /\ pc = "information"
      /\ Draw(<<Mark("information", page, 118, height, 0),
                Mark("title", page, title, 14, 0),
                Mark("table", page, title + 24, 28, 0)>>)
      /\ y' = title + 24 + 28
      /\ wrapped' = [text |-> payment, lines |-> wrap(payment)]
      /\ pc' = "rows"
      /\ UNCHANGED <<concepts, totals, figures, page, pending>>

RowsDrawn == Len(Only("row", drawn))

RowHeadings(on) == <<Mark("table", on, 92, 28, 0)>>

RowHeight(lines) == Max({36, 11 * Len(lines) + 14})

\* Variant: only the top of the row is looked at.
BreaksRowAtTop(height) == y > 650

\* Whether a row of this height goes on the next page.
BreaksRow(height) == y + height > 650

drawConceptRow(on, top, height, n) == Mark("row", on, top, height, n)

DrawRow ==
  LET n      == RowsDrawn + 1
      lines  == wrap(concepts[n].item.text)
      height == RowHeight(lines)
  IN  /\ pc = "rows"
      /\ n <= Len(concepts)
      /\ IF BreaksRow(height)
           THEN /\ TurnPage(Append(RowHeadings(page + 1),
                                   drawConceptRow(page + 1, 120, height, n)))
                /\ page' = page + 1
                /\ y' = 120 + height
           ELSE /\ Draw(<<drawConceptRow(page, y, height, n)>>)
                /\ y' = y + height
                /\ UNCHANGED page
      /\ wrapped' = [text |-> concepts[n].item.text, lines |-> lines]
      /\ UNCHANGED <<pc, concepts, totals, figures, pending>>

TotalsBreak == y > 500

\* The summary and the title of the notes.
DrawTotals ==
  LET top == IF TotalsBreak THEN 92 + 28 ELSE y
      on  == IF TotalsBreak THEN page + 1 ELSE page
      summary == <<Mark("totals", on, top, 4 * 27, 0), Mark("notes", on, top + 116, 14, 0)>>
  IN  /\ pc = "rows"
      /\ RowsDrawn = Len(concepts)
      /\ IF TotalsBreak
           THEN TurnPage(<<Mark("title", page + 1, 92, 14, 0)>> \o summary)
           ELSE Draw(summary)
      /\ page' = on
      /\ y' = top + 116 + 22
      /\ pc' = "notes"
      /\ UNCHANGED <<concepts, totals, figures, wrapped, pending>>

\* A paragraph of the notes; the first is always there, the others if the quote
\* and the request have them.
BeginParagraph(text) ==
  /\ pc = "notes"
  /\ pending.lines = 0
  /\ pending.paragraphs > 0
  /\ wrapped' = [text |-> text, lines |-> wrap(text)]
  /\ pending' = [lines |-> Len(wrap(text)), paragraphs |-> pending.paragraphs - 1]
  /\ UNCHANGED <<pc, concepts, totals, figures, page, y, drawn>>

\* Variant: the first line of a page of notes is drawn over their title.
NotesTopOnTitle == 90

\* Where the notes continue on a page: below their title.
NotesTop == 90 + 22

BreaksNote == y + 12 > 720

\* A line of it, and after the last the space below the paragraph.
DrawNoteLine ==
  LET top  == IF BreaksNote THEN NotesTop ELSE y
      on   == IF BreaksNote THEN page + 1 ELSE page
      line == <<Mark("note", on, top, 12, 0)>>
  IN  /\ pc = "notes"
      /\ pending.lines > 0
      /\ IF BreaksNote
           THEN TurnPage(<<Mark("notes", page + 1, 90, 14, 0)>> \o line)
           ELSE Draw(line)
      /\ page' = on
      /\ y' = top + 12 + (IF pending.lines = 1 THEN 6 ELSE 0)
      /\ pending' = [pending EXCEPT !.lines = @ - 1]
      /\ UNCHANGED <<pc, concepts, totals, figures, wrapped>>

\* The line to sign on and the footer of the last page.
DrawSignature ==
  LET breaks == y + 75 > 730
      top    == IF breaks THEN 100 + 24 ELSE y + 24
      on     == IF breaks THEN page + 1 ELSE page
      end    == <<Mark("signature", on, top, 19, 0), Mark("footer", on, FooterTop, 16, on)>>
  IN  /\ pc = "notes"
      /\ pending.lines = 0
      /\ pending.paragraphs < 3
      /\ IF breaks THEN TurnPage(end) ELSE Draw(end)
      /\ page' = on
      /\ y' = top
      /\ pc' = "done"
      /\ UNCHANGED <<concepts, totals, figures, wrapped, pending>>

\* Any call of the PDF library but those of the footer may fail; the document is dropped.
Fail ==
  /\ pc \in {"information", "rows", "notes"}
  /\ pc' = "failed"
  /\ UNCHANGED <<concepts, totals, figures, page, y, drawn, wrapped, pending>>

NoFigures == Figures(0, 0, 0)

Init ==
  /\ pc = "price"
  /\ concepts = <<>>
  /\ totals = [cost |-> 0, price |-> 0]
  /\ figures = NoFigures
  /\ page = 0 /\ y = 0
  /\ drawn = <<>>
  /\ wrapped = [text |-> << <<>> >>, lines |-> << <<>> >>]
  /\ pending = [lines |-> 0, paragraphs |-> 3]

Next ==
  \/ \E item \in Items : AddConcept(item)
  \/ Create
  \/ \E option \in Options : GeneratePDF(option)
  \/ \E customer \in CustomerTexts, payment \in PaymentTexts :
       DrawInformation(customer, payment)
  \/ DrawRow
  \/ DrawTotals
  \/ \E text \in NoteTexts : BeginParagraph(text)
  \/ DrawNoteLine
  \/ DrawSignature
  \/ Fail

Spec == Init /\ [][Next]_vars
-----------------------------------------------------------------------------
(* Properties.                                                                *)

Stored == pc \notin {"price", "refused"}

\* The four parts of a price, over item.unit cents.
ExactPrice(item) ==
  item.material + item.sale + item.electricity + item.preparation * item.unit

\* The price that is stored for a concept is within three half cents of the exact
\* one (three of its parts are rounded), and its price per piece times the
\* pieces within half a cent a piece of it; the exception is a concept whose
\* electricity alone does not fit in int64, which moneyFromRat cuts in silence
\* and which may come out small and positive (service/quotes.go:356-366, 430-447).
PriceIsExact ==
  Stored => \A i \in DOMAIN concepts :
    LET c == concepts[i]
    IN  c.item.electricity < c.item.unit * HalfRange =>
          /\ 2 * Magnitude(c.price * c.item.unit - ExactPrice(c.item)) <= 3 * c.item.unit
          /\ 2 * Magnitude(c.perPiece * c.item.pieces - c.price) <= c.item.pieces

\* The totals of a stored quote are the sums of what its concepts store: no addition
\* has left int64, whatever the concepts are (Create, service/quotes.go:153-158).
QuoteAddsUp ==
  Stored =>
    /\ totals.cost  = Total([i \in DOMAIN concepts |-> concepts[i].cost])
    /\ totals.price = Total([i \in DOMAIN concepts |-> concepts[i].price])

\* What the PDF prints adds up: the subtotal is the total of the quote, and discount, tax
\* and TOTAL agree with it and with what the notes say, "el descuento se resta del
\* subtotal antes de calcular el IVA" (document/quote_pdf.go:382, service/quotes.go:244-252).
FiguresAddUp == page > 0 => figures.subtotal = totals.price /\ Agree(figures)

\* It reaches over the footer.
Spills(m) == m.what # "footer" /\ m.bottom > FooterTop

\* Nothing is drawn over something else, and going down the pages is going on in the code;
\* only what reaches over the footer has the footer on it.
NothingOverlaps ==
  \A i \in 2..Len(drawn) :
    LET a == drawn[i - 1] b == drawn[i]
    IN  /\ a.page <= b.page
        /\ a.page = b.page => a.bottom <= b.top \/ (Spills(a) /\ b.what = "footer")

\* Every page that has been left, and the last one at the end, has its footer, once and
\* with its number.
FootersClosePages ==
  LET footers == Only("footer", drawn)
  IN  /\ Len(footers) = (IF pc = "done" \/ page = 0 THEN page ELSE page - 1)
      /\ \A p \in DOMAIN footers : footers[p].page = p /\ footers[p].n = p

\* Rows are drawn in the order of the concepts, none twice and at the end none missing;
\* rows and notes stand under a heading of theirs on each page they reach.
UnderTheirHeading ==
  /\ LET rows == Only("row", drawn)
     IN  /\ \A n \in DOMAIN rows : rows[n].n = n
         /\ pc \in {"notes", "done"} => Len(rows) = Len(concepts)
  /\ \A i \in DOMAIN drawn :
       /\ drawn[i].what = "row" =>
            drawn[i - 1].what \in {"table", "row"} /\ drawn[i - 1].page = drawn[i].page
       /\ drawn[i].what = "note" =>
            drawn[i - 1].what \in {"notes", "note"} /\ drawn[i - 1].page = drawn[i].page

\* The pages read from top to bottom as the code draws them (render and drawNotes,
\* document/quote_pdf.go:61-128, 376-420): nothing overlaps, each page has its footer although
\* five places draw it, rows come in order and all of them, and rows and notes under a heading.
ReadingOrder == NothingOverlaps /\ FootersClosePages /\ UnderTheirHeading

\* Nothing reaches over the footer but what no page has room for: a row that is alone under
\* the header of a page, and an information block (with the heading that follows it) that
\* fills the first page by itself.
OnlyOversizedSpills ==
  \A i \in DOMAIN drawn : Spills(drawn[i]) =>
    \/ drawn[i].what = "row" /\ drawn[i - 1].what = "table" /\ drawn[i].page > 1
    \/ /\ drawn[i].what \in {"information", "title", "table"}
       /\ drawn[i].page = 1
       /\ drawn[2].bottom + 28 + 24 + 28 > FooterTop

\* The line of the parts from i to j - 1, and whether they may be on one: it fits, and a
\* part that continues a word starts a line.
LineOf(parts, i, j) == [k \in 1..(j - i) |-> parts[i + k - 1].size]
OneLine(parts, i, j) ==
  /\ Measured(LineOf(parts, i, j)) <= Columns
  /\ \A k \in (i + 1)..(j - 1) : ~parts[k].more

\* The least number of lines for a paragraph; fewest[i] is that for its parts from i on.
FewestLines(parts) ==
  LET fewest[i \in 1..(Len(parts) + 1)] ==
        IF i > Len(parts) THEN 0
        ELSE Min({1 + fewest[j] :
                    j \in {j \in (i + 1)..(Len(parts) + 1) : OneLine(parts, i, j)}})
  IN  IF parts = <<>> THEN 1 ELSE fewest[1]

\* The lines of a wrapped text are its words in order, no line is wider than the column
\* and no wrapping has fewer lines, by the widths that wrap measures (wrap and splitWord, document/quote_pdf.go:456-533).
WrapsTightly ==
  LET parts == [i \in DOMAIN wrapped.text |-> Parts(wrapped.text[i])]
  IN  /\ FlattenSeq(wrapped.lines) =
           FlattenSeq([i \in DOMAIN parts |-> [j \in DOMAIN parts[i] |-> parts[i][j].size]])
      /\ \A i \in DOMAIN wrapped.lines : Measured(wrapped.lines[i]) <= Columns
      /\ Len(wrapped.lines) = Total([i \in DOMAIN parts |-> FewestLines(parts[i])])
=============================================================================
