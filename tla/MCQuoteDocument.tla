-------------------------- MODULE MCQuoteDocument --------------------------
(* Instances of QuoteDocument for TLC.                                        *)
EXTENDS QuoteDocument

\* A text of n short paragraphs.
Tall(n) == [i \in 1..n |-> <<1>>]

\* Amounts in quarters of a cent, so that halves and quarters are rounded.  The
\* third concept's electricity fits, but not the sum; the fourth's is cut to 44 cents.
MCItems == {
  [material |-> 5, machine |-> 2, sale |-> 7, electricity |-> 3, preparation |-> 4,
   unit |-> 4, pieces |-> 3, text |-> << <<3, 1>> >>],
  [material |-> 2, machine |-> 41, sale |-> 82, electricity |-> 1, preparation |-> 0,
   unit |-> 4, pieces |-> 7, text |-> Tall(22)],
  [material |-> 40, machine |-> 0, sale |-> 8, electricity |-> 500, preparation |-> 1,
   unit |-> 4, pieces |-> 1, text |-> << <<3>> >>],
  [material |-> 0, machine |-> 4, sale |-> 6, electricity |-> 1200, preparation |-> 0,
   unit |-> 4, pieces |-> 5, text |-> Tall(60)]}

MCOptions == {[discount |-> 33, tax |-> 16], [discount |-> 75, tax |-> 100],
              [discount |-> 120, tax |-> 16]}

MCCustomerTexts == {<< <<3>>, <<2>> >>, Tall(48)}

\* Paragraphs of up to three words, some wider than the column.
Paragraphs == UNION {[1..n -> {1, 2, 3, 5, 9}] : n \in 0..3}

MCPaymentTexts == {<<p, <<2>>, <<2, 1>> >> : p \in Paragraphs}

MCNoteTexts == {Tall(1), Tall(21)}
=============================================================================
