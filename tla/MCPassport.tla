----------------------------- MODULE MCPassport -----------------------------
(* A small instance of Passport for TLC. The pages are built from three    *)
(* vocabularies, one for each part of the text the parser reads by itself. *)
EXTENDS Passport, SequencesExt

CONSTANTS ivanov, ivan, ivanovich, c1

Blank == [name |-> None, words |-> {}, dates |-> <<>>, digits |-> <<>>, code |-> None]
Name(n) == [Blank EXCEPT !.name = n]
Word(ws) == [Blank EXCEPT !.words = ws]
Year(date) == [is |-> "year", n |-> date.y]
Date(ws, ds) == [Blank EXCEPT !.words = ws, !.dates = ds,
                              !.digits = [k \in DOMAIN ds |-> Year(ds[k])]]
Digits(words) == [Blank EXCEPT !.digits = words]
Four(n) == [is |-> "four", n |-> n]
Split(n) == [is |-> "split", n |-> n]
Six(n) == [is |-> "six", n |-> n]
Other == [is |-> "other", n |-> 0]

Born == [d |-> 29, m |-> 2, y |-> 1992]
Issued == [d |-> 1, m |-> 3, y |-> 2012]
NoDay == [d |-> 31, m |-> 4, y |-> 2000]
TooLate == [d |-> 1, m |-> 1, y |-> 2101]

NameLines == {Name(ivanov), Name(ivan), Name(ivanovich), Word({}), Word({Surname}),
              Word({FirstName}), Word({Patronymic}), Word({FirstName, Patronymic})}

NumberLines == {Digits(<<Four(4510), Six(123456)>>), Digits(<<Split(3005), Six(654321)>>),
                Digits(<<Split(4511), Six(0)>>), Digits(<<Six(111111), Other, Four(4512)>>),
                Digits(<<Four(101)>>), Digits(<<Six(777777), Six(888888)>>), Date({}, <<Born>>),
                [Date({}, <<Issued>>) EXCEPT !.digits = <<Year(Issued), Six(999999)>>]}

DateLines == {Date({}, <<Born>>), Date({"ROZHDENIYA"}, <<Issued>>), Date({}, <<Issued>>),
              Date({}, <<Issued, Born>>), Date({"VYDAN"}, <<NoDay>>), Date({}, <<TooLate>>),
              Word({"ROZHDENIYA"}), Word({"PASPORT"}), Word({"KOD"}),
              [Blank EXCEPT !.code = c1], Word({"OTDEL", "VYDAN"})}

Value == [l \in Labels |-> IF l = Surname THEN ivanov ELSE IF l = FirstName THEN ivan ELSE ivanovich]

(* The parts of a standard page in the order labels, line gap last.        *)
StandardPage(labels, gaps) ==
  FlattenSeq([k \in 1 .. 3 |-> (IF k \in gaps THEN <<Word({})>> ELSE <<>>)
                                 \o <<Name(Value[labels[k]]), Word({labels[k]})>>])

MCShuffled == {StandardPage(labels, {}) : labels \in SetToSeqs(Labels)}

MCPages ==
  BoundedSeq(NameLines, 5) \union BoundedSeq(NumberLines, 4) \union BoundedSeq(DateLines, 4)
  \union {StandardPage(labels, gaps) : labels \in SetToSeqs(Labels), gaps \in SUBSET (1 .. 3)}

Complete == [last |-> ivanov, first |-> ivan, middle |-> ivanovich, birth |-> Born,
             issue |-> Issued, ten |-> TRUE, series |-> 1104, number |-> 0,
             code |-> c1, issued |-> TRUE]

MCEntities == {Complete, [Complete EXCEPT !.middle = None, !.code = None, !.issued = FALSE],
               [Complete EXCEPT !.ten = FALSE, !.number = Unclear],
               [Complete EXCEPT !.series = Unclear, !.number = 12345, !.middle = None],
               [Complete EXCEPT !.birth = [Born EXCEPT !.y = 92], !.issue = NoDay]}
=============================================================================
