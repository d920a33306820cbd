---------------------------- MODULE PassportText ----------------------------
(***************************************************************************)
(* How the text of a page becomes the fields of a passport: the parser     *)
(* ExtractPassportFields of pkg/ocr/parser.go and the normalisation of     *)
(* pkg/normalizer/passport.go, as operators.                               *)
(*                                                                         *)
(* A line of the page is what the parser's regular expressions and keyword *)
(* searches see of it:                                                     *)
(*   name    the word a line consists of when isName accepts it, or None;  *)
(*           spellings that differ in case are one name                    *)
(*   words   the keywords in it, among Keywords                            *)
(*   dates   the dates in it, from left to right                           *)
(*   digits  what is printed in digits, from left to right, with nothing   *)
(*           but blanks between neighbours: the year of a date, a word of  *)
(*           four digits, four digits in two words (split), a word of six, *)
(*           or whatever else keeps its neighbours apart (other)           *)
(*   code    a division code ddd-ddd, or None                              *)
(* Words of five, or of more than six, digits are left out.                *)
(* Only such lines are on a page: a blank line is dropped (79-88).         *)
(***************************************************************************)
EXTENDS Integers, Sequences, FiniteSetsExt

CONSTANTS
  Names,             \* the words that can be a part of a name
  CommonFirstNames,  \* those of them in the parser's table of first names
  Codes,             \* division codes
  None               \* an empty value

ASSUME NamesAreNotEmpty ==
  /\ CommonFirstNames \subseteq Names
  /\ None \notin Names
  /\ None \notin Codes

Surname == "FAMILIYA"
FirstName == "IMYA"
Patronymic == "OTCHESTVO"
Labels == {Surname, FirstName, Patronymic}
Keywords == Labels \union {"ROZHDENIYA", "VYDAN", "PASPORT", "KOD", "OTDEL"}

(* The numbers of up to four and of up to six digits.                      *)
SeriesNumbers == 0 .. 9999
DocumentNumbers == 0 .. 10^6 - 1

(* A printed date: two digits, two digits, and up to four of the year.     *)
Dates == [d : 0 .. 99, m : 0 .. 99, y : SeriesNumbers]

ASSUME NoneIsNoValue ==
  None \notin SeriesNumbers /\ None \notin DocumentNumbers /\ None \notin Dates

Numerals == [is : {"year", "four", "split"}, n : SeriesNumbers]
            \union [is : {"six"}, n : DocumentNumbers] \union [is : {"other"}, n : {0}]

Lines == [name : Names \union {None}, words : SUBSET Keywords, dates : Seq(Dates),
          digits : Seq(Numerals), code : Codes \union {None}]

(* The years among the digits are those of the dates.                      *)
YearsAreOfDates(line) ==
  SelectSeq(line.digits, LAMBDA word : word.is = "year")
    = [k \in DOMAIN line.dates |-> [is |-> "year", n |-> line.dates[k].y]]

-----------------------------------------------------------------------------
(* Dates: isValidDate and time.Parse.                                      *)
DaysIn(m, y) ==
  IF m = 2 THEN IF y % 4 = 0 /\ (y % 100 # 0 \/ y % 400 = 0) THEN 29 ELSE 28
  ELSE IF m \in {4, 6, 9, 11} THEN 30 ELSE 31

OnCalendar(date) == date.m \in 1 .. 12 /\ date.d \in 1 .. DaysIn(date.m, date.y)

YearAccepted(date) == date.y \in 1500 .. 2100

(* time.Parse: the moment, the zero time where the text is not a date.     *)
Moment(date) ==
  IF OnCalendar(date) THEN date.y * 10000 + date.m * 100 + date.d ELSE 0

-----------------------------------------------------------------------------
(* Names by their labels.                                                  *)
NameAbove(lines, i, dist) ==
  LET near == {j \in 1 .. i - 1 : i - j <= dist /\ lines[j].name # None}
  IN  IF near = {} THEN None ELSE lines[Max(near)].name

NameBelow(lines, i, dist) ==
  LET near == {j \in i + 1 .. Len(lines) : j - i <= dist /\ lines[j].name # None}
  IN  IF near = {} THEN None ELSE lines[Min(near)].name

(* MUTANT: the value is looked for below its label first. *)
NameBelowFirst(lines, i, dist) ==
  IF NameBelow(lines, i, 3) = None THEN NameAbove(lines, i, dist) ELSE NameBelow(lines, i, 3)

(* The value of the label on line i: above it, or else below it.           *)
NameBeside(lines, i, dist) ==
  IF NameAbove(lines, i, dist) = None THEN NameBelow(lines, i, 3) ELSE NameAbove(lines, i, dist)

(* The first name's label: a line that names the patronymic too is not one. *)
LabelOf(field, line) ==
  CASE field = "last"   -> Surname \in line.words
    [] field = "first"  -> FirstName \in line.words /\ Patronymic \notin line.words
    [] field = "middle" -> Patronymic \in line.words

(* A later label overwrites what an earlier one found.                     *)
ByLabel(lines, field, dist) ==
  LET found == {i \in DOMAIN lines : /\ LabelOf(field, lines[i])
                                     /\ NameBeside(lines, i, dist) # None}
  IN  IF found = {} THEN None ELSE NameBeside(lines, Max(found), dist)

Labelled(lines) ==
  [last |-> ByLabel(lines, "last", 5), first |-> ByLabel(lines, "first", 5),
   middle |-> ByLabel(lines, "middle", 3)]

(* The lines with names from line i to line j.                            *)
Named(lines, i, j) == {n \in DOMAIN lines : i <= n /\ n <= j /\ lines[n].name # None}

(* The names on these lines, in their order.                               *)
NamesOn(lines, at) ==
  [k \in 1 .. Cardinality(at) |->
     lines[CHOOSE n \in at : Cardinality({m \in at : m <= n}) = k].name]

NamesBetween(lines, i, j) == NamesOn(lines, Named(lines, i, j))

(* The part that the labels gave is completed, but for the last name, from *)
(* the names no field has.                                                 *)
Supplemented(lines, f) ==
  LET used == {f.last, f.first, f.middle} \ {None}
      spare == NamesOn(lines, {n \in Named(lines, 1, Len(lines)) : lines[n].name \notin used})
      takesFirst == f.first = None /\ spare # <<>>
      rest == IF takesFirst THEN Tail(spare) ELSE spare
  IN  IF used = {} THEN f
      ELSE [last   |-> f.last,
            first  |-> IF takesFirst THEN Head(spare) ELSE f.first,
            middle |-> IF f.middle = None /\ rest # <<>> THEN Head(rest) ELSE f.middle]

(* MUTANT: a common first name in the second place is taken for the last name. *)
SecondFirst(a, b) ==
  IF b \in CommonFirstNames /\ a \notin CommonFirstNames THEN <<b, a>> ELSE <<a, b>>

(* detectNameOrder: <<last name, first name>>.                             *)
NameOrder(a, b) ==
  IF a \in CommonFirstNames /\ b \notin CommonFirstNames THEN <<b, a>> ELSE <<a, b>>

(* Without a last name: three names within nine lines.                     *)
ThreeInARow(lines, f) ==
  LET starts == {i \in 1 .. Len(lines) - 2 : Len(NamesBetween(lines, i, i + 8)) >= 3}
      names == NamesBetween(lines, Min(starts), Min(starts) + 8)
  IN  IF f.last # None \/ starts = {} THEN f
      ELSE [last |-> names[1], first |-> names[2], middle |-> names[3]]

(* Still without one: two names within seven lines.                        *)
TwoInARow(lines, f) ==
  LET starts == {i \in 1 .. Len(lines) - 1 : Len(NamesBetween(lines, i, i + 6)) >= 2}
      names == NamesBetween(lines, Min(starts), Min(starts) + 6)
      order == NameOrder(names[1], names[2])
  IN  IF f.last # None \/ starts = {} THEN f
      ELSE [f EXCEPT !.last = order[1], !.first = order[2]]

NamesRead(lines) ==
  TwoInARow(lines, ThreeInARow(lines, Supplemented(lines, Labelled(lines))))

-----------------------------------------------------------------------------
(* The first of these kinds of words on a line.                            *)
FirstOf(line, kinds) ==
  LET at == {k \in DOMAIN line.digits : line.digits[k].is \in kinds}
  IN  IF at = {} THEN None ELSE line.digits[Min(at)].n

(* MUTANT: the four digits need not be a word of their own. *)
AnyDigits(line) == FirstOf(line, {"year", "four", "six"})

(* The first word of four digits of a line: a date's year is one.          *)
FourDigits(line) == FirstOf(line, {"year", "four"})

SixDigits(line) == FirstOf(line, {"six"})

(* The places of a line with four digits right before six. They need not   *)
(* be a word: a year, or the end of another number, stands there too.      *)
Beside(line) ==
  {k \in DOMAIN line.digits : /\ k + 1 \in DOMAIN line.digits
                              /\ line.digits[k].is # "other"
                              /\ line.digits[k + 1].is = "six"}

LastFour(n) == n % 10000

PairAt(line, k) == [series |-> LastFour(line.digits[k].n), number |-> line.digits[k + 1].n]

(* Series that look like a day of a year.                                  *)
DayLike == {101, 3112, 3005, 1601}

(* MUTANT: the loop over single lines does not look whether the pair was found. *)
AnySingle(lines, pair) ==
  LET four == {i \in DOMAIN lines : FourDigits(lines[i]) \notin {None, 101, 3112}}
  IN  [series |-> IF four = {} THEN pair.series ELSE FourDigits(lines[Min(four)]),
       number |-> pair.number]

(* The lines whose first place with both is not dropped for its series.    *)
WithPair(lines) ==
  {i \in DOMAIN lines : /\ Beside(lines[i]) # {}
                        /\ PairAt(lines[i], Min(Beside(lines[i]))).series \notin DayLike}

(* The first place of the first such line.                                 *)
Paired(lines) ==
  LET i == Min(WithPair(lines))
  IN  IF WithPair(lines) = {} THEN [series |-> None, number |-> None]
      ELSE PairAt(lines[i], Min(Beside(lines[i])))

(* What the pair did not give is taken from single lines.                  *)
Singled(lines, pair) ==
  LET four == {i \in DOMAIN lines : FourDigits(lines[i]) \notin {None, 101, 3112}}
      six  == {i \in DOMAIN lines : SixDigits(lines[i]) # None}
  IN  [series |-> IF pair.series # None \/ four = {} THEN pair.series
                  ELSE FourDigits(lines[Min(four)]),
       number |-> IF pair.number # None \/ six = {} THEN pair.number
                  ELSE SixDigits(lines[Min(six)])]

NumbersRead(lines) == Singled(lines, Paired(lines))

-----------------------------------------------------------------------------
(* The keyword is on one of the two lines before or after line i.          *)
Around(lines, i, word) ==
  \E j \in DOMAIN lines : j # i /\ i - j \in -2 .. 2 /\ word \in lines[j].words

NearBirth(lines, i) ==
  "ROZHDENIYA" \in lines[i].words \/ Around(lines, i, "ROZHDENIYA")

NearIssue(lines, i) ==
  \/ "VYDAN" \in lines[i].words
  \/ Around(lines, i, "VYDAN")
  \/ Around(lines, i, "PASPORT")

(* The dates of the page that pass the test on the year: <<line, place>>.  *)
Printed(lines) ==
  UNION {{<<i, k>> : k \in {n \in DOMAIN lines[i].dates : YearAccepted(lines[i].dates[n])}} :
           i \in DOMAIN lines}

Earliest(places) ==
  CHOOSE p \in places : \A q \in places : p[1] < q[1] \/ (p[1] = q[1] /\ p[2] <= q[2])

(* The dates by what is printed near them: the first one near a word about *)
(* birth, and the first other one near a word about the issue.             *)
ByContext(lines) ==
  LET dateAt(p) == lines[p[1]].dates[p[2]]
      births == {p \in Printed(lines) : NearBirth(lines, p[1])}
      issues == {p \in Printed(lines) : /\ NearIssue(lines, p[1])
                                        /\ births # {} => p # Earliest(births)}
  IN  [birth |-> IF births = {} THEN None ELSE dateAt(Earliest(births)),
       issue |-> IF issues = {} THEN None ELSE dateAt(Earliest(issues))]

(* The lines whose first date has a year that passes.                      *)
Dated(lines) == {i \in DOMAIN lines : lines[i].dates # <<>> /\ YearAccepted(lines[i].dates[1])}

(* The first of their first dates that is not the given one.               *)
FirstDateBut(lines, date) ==
  LET others == {i \in Dated(lines) : lines[i].dates[1] # date}
  IN  IF others = {} THEN None ELSE lines[Min(others)].dates[1]

(* MUTANT: a missing date is the page's first date, even if that is the other one. *)
FirstDateOfAll(lines, f) ==
  [birth |-> IF f.birth # None THEN f.birth ELSE FirstDateBut(lines, None),
   issue |-> IF f.issue # None THEN f.issue ELSE FirstDateBut(lines, None)]

(* A date the context did not give is the first that is not the other one. *)
WithOtherDate(lines, f) ==
  LET issue == IF f.issue # None THEN f.issue ELSE FirstDateBut(lines, f.birth)
  IN  [birth |-> IF f.birth # None THEN f.birth ELSE FirstDateBut(lines, issue),
       issue |-> issue]

(* MUTANT: the dates stay as they were found. *)
AsFound(f) == f

(* Of two dates the date of birth is the earlier one.                      *)
BirthFirst(f) ==
  IF f.birth # None /\ f.issue # None /\ Moment(f.birth) > Moment(f.issue)
    THEN [birth |-> f.issue, issue |-> f.birth] ELSE f

DatesRead(lines) == BirthFirst(WithOtherDate(lines, ByContext(lines)))

-----------------------------------------------------------------------------
(* The first code at the word for it, or the first of all when the page    *)
(* has a date of issue.                                                    *)
CodeRead(lines, issue) ==
  LET taken == {i \in DOMAIN lines :
                  /\ lines[i].code # None
                  /\ issue # None \/ \E j \in DOMAIN lines : /\ i - j \in 0 .. 3
                                                             /\ "KOD" \in lines[j].words}
  IN  IF taken = {} THEN None ELSE lines[Min(taken)].code

(* The lines that name the authority, without those about something else.  *)
IssuedByRead(lines) ==
  {i \in DOMAIN lines :
     /\ "OTDEL" \in lines[i].words
     /\ lines[i].words \intersect (Labels \union {"ROZHDENIYA"}) = {}
     /\ lines[i].dates = <<>> /\ lines[i].code = None
     /\ Beside(lines[i]) = {}}

-----------------------------------------------------------------------------
(* Normalisation of the fields that go into the response.                  *)

(* A year of two digits is completed to one of 1951 .. 2050.               *)
FullYear(y) == IF y > 99 THEN y ELSE IF y > 50 THEN 1900 + y ELSE 2000 + y

NormalDate(date) ==
  LET full == [date EXCEPT !.y = FullYear(date.y)]
  IN  IF OnCalendar(full) /\ YearAccepted(full) THEN full ELSE None

(* A series of four digits, a number of six; anything else is dropped.     *)
NormalSeries(series) == IF series \in SeriesNumbers THEN series ELSE None
NormalNumber(number) == IF number \in DocumentNumbers THEN number ELSE None

NormalPassport(f) ==
  [f EXCEPT !.birth  = IF f.birth = None THEN None ELSE NormalDate(f.birth),
            !.issue  = IF f.issue = None THEN None ELSE NormalDate(f.issue),
            !.series = NormalSeries(f.series),
            !.number = NormalNumber(f.number)]
=============================================================================
