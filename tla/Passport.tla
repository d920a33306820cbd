------------------------------ MODULE Passport ------------------------------
(***************************************************************************)
(* One image on its way through the OCR clients of pkg/ocr, the parser and *)
(* the normalisation, as the simple orchestrator of                        *)
(* services/orchestrator/internal/service/orchestrator.go runs it: the     *)
(* primary client and, after an error that may be retried, the VK client.  *)
(*                                                                         *)
(* A client asks a service over HTTP. Yandex v2 asks up to twice: for the  *)
(* entities of the passport model and, when they are not complete, for the *)
(* text of the page. Yandex v1 answers blocks with a position, VK blocks   *)
(* in reading order. The confidence of a field is left out, and so is      *)
(* issued_by's wording: it is the set of lines it is put together from, or *)
(* {0} for an entity.                                                      *)
(***************************************************************************)
EXTENDS PassportText, Functions

CONSTANTS
  Primaries,  \* the clients the primary can be: "v2", "page" (v2 with a model
              \* that is not structured) and "v1"
  Answers,    \* the ways in which a call fails
  Pages,      \* the texts a page can have, line by line
  Shuffled,   \* the pages whose blocks come in any order from Yandex v1
  Entities,   \* the answers of the passport model
  Unclear     \* a word with other than four or six digits

VARIABLES
  pc,        \* the step that is next
  client,    \* the client that is asked
  provider,  \* "primary" or "fallback"
  page,      \* the page as it is printed
  lines,     \* the lines as the parser gets them
  source,    \* where the fields come from: "structured" or "text"
  fields,    \* the fields of ocr.Result
  err,       \* the type of the error of the last call, None if it had none
  response   \* the normalised fields

vars == <<pc, client, provider, page, lines, source, fields, err, response>>

Failures == {"no_answer", "unread", "5xx", "401", "403", "429", "4xx", "garbled"}

ASSUME ConfigurationIsLegal ==
  /\ Primaries \subseteq {"v2", "page", "v1"}
  /\ Answers \subseteq Failures
  /\ Pages \subseteq Seq(Lines) /\ Shuffled \subseteq Pages
  /\ \A text \in Pages : \A i \in DOMAIN text : YearsAreOfDates(text[i])
  /\ Unclear \notin DocumentNumbers /\ Unclear # None
  /\ None \notin {"structured", "text"}

(* The model's answer: ten says whether the number of the document has ten *)
(* characters, issued whether there is an authority.                       *)
ASSUME EntitiesAreAnswers ==
  \A entity \in Entities :
    /\ {entity.last, entity.first, entity.middle} \subseteq Names \union {None}
    /\ \A date \in {entity.birth, entity.issue} : date \in Dates \/ date = None
    /\ entity.series \in SeriesNumbers \/ entity.series \in {None, Unclear}
    /\ entity.number \in DocumentNumbers \/ entity.number \in {None, Unclear}
    /\ entity.code \in Codes \union {None}
    /\ entity.ten \in BOOLEAN /\ entity.issued \in BOOLEAN

(* The type of the error a client makes of a failed call.                  *)
ErrorType(answer) ==
  CASE answer \in {"no_answer", "unread"} -> "network"
    [] answer = "5xx"                     -> "api"
    [] answer \in {"401", "403"}          -> "auth"
    [] answer = "429"                     -> "rate_limit"
    [] answer = "4xx"                     -> "invalid"
    [] answer = "garbled"                 -> "unknown"

IsRetryable(error) == error \in {"network", "api", "rate_limit"}

NoFields == [last |-> None, first |-> None, middle |-> None, birth |-> None, issue |-> None,
             series |-> None, number |-> None, code |-> None, issuedBy |-> {}]

(* The entities as fields: ten characters are the series and the number.   *)
ExtractStructured(entity) ==
  [last |-> entity.last, first |-> entity.first, middle |-> entity.middle,
   birth |-> entity.birth, issue |-> entity.issue, code |-> entity.code,
   series |-> IF entity.ten THEN entity.series ELSE None,
   number |-> entity.number,
   issuedBy |-> IF entity.issued THEN {0} ELSE {}]

HasRequiredFields(f) ==
  /\ f.last # None /\ f.first # None /\ f.birth # None /\ f.issue # None
  /\ f.series # None /\ f.number # None
  /\ f.middle # None \/ f.code # None \/ f.issuedBy # {}

(* One step of sortBlocksByY.                                              *)
Exchanged(blocks, i, j) ==
  IF blocks[j].top < blocks[i].top
    THEN [blocks EXCEPT ![i] = blocks[j], ![j] = blocks[i]] ELSE blocks

(* The inner loop: what stands on place i is compared with all after it.   *)
Pass(blocks, i) ==
  LET after[j \in i .. Len(blocks)] ==
        IF j = i THEN blocks ELSE Exchanged(after[j - 1], i, j)
  IN  after[Len(blocks)]

SortBlocksByY(blocks) ==
  LET sorted[i \in 0 .. Len(blocks)] ==
        IF i = 0 THEN blocks ELSE Pass(sorted[i - 1], i)
  IN  sorted[Len(blocks)]

(* The orders in which the blocks of the text come.                        *)
Orders(text) ==
  IF text \in Shuffled THEN Bijection(DOMAIN text, DOMAIN text)
  ELSE {[i \in DOMAIN text |-> i]}

-----------------------------------------------------------------------------
Init ==
  /\ pc = "call"
  /\ client \in Primaries
  /\ provider = "primary"
  /\ page = <<>> /\ lines = <<>>
  /\ source = None
  /\ fields = NoFields /\ response = NoFields
  /\ err = None

Fails(answer) ==
  /\ pc' = "failed"
  /\ err' = ErrorType(answer)
  /\ UNCHANGED <<client, provider, page, lines, source, fields, response>>

(* The text goes to the parser; a text without a line has no fields.       *)
Parse(text, read) ==
  /\ page' = text
  /\ lines' = read
  /\ source' = "text"
  /\ pc' = "names"
  /\ UNCHANGED <<client, provider, fields, err, response>>

(* Yandex v2, the passport model: its entities are taken if they are       *)
(* complete. Anything else, an error too, leads to the second question.    *)
AskStructured ==
  /\ pc = "call" /\ client = "v2"
  /\ \/ \E entity \in Entities :
          /\ HasRequiredFields(ExtractStructured(entity))
          /\ fields' = ExtractStructured(entity)
          /\ source' = "structured"
          /\ pc' = "normalise"
     \/ /\ Answers # {} \/ \E entity \in Entities : ~HasRequiredFields(ExtractStructured(entity))
        /\ pc' = "page"
        /\ UNCHANGED <<source, fields>>
  /\ UNCHANGED <<client, provider, page, lines, err, response>>

(* Yandex v2, the page model, and the parser over its lines.               *)
AskPage ==
  /\ pc = "page" \/ (pc = "call" /\ client = "page")
  /\ \/ \E answer \in Answers : Fails(answer)
     \/ \E text \in Pages : Parse(text, text)

(* Yandex v1: the blocks from the top down, a line of text each.           *)
AskYandex ==
  /\ pc = "call" /\ client = "v1"
  /\ \/ \E answer \in Answers : Fails(answer)
     \/ \E text \in Pages : \E order \in Orders(text) :
          LET sorted == SortBlocksByY([k \in DOMAIN text |->
                          [line |-> text[order[k]], top |-> order[k]]])
          IN  Parse(text, [k \in DOMAIN text |-> sorted[k].line])

(* VK: the blocks as they come; an answer with an error in it is a page    *)
(* without lines.                                                          *)
AskVK ==
  /\ pc = "call" /\ client = "vk"
  /\ \/ \E answer \in Answers : Fails(answer)
     \/ \E text \in Pages : Parse(text, text)

ReadNames ==
  /\ pc = "names"
  /\ LET names == NamesRead(lines)
     IN  fields' = [NoFields EXCEPT !.last = names.last, !.first = names.first,
                                    !.middle = names.middle]
  /\ pc' = "numbers"
  /\ UNCHANGED <<client, provider, page, lines, source, err, response>>

ReadNumbers ==
  /\ pc = "numbers"
  /\ LET numbers == NumbersRead(lines)
     IN  fields' = [fields EXCEPT !.series = numbers.series, !.number = numbers.number]
  /\ pc' = "dates"
  /\ UNCHANGED <<client, provider, page, lines, source, err, response>>

ReadDates ==
  /\ pc = "dates"
  /\ LET dates == DatesRead(lines)
     IN  fields' = [fields EXCEPT !.birth = dates.birth, !.issue = dates.issue]
  /\ pc' = "code"
  /\ UNCHANGED <<client, provider, page, lines, source, err, response>>

ReadCode ==
  /\ pc = "code"
  /\ fields' = [fields EXCEPT !.code = CodeRead(lines, fields.issue),
                              !.issuedBy = IssuedByRead(lines)]
  /\ pc' = "normalise"
  /\ UNCHANGED <<client, provider, page, lines, source, err, response>>

Normalise ==
  /\ pc = "normalise"
  /\ response' = NormalPassport(fields)
  /\ pc' = "done"
  /\ UNCHANGED <<client, provider, page, lines, source, fields, err>>

(* After an error of the primary that may be retried VK is asked.          *)
FallBack ==
  /\ pc = "failed" /\ provider = "primary" /\ IsRetryable(err)
  /\ client' = "vk" /\ provider' = "fallback"
  /\ pc' = "call"
  /\ err' = None
  /\ UNCHANGED <<page, lines, source, fields, response>>

(* The error of the last call is what the request ends with.               *)
GiveUp ==
  /\ pc = "failed"
  /\ provider = "fallback" \/ ~IsRetryable(err)
  /\ pc' = "error"
  /\ UNCHANGED <<client, provider, page, lines, source, fields, err, response>>

Next ==
  \/ AskStructured \/ AskPage \/ AskYandex \/ AskVK
  \/ ReadNames \/ ReadNumbers \/ ReadDates \/ ReadCode
  \/ Normalise \/ FallBack \/ GiveUp

Spec == Init /\ [][Next]_vars

-----------------------------------------------------------------------------
(* Properties.                                                             *)

FieldsTyped(f) ==
  /\ {f.last, f.first, f.middle} \subseteq Names \union {None}
  /\ \A date \in {f.birth, f.issue} : date \in Dates \/ date = None
  /\ f.series \in SeriesNumbers \/ f.series \in {None, Unclear}
  /\ f.number \in DocumentNumbers \/ f.number \in {None, Unclear}
  /\ f.code \in Codes \union {None}
  /\ f.issuedBy \subseteq Nat

(* Every variable has its type: no step of the parser or the normalisation *)
(* puts a value of one field into another.                                 *)
TypeOK ==
  /\ pc \in {"call", "page", "names", "numbers", "dates", "code", "normalise", "failed",
             "done", "error"}
  /\ client \in Primaries \union {"vk"}
  /\ provider \in {"primary", "fallback"}
  /\ page \in Seq(Lines) /\ lines \in Seq(Lines)
  /\ source \in {None, "structured", "text"}
  /\ DOMAIN fields = DOMAIN NoFields /\ DOMAIN response = DOMAIN NoFields
  /\ FieldsTyped(fields) /\ FieldsTyped(response)
  /\ err \in {None, "network", "api", "auth", "rate_limit", "invalid", "unknown"}

Parsed == pc = "done" /\ source = "text"

(* A page with each label once, each under its value.                      *)
Standard(text) ==
  /\ \A label \in Labels : Cardinality({i \in DOMAIN text : label \in text[i].words}) = 1
  /\ \A i \in DOMAIN text : text[i].words \intersect Labels # {} =>
       /\ Cardinality(text[i].words \intersect Labels) = 1
       /\ i > 1 /\ text[i - 1].name # None

ValueOf(text, label) ==
  text[(CHOOSE i \in DOMAIN text : label \in text[i].words) - 1].name

(* A page on which every value of the name is printed above its label, as  *)
(* in a passport, is read right, in whatever order the three come, with    *)
(* other lines between them, and in whatever order Yandex v1 answers the   *)
(* blocks.                                                                 *)
StandardPageRead ==
  Parsed /\ Standard(page) =>
    /\ response.last = ValueOf(page, Surname)
    /\ response.first = ValueOf(page, FirstName)
    /\ response.middle = ValueOf(page, Patronymic)

Unlabelled(text) == \A i \in DOMAIN text : text[i].words \intersect Labels = {}

(* On a page of at most seven lines without labels, three names are the    *)
(* last, the first and the middle name, and of two names the one that is a *)
(* common first name, if only one is, is the first.                        *)
UnlabelledNamesRead ==
  LET names == NamesBetween(page, 1, Len(page))
  IN  Parsed /\ Unlabelled(page) /\ Len(page) <= 7 =>
        /\ Len(names) = 3 => <<response.last, response.first, response.middle>> = names
        /\ \A k \in {1, 2} :
             Len(names) = 2 /\ names[k] \in CommonFirstNames
               /\ names[3 - k] \notin CommonFirstNames
               => response.first = names[k] /\ response.last = names[3 - k]

(* When some line has four digits right before six and does not begin      *)
(* with a place where they look like a day of a year, the series and the   *)
(* number of the response stand side by side on one such line. What is     *)
(* printed elsewhere, a word of four digits, a year or another number, is  *)
(* not put together with half of a pair; a year or the end of a number is  *)
(* taken for the series only where six digits stand right after it.        *)
PairStaysTogether ==
  LET first(i, k) == k \in Beside(page[i]) /\ \A j \in Beside(page[i]) : k <= j
      kept == {i \in DOMAIN page : \E k \in DOMAIN page[i].digits :
                 first(i, k) /\ LastFour(page[i].digits[k].n) \notin DayLike}
  IN  Parsed /\ kept # {} =>
        \E i \in kept : \E k \in Beside(page[i]) :
          /\ response.series = LastFour(page[i].digits[k].n)
          /\ response.number = page[i].digits[k + 1].n

(* Of the two dates of a response parsed from text that of birth is not    *)
(* the later one, whatever words are printed near them.                    *)
DatesInOrder ==
  Parsed /\ response.birth # None /\ response.issue # None
    => Moment(response.birth) <= Moment(response.issue)

(* Two different dates on lines of their own both come into the response,  *)
(* the earlier one as the date of birth, whatever words are near them.     *)
TwoDatesFound ==
  LET dated == {i \in DOMAIN page : page[i].dates # <<>>}
      date(i) == page[i].dates[1]
  IN  Parsed => \A i, j \in dated :
        /\ dated = {i, j} /\ \A k \in dated : Len(page[k].dates) = 1
        /\ \A k \in dated : YearAccepted(date(k)) /\ OnCalendar(date(k))
        /\ Moment(date(i)) < Moment(date(j))
        => response.birth = date(i) /\ response.issue = date(j)
=============================================================================
