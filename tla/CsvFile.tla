-------------------------------- MODULE CsvFile --------------------------------
(***************************************************************************)
(* One imported file, from the spreadsheet to the plan of payments: the    *)
(* app flattens the sheet to CSV text (xlsx.ts), the service parses it,    *)
(* normalises and resolves its rows, looks for duplicates and stores the   *)
(* records (csv-import.ts createJob over the SDK's csv/ modules), and the  *)
(* app takes periods and amounts back out of the plan (BulkImport.tsx).    *)
(* CsvImport takes over where the records are stored.                      *)
(*                                                                         *)
(* A text is a sequence of symbols: the characters that CSV gives a        *)
(* meaning, and words, which are any text without those.                   *)
(***************************************************************************)
EXTENDS Integers, Sequences, FiniteSets, SequencesExt

CONSTANTS
  Sheets,       \* [header: columns, rows: sequences of functions from columns to cells]
  Numeral,      \* word -> [whole, frac], for the words that are numbers
  Decimals,     \* QUSDC_DECIMALS
  Weekday,      \* word -> day, with and without "every"
  EveryN,       \* word -> [n, unit], for "every N days" and "every N weeks"
  OneDay, OneWeek,
  Resolves,     \* word -> the addresses it may resolve to while the file is read
  NoAddress,    \* the resolution failed
  MaxRows,      \* CSV_IMPORT_MAX_ROWS
  PaidBefore,   \* contentKeys of earlier jobs
  Receipted     \* <<address, amount>> of receipts that can be read

ASSUME FileAssumption == {OneDay, OneWeek, Decimals, MaxRows} \subseteq Nat

Column == {"type", "recipient", "amount", "memo", "schedule"}
Comma == ","
Quote == "\""
CR == "\r"
LF == "\n"
Blank == " "

VARIABLES
  sheet, fileSource, fileStage,
  text,      \* csvText
  rows,      \* RawCsvRow, by rowIndex (counted from 1)
  prepared,  \* PreparedRow of the rows looked at so far
  severity,  \* rowIndex -> duplicateSeverity
  records    \* PaymentIntentRecord, as stored

fileVars == <<sheet, fileSource, fileStage, text, rows, prepared, severity, records>>

FileInit ==
  /\ sheet \in Sheets
  /\ fileSource \in {"user", "autopilot"}
  /\ fileStage = "sheet"
  /\ text = << >> /\ rows = << >> /\ prepared = << >> /\ severity = << >> /\ records = << >>
-----------------------------------------------------------------------------
(* xlsxToCsv *)

Join(parts, sep) ==
  FlattenSeq([i \in DOMAIN parts |-> IF i = 1 THEN parts[i] ELSE <<sep>> \o parts[i]])

CsvEscape(cell) ==
  IF ToSet(cell) \cap {Quote, Comma, LF, CR} = {} THEN cell
  ELSE <<Quote>>
       \o FlattenSeq([i \in DOMAIN cell |-> IF cell[i] = Quote THEN <<Quote, Quote>> ELSE <<cell[i]>>])
       \o <<Quote>>

\* The grid of the worksheet: its header and its rows, in the header's order.
Grid(s) ==
  <<[c \in DOMAIN s.header |-> <<s.header[c]>>]>>
  \o [r \in DOMAIN s.rows |-> [c \in DOMAIN s.header |-> s.rows[r][s.header[c]]]]

XlsxToCsv(s) ==
  Join([r \in DOMAIN Grid(s) |->
          Join([c \in DOMAIN Grid(s)[r] |-> CsvEscape(Grid(s)[r][c])], Comma)], LF)

Upload ==
  /\ fileStage = "sheet"
  /\ text' = XlsxToCsv(sheet)
  /\ fileStage' = "text"
  /\ UNCHANGED <<sheet, fileSource, rows, prepared, severity, records>>
-----------------------------------------------------------------------------
(* parseCsvRecords, parseCsvRows *)

PushField(s) == [s EXCEPT !.record = Append(@, s.field), !.field = << >>]

PushRecord(s) ==
  [s EXCEPT !.all = Append(@, Append(s.record, s.field)), !.record = << >>, !.field = << >>]

Quoted(s, ch, next) ==
  IF ch # Quote THEN [s EXCEPT !.field = Append(@, ch)]
  ELSE IF next = Quote THEN [s EXCEPT !.field = Append(@, Quote), !.skip = TRUE]
  ELSE [s EXCEPT !.inQuotes = FALSE]

Unquoted(s, ch) ==
  CASE ch = Quote -> [s EXCEPT !.inQuotes = TRUE]
    [] ch = Comma -> PushField(s)
    [] ch = LF -> PushRecord(s)
    [] ch = CR -> s
    [] OTHER -> [s EXCEPT !.field = Append(@, ch)]

ParseCsvRecords(csv) ==
  LET Read(s, i) ==
        IF s.skip THEN [s EXCEPT !.skip = FALSE]
        ELSE IF s.inQuotes
        THEN Quoted(s, csv[i], IF i < Len(csv) THEN csv[i + 1] ELSE LF)
        ELSE Unquoted(s, csv[i])
      end == FoldLeft(Read,
               [field |-> << >>, record |-> << >>, all |-> << >>, inQuotes |-> FALSE, skip |-> FALSE],
               [i \in DOMAIN csv |-> i])
  IN IF end.field # << >> \/ end.record # << >> \/ (csv # << >> /\ end.all = << >>)
     THEN PushRecord(end).all ELSE end.all

White == {Blank, CR, LF}

Trim(cell) ==
  LET words == {i \in DOMAIN cell : cell[i] \notin White} IN
  IF words = {} THEN << >>
  ELSE SubSeq(cell, CHOOSE i \in words : \A j \in words : i <= j,
                    CHOOSE i \in words : \A j \in words : j <= i)

IsBlankRecord(cells) == \A i \in DOMAIN cells : Trim(cells[i]) = << >>

\* The columns by the names in the first record; a cell that is missing is empty.
ParseCsvRows(csv) ==
  LET all == ParseCsvRecords(csv)
      header == [i \in DOMAIN all[1] |-> Trim(all[1][i])]
      index(col) == {i \in DOMAIN header : header[i] = <<col>>}
      Cell(cells, col) ==
        IF index(col) = {} THEN << >>
        ELSE LET i == CHOOSE i \in index(col) : \A j \in index(col) : i <= j IN
             IF i \in DOMAIN cells THEN cells[i] ELSE << >>
      data == SelectSeq(Tail(all), LAMBDA cells : ~IsBlankRecord(cells))
  IN [error |-> \E col \in {"type", "recipient", "amount"} : index(col) = {},
      rows |-> [k \in DOMAIN data |-> [col \in Column |-> Cell(data[k], col)]]]

Parse ==
  /\ fileStage = "text"
  /\ LET parsed == ParseCsvRows(text) IN
     IF parsed.error \/ Len(parsed.rows) \notin 1..MaxRows
     THEN fileStage' = "refused" /\ UNCHANGED rows
     ELSE fileStage' = "resolving" /\ rows' = parsed.rows
  /\ UNCHANGED <<sheet, fileSource, text, prepared, severity, records>>
-----------------------------------------------------------------------------
(* normalizeRow *)

Pow10(n) == FoldLeft(LAMBDA acc, i : acc * 10, 1, [i \in 1..n |-> i])

\* parseQusdcAmount: the value in base units, 0 for an amount that is refused.
ParseQusdcAmount(cell) ==
  LET word == Trim(cell) IN
  IF Len(word) # 1 \/ (word # << >> /\ word[1] \notin DOMAIN Numeral) THEN 0
  ELSE LET n == Numeral[word[1]]
           frac == FoldLeft(LAMBDA acc, digit : 10 * acc + digit, 0, n.frac) IN
       IF Len(n.frac) > Decimals THEN 0
       ELSE n.whole * Pow10(Decimals) + frac * Pow10(Decimals - Len(n.frac))

\* normalizeMemo
NormalizeMemo(cell) ==
  FoldLeft(LAMBDA memo, ch :
             IF ch \notin White THEN Append(memo, ch)
             ELSE IF memo # << >> /\ memo[Len(memo)] = Blank THEN memo ELSE Append(memo, Blank),
           << >>, Trim(cell))

NoSchedule == <<"none", "", 0>>

\* parseSchedule: the period, and the canonical form that is stored for it.
ParseSchedule(cell) ==
  LET word == IF Len(Trim(cell)) = 1 THEN Trim(cell)[1] ELSE ""
      Spec(period, kind, form, n) == [period |-> period, canonical |-> <<kind, form, n>>] IN
  IF word \in DOMAIN Weekday THEN Spec(OneWeek, "weekly", "n", Weekday[word])
  ELSE IF word \in {"daily", "every day"} THEN Spec(OneDay, "daily", "", 0)
  ELSE IF word \in {"weekly", "every week"} THEN Spec(OneWeek, "weekly", "", 0)
  ELSE IF word \in {"monthly", "every month"} THEN Spec(30 * OneDay, "monthly", "", 0)
  ELSE IF word \in DOMAIN EveryN /\ EveryN[word].n >= 1
  THEN IF EveryN[word].unit = "day"
       THEN Spec(EveryN[word].n * OneDay, "daily", "n", EveryN[word].n)
       ELSE Spec(EveryN[word].n * OneWeek, "weekly", "every", EveryN[word].n)
  ELSE [period |-> 0, canonical |-> NoSchedule]

\* Only a subscription has a schedule, and it must have one.
NormalizeRow(raw) ==
  LET type == Trim(raw["type"])
      schedule == ParseSchedule(raw["schedule"]) IN
  [ok |-> /\ type \in {<<"pay">>, <<"request">>, <<"subscription">>}
          /\ Trim(raw["recipient"]) # << >>
          /\ ParseQusdcAmount(raw["amount"]) > 0
          /\ IF type = <<"subscription">> THEN schedule.canonical # NoSchedule
             ELSE Trim(raw["schedule"]) = << >>,
   type |-> type,
   recipient |-> Trim(raw["recipient"]),
   amount |-> ParseQusdcAmount(raw["amount"]),
   memo |-> NormalizeMemo(raw["memo"]),
   schedule |-> schedule.canonical,
   to |-> NoAddress]

\* The next row is normalised and its recipient resolved, one await after the
\* other, so a name may change its address between two rows.
ResolveRow ==
  /\ fileStage = "resolving"
  /\ Len(prepared) < Len(rows)
  /\ LET row == NormalizeRow(rows[Len(prepared) + 1]) IN
     IF ~row.ok THEN prepared' = Append(prepared, row)
     ELSE \E to \in Resolves[row.recipient[1]] : prepared' = Append(prepared, [row EXCEPT !.to = to])
  /\ UNCHANGED <<sheet, fileSource, fileStage, text, rows, severity, records>>
-----------------------------------------------------------------------------
(* detectDuplicates *)

\* computeContentKey, which does not name the type of the row.
ContentKey(row) == <<row.to, row.amount, row.memo, row.schedule>>

DedupeRows == {i \in DOMAIN prepared : prepared[i].to # NoAddress}

SeverityForType(type) == IF type = <<"request">> THEN "warn" ELSE "block"

\* Mutant: rows are grouped by what was written, not by whom it names.
SameRecipientAmountAsWritten(i) ==
  {j \in DedupeRows :
     /\ prepared[j].recipient = prepared[i].recipient
     /\ prepared[j].amount = prepared[i].amount
     /\ prepared[j].type = prepared[i].type}

SameRecipientAmount(i) ==
  {j \in DedupeRows :
     /\ prepared[j].to = prepared[i].to
     /\ prepared[j].amount = prepared[i].amount
     /\ prepared[j].type = prepared[i].type}

\* The checks that carry the severity of the row's type: the same content in
\* the file, the same recipient and amount with other content, the history.
Repeats(i, history) ==
  \/ \E j \in DedupeRows \ {i} : ContentKey(prepared[j]) = ContentKey(prepared[i])
  \/ Cardinality({ContentKey(prepared[j]) : j \in SameRecipientAmount(i)}) > 1
  \/ ContentKey(prepared[i]) \in history

\* Another way to write the same recipient, which is only warned about.
Collides(i) ==
  \E j \in DedupeRows : prepared[j].to = prepared[i].to /\ prepared[j].recipient # prepared[i].recipient

\* highestSeverity of a row's warnings, with those of the receipts, which are
\* read if they can be.
Severity(i, history, receipted) ==
  IF i \notin DedupeRows THEN "none"
  ELSE IF \/ Repeats(i, history)
          \/ <<prepared[i].to, prepared[i].amount>> \in receipted
       THEN IF SeverityForType(prepared[i].type) = "warn" THEN "warn" ELSE "block"
  ELSE IF Collides(i) THEN "warn" ELSE "none"

Detect ==
  /\ fileStage = "resolving"
  /\ Len(prepared) = Len(rows)
  /\ \E receipted \in {{}, Receipted} :
       severity' = [i \in DOMAIN prepared |-> Severity(i, PaidBefore, receipted)]
  /\ fileStage' = "deduped"
  /\ UNCHANGED <<sheet, fileSource, text, rows, prepared, records>>
-----------------------------------------------------------------------------
(* The records *)

\* The mirror of the policy may say anything of the rows of an autopilot file;
\* PolicyMirror says what.  A row that needs review is as good as blocked.
Verdicts == IF fileSource = "autopilot" THEN {"valid", "blocked"} ELSE {"valid"}

RecordOf(i, verdict) ==
  [type |-> prepared[i].type, recipient |-> prepared[i].recipient, to |-> prepared[i].to,
   amount |-> prepared[i].amount, memo |-> prepared[i].memo, schedule |-> prepared[i].schedule,
   severity |-> severity[i],
   status |-> IF \/ prepared[i].to = NoAddress
                 \/ fileSource = "autopilot" /\ prepared[i].type # <<"pay">>
              THEN "blocked" ELSE verdict]

StoreRecords ==
  /\ fileStage = "deduped"
  /\ \E verdict \in [DOMAIN prepared -> Verdicts] :
       records' = [i \in DOMAIN prepared |-> RecordOf(i, verdict[i])]
  /\ fileStage' = "previewed"
  /\ UNCHANGED <<sheet, fileSource, text, rows, prepared, severity>>

FileNext == Upload \/ Parse \/ ResolveRow \/ Detect \/ StoreRecords

\* selectExecutableRows, on records nothing was done with yet.
Selected(allow) ==
  {i \in DOMAIN records :
     /\ records[i].status = "valid"
     /\ records[i].severity = "block" => fileSource = "user" /\ allow}

\* Mutant: the number of weeks is forgotten.
PeriodFromCanonicalWeekly(canonical) ==
  CASE canonical[1] = "monthly" -> 30 * OneDay
    [] canonical[1] \in {"weekly", "none"} -> OneWeek
    [] canonical[1] = "daily" -> (IF canonical[2] = "n" THEN canonical[3] ELSE 1) * OneDay

\* periodFromCanonical, in the app
PeriodFromCanonical(canonical) ==
  CASE canonical[1] = "monthly" -> 30 * OneDay
    [] canonical[1] = "weekly" /\ canonical[2] = "every" -> canonical[3] * OneWeek
    [] canonical[1] = "weekly" /\ canonical[2] # "every" -> OneWeek
    [] canonical[1] = "daily" -> (IF canonical[2] = "n" THEN canonical[3] ELSE 1) * OneDay
    [] canonical[1] = "none" -> OneWeek
-----------------------------------------------------------------------------
(***************************************************************************)
(* Unless its user allows duplicates, a file pays nobody the same amount   *)
(* twice, and subscribes nobody to the same amount twice: in whatever way  *)
(* the recipients, the amounts, the memos and the schedules are written,   *)
(* and whichever address a name resolves to at each row.                   *)
(***************************************************************************)
FilePaysOnce ==
  fileStage = "previewed" =>
    \A i, j \in Selected(FALSE) :
      /\ i # j /\ records[i].type = records[j].type /\ records[i].type # <<"request">>
      => records[i].to # records[j].to \/ records[i].amount # records[j].amount

\* What a sheet says, row by row, without the blank rows.
SheetRows(s) ==
  SelectSeq(s.rows, LAMBDA row : \E c \in DOMAIN s.header : Trim(row[s.header[c]]) # << >>)

Says(s, k, col) == IF col \in ToSet(s.header) THEN SheetRows(s)[k][col] ELSE << >>

(***************************************************************************)
(* What the app writes as CSV is what the service reads: the same rows and *)
(* in each the same cells, whichever characters are in them, in whichever  *)
(* order the columns are and between blank rows (xlsx.ts, parse.ts).       *)
(***************************************************************************)
EachSheetIsRead ==
  \A s \in Sheets :
    LET parsed == ParseCsvRows(XlsxToCsv(s)) IN
    ~parsed.error =>
      /\ Len(parsed.rows) = Len(SheetRows(s))
      /\ \A k \in 1..Len(parsed.rows), col \in Column : parsed.rows[k][col] = Says(s, k, col)

(***************************************************************************)
(* The stored records are those of the sheet, row by row: no character of  *)
(* a memo, no blank row and no row that is refused shifts the others, and  *)
(* what is executed is of the recipient, the amount, the memo and, in the  *)
(* app, the period that the sheet's own row says.                          *)
(***************************************************************************)
RecordsAreTheSheets ==
  fileStage = "previewed" =>
    /\ Len(records) = Len(SheetRows(sheet))
    /\ \A i \in Selected(TRUE) :
         /\ records[i].type = Trim(Says(sheet, i, "type"))
         /\ records[i].recipient = Trim(Says(sheet, i, "recipient"))
         /\ records[i].amount = ParseQusdcAmount(Says(sheet, i, "amount"))
         /\ records[i].memo = NormalizeMemo(Says(sheet, i, "memo"))
         /\ records[i].type = <<"subscription">> =>
              PeriodFromCanonical(records[i].schedule) =
                ParseSchedule(Says(sheet, i, "schedule")).period
=============================================================================
