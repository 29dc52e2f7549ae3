----------------------------- MODULE ExcelParser -----------------------------
(***************************************************************************)
(* The parser of file_service: a workbook, sheet by sheet and row by row,  *)
(* becomes transactions and issues.  A user uploads an export of their     *)
(* bank again and again, with more rows each time or with cells edited,    *)
(* and the dedupe_key of a row is what tells it from one imported before.  *)
(* sha256 is taken as one-to-one: a key is the tuple that is hashed.       *)
(***************************************************************************)
EXTENDS Naturals, Sequences, FiniteSets

CONSTANTS
    SheetNames,    \* the sheets of a workbook, in order
    Descriptions,  \* texts of the column of descriptions
    FirstExports,  \* the sheets of a user's first workbook
    NewRows,       \* rows that are added, or put in the place of one
    MaxRows,       \* bound: rows under a sheet's header
    MaxExports     \* bound: uploads

ASSUME ParserAssumption ==
    /\ SheetNames \in Seq(STRING) /\ Descriptions # {}
    /\ \A s, t \in DOMAIN SheetNames : SheetNames[s] = SheetNames[t] => s = t
    /\ MaxRows \in Nat /\ MaxExports \in Nat

VARIABLES
    book,      \* the workbook being parsed
    place,     \* the next row of it: sheet and row, or what the parser is at
    parsed,    \* ParseResult
    previous,  \* the workbook and parsed of the export before
    exports    \* uploads so far

parserVars == <<book, place, parsed, previous, exports>>

\* A row's cells.  operation stands for the required columns, the date and the
\* amount; optional for the six others that are converted.
Cells == {"missing", "invalid", "first", "second"}
Row == [operation : Cells, amount : Cells, optional : Cells, description : Descriptions]
EmptyRow == [empty |-> TRUE]
Sheet == [headed : BOOLEAN, rows : UNION {[1..n -> Row \union {EmptyRow}] : n \in 0..MaxRows}]

\* Every workbook that is uploaded is of this kind.
ASSUME ExportAssumption ==
    /\ NewRows \subseteq Row \union {EmptyRow}
    /\ \A sheets \in FirstExports :
          sheets \in Seq(Sheet) /\ Len(sheets) <= Len(SheetNames)

\* SHEET_PATTERN, Р_ and Д_ with a month.
Kind(name) == CASE name \in {"spent_01", "spent_02"} -> "expense"
                [] name \in {"earned_01"} -> "income"
                [] OTHER -> "unsupported"

NoResult == [matched |-> <<>>, total |-> 0, transactions |-> {}, errors |-> {}]
NoBook == [opens |-> TRUE, sheets |-> <<>>]

ParserInit ==
    /\ book = NoBook /\ previous = [book |-> NoBook, parsed |-> NoResult]
    /\ place = [sheet |-> 0, row |-> 0]
    /\ parsed = NoResult
    /\ exports = 0

-----------------------------------------------------------------------------
(* normalize_row *)

Columns == {"operation", "amount", "optional"}

\* _parse_datetime and _parse_decimal: what is empty is an issue only if required.
Faulty(column, cell) == cell = "invalid" \/ (cell = "missing" /\ column # "optional")

RowIssues(row) ==
    {[column |-> c, code |-> row[c]] : c \in {k \in Columns : Faulty(k, row[k])}}

\* Mutant: the row is numbered among the rows of the whole workbook.
DedupeKeyByTotal(name, number, row) ==
    <<name, parsed.total, row.operation, row.amount, row.description>>

\* The row is part of its key, and what else tells two operations apart.
DedupeKey(name, number, row) == <<name, number, row.operation, row.amount, row.description>>

Transaction(name, number, row) ==
    [sheet |-> name, row |-> number, type |-> Kind(name), key |-> DedupeKey(name, number, row)]

-----------------------------------------------------------------------------
(* parse *)

Sheets == {s \in DOMAIN book.sheets : Kind(SheetNames[s]) # "unsupported"}
Error(name, number, issue) == [sheet |-> name, row |-> number, issue |-> issue]
WholeFile(code) == {Error("none", 0, [column |-> "none", code |-> code])}
Parsing == place.sheet \in DOMAIN book.sheets

\* A workbook that does not open, or has no sheet of a supported name.
RejectWorkbook ==
    /\ place = [sheet |-> 1, row |-> 0]
    /\ parsed = NoResult
    /\ ~book.opens \/ Sheets = {}
    /\ parsed' = [parsed EXCEPT !.errors = WholeFile(IF book.opens THEN "no_supported_sheets"
                                                     ELSE "invalid_workbook")]
    /\ place' = [sheet |-> Len(book.sheets) + 1, row |-> 0]
    /\ UNCHANGED <<book, previous, exports>>

NextSheet == place' = [sheet |-> place.sheet + 1, row |-> 0]

SkipSheet ==
    /\ Parsing /\ place.row = 0 /\ book.opens /\ Sheets # {}
    /\ place.sheet \notin Sheets
    /\ NextSheet
    /\ UNCHANGED <<book, parsed, previous, exports>>

RejectHeader ==
    /\ Parsing /\ place.row = 0 /\ book.opens
    /\ place.sheet \in Sheets /\ ~book.sheets[place.sheet].headed
    /\ parsed' = [parsed EXCEPT
         !.matched = Append(@, place.sheet),
         !.errors = @ \union {Error(SheetNames[place.sheet], 1, [column |-> "none", code |-> "unsupported_header"])}]
    /\ NextSheet
    /\ UNCHANGED <<book, previous, exports>>

\* Rows are numbered from the line under the header.
AcceptHeader ==
    /\ Parsing /\ place.row = 0 /\ book.opens
    /\ place.sheet \in Sheets /\ book.sheets[place.sheet].headed
    /\ parsed' = [parsed EXCEPT !.matched = Append(@, place.sheet)]
    /\ place' = [place EXCEPT !.row = 2]
    /\ UNCHANGED <<book, previous, exports>>

AtRow == place.row >= 2 /\ place.row - 1 \in DOMAIN book.sheets[place.sheet].rows
TheRow == book.sheets[place.sheet].rows[place.row - 1]
NextRow == place' = [place EXCEPT !.row = @ + 1]

EndSheet ==
    /\ Parsing /\ place.row >= 2 /\ ~AtRow
    /\ NextSheet
    /\ UNCHANGED <<book, parsed, previous, exports>>

SkipEmptyRow ==
    /\ Parsing /\ AtRow /\ TheRow = EmptyRow
    /\ NextRow
    /\ UNCHANGED <<book, parsed, previous, exports>>

\* An issue of any column rejects the row.
RejectRow ==
    /\ Parsing /\ AtRow /\ TheRow # EmptyRow
    /\ RowIssues(TheRow) # {}
    /\ parsed' = [parsed EXCEPT
         !.total = @ + 1,
         !.errors = @ \union {Error(SheetNames[place.sheet], place.row, i) : i \in RowIssues(TheRow)}]
    /\ NextRow
    /\ UNCHANGED <<book, previous, exports>>

AcceptRow ==
    /\ Parsing /\ AtRow /\ TheRow # EmptyRow
    /\ RowIssues(TheRow) = {}
    /\ parsed' = [parsed EXCEPT
         !.total = @ + 1,
         !.transactions = @ \union {Transaction(SheetNames[place.sheet], place.row, TheRow)}]
    /\ NextRow
    /\ UNCHANGED <<book, previous, exports>>

-----------------------------------------------------------------------------
(* Uploads.  A workbook is edited between two of them. *)

Upload(b) ==
    /\ ~Parsing
    /\ exports < MaxExports
    /\ exports' = exports + 1
    /\ previous' = [book |-> book, parsed |-> parsed]
    /\ book' = b
    /\ parsed' = NoResult
    /\ place' = [sheet |-> 1, row |-> 0]

\* The first one, of any shape.
Export(s) == exports = 0 /\ \E opens \in BOOLEAN : Upload([opens |-> opens, sheets |-> s])

\* A later one: the rows of one more day at the end of a sheet.
ExportAppended(s, row) ==
    /\ exports > 0 /\ book.opens
    /\ s \in DOMAIN book.sheets /\ Len(book.sheets[s].rows) < MaxRows
    /\ Upload([book EXCEPT !.sheets[s].rows = Append(@, row)])

\* Or a row the user corrected.
ExportEdited(s, n, row) ==
    /\ exports > 0 /\ book.opens
    /\ s \in DOMAIN book.sheets /\ n \in DOMAIN book.sheets[s].rows
    /\ row # book.sheets[s].rows[n]
    /\ Upload([book EXCEPT !.sheets[s].rows[n] = row])

ParseStep ==
    \/ RejectWorkbook \/ SkipSheet \/ RejectHeader \/ AcceptHeader
    \/ EndSheet \/ SkipEmptyRow \/ RejectRow \/ AcceptRow

ParserNext ==
    \/ ParseStep
    \/ \E s \in FirstExports : Export(s)
    \/ \E s \in DOMAIN SheetNames, row \in NewRows : ExportAppended(s, row)
    \/ \E s \in DOMAIN SheetNames, n \in 1..MaxRows, row \in NewRows : ExportEdited(s, n, row)

ParserSpec == ParserInit /\ [][ParserNext]_parserVars

-----------------------------------------------------------------------------
(* Properties *)

ParserTypeOK ==
    /\ \A s \in DOMAIN book.sheets : book.sheets[s] \in Sheet
    /\ place.sheet \in 0..(Len(SheetNames) + 1) /\ place.row \in 0..(MaxRows + 2)
    /\ parsed.total \in 0..(MaxRows * Len(SheetNames))
    /\ exports \in 0..MaxExports

\* Where a row stands in a workbook, and the transaction it gave, if any.
Given(r, name, number) == {x \in r.transactions : x.sheet = name /\ x.row = number}
Rejected(r, name, number) == \E e \in r.errors : e.sheet = name /\ e.row = number
Finished == ~Parsing /\ book.opens /\ exports > 0

(* Every row with a value, of a sheet with the right header, becomes one   *)
(* transaction or is reported, never both; the rows are the job's total;   *)
(* and a row that an export shares with the one before, whatever was added *)
(* or edited around it, gives the key it gave: transactions.bulk_create    *)
(* inserts it once.  Two rows of one workbook never share a key.           *)
KeysFollowRows ==
    /\ Finished => \A s \in Sheets : \A n \in DOMAIN book.sheets[s].rows :
         LET name == SheetNames[s]
             given == Given(parsed, name, n + 1) IN
         IF book.sheets[s].rows[n] = EmptyRow \/ ~book.sheets[s].headed
           THEN given = {}
           ELSE (Cardinality(given) = 1) # Rejected(parsed, name, n + 1)
    /\ Finished => parsed.total = Cardinality(parsed.transactions)
         + Cardinality({<<e.sheet, e.row>> : e \in {x \in parsed.errors : x.row > 1}})
    /\ \A x, y \in parsed.transactions : x.key = y.key => x = y
    /\ \A x \in parsed.transactions, y \in previous.parsed.transactions :
         x.sheet = y.sheet /\ x.row = y.row =>
           \/ x.key = y.key
           \/ \E s \in Sheets : /\ SheetNames[s] = x.sheet
                                /\ book.sheets[s].rows[x.row - 1] # previous.book.sheets[s].rows[x.row - 1]
==============================================================================
