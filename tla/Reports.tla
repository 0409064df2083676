------------------------------ MODULE Reports ------------------------------
(***************************************************************************)
(* Admin reports: ReportingService filters the transactions of the         *)
(* provider and sums them up in five ways; ReportExportService lays the    *)
(* rows of one report out as CSV, Excel or PDF.  Nothing is stored: a      *)
(* request is computed from the table, its filters, and nothing else.      *)
(*                                                                         *)
(* A text filter matches whatever its case, so it is a value of the column.*)
(* Moments are minutes from the first day on; a date is its midnight.      *)
(***************************************************************************)
EXTENDS Integers, FiniteSets, Sequences, SequencesExt

CONSTANTS
    Tables,         \* what the provider may return: sequences of transactions
    Queries,        \* filters a request may bring
    NotGiven,       \* a filter that is not given; no answer yet
    FirstRow,       \* y below the title and the header of a PDF
    LineHeight,     \* height of a printed line
    PageEnd,        \* y where the margin of a page begins
    Lines(_, _, _), \* lines that a cell of a row of some columns needs
    MaxColumns      \* bound: columns of a sheet whose letters are checked

VARIABLES
    table,          \* the transactions
    query,          \* the filters of the request
    answer          \* what it was answered

reporting == <<table, query, answer>>

-----------------------------------------------------------------------------
(* TransactionProvider                                                     *)

Transactions ==
    [channel : STRING, cif : Nat, amount : Int, status : {"SUCCESS", "FAILED", "PENDING"},
     type : {"CREDIT", "DEBIT"}, branch : STRING, at : Nat]

Txn(channel, cif, amount, status, type, branch, at) ==
    [channel |-> channel, cif |-> cif, amount |-> amount, status |-> status,
     type |-> type, branch |-> branch, at |-> at]

Provided ==
    << Txn("MOBILE_APP", 1,   5000, "SUCCESS", "DEBIT",  "MUMBAI_MAIN",     375),
       Txn("MOBILE_APP", 2,  15000, "FAILED",  "DEBIT",  "DELHI_MAIN",      440),
       Txn("MOBILE_APP", 3,   2500, "PENDING", "DEBIT",  "MUMBAI_MAIN",     490),
       Txn("MOBILE_APP", 4,  75000, "SUCCESS", "DEBIT",  "BANGALORE_MAIN",  570),
       Txn("MOBILE_APP", 5, 125000, "SUCCESS", "DEBIT",  "DELHI_MAIN",      645),
       Txn("MOBILE_APP", 6,   3500, "FAILED",  "CREDIT", "AHMEDABAD_MAIN", 1830),
       Txn("MOBILE_APP", 7,  22000, "SUCCESS", "CREDIT", "BANGALORE_MAIN", 1920) >>

-----------------------------------------------------------------------------
(* ReportingService                                                        *)

(* The filters of a request.                                               *)
Equals == {"cif", "branch", "status", "type", "channel"}

Filters == Equals \cup {"from", "to", "min", "max"}

NoFilters == [f \in Filters |-> NotGiven]

ASSUME ReportsAssumption ==
    /\ NotGiven \notin Int
    /\ Tables \subseteq Seq(Transactions)
    /\ \A q \in Queries : q = [f \in Filters |-> q[f]] /\ q.min \in Int \cup {NotGiven}
    /\ {FirstRow, LineHeight, PageEnd, MaxColumns} \subseteq Nat
    /\ LineHeight <= 18 /\ 550 + LineHeight <= PageEnd

Passes(q, t) ==
    /\ q.from # NotGiven => t.at >= q.from
    /\ q.to # NotGiven => t.at <= q.to
    /\ \A f \in Equals : q[f] # NotGiven => t[f] = q[f]
    /\ q.min # NotGiven => t.amount >= q.min
    /\ q.max # NotGiven => t.amount <= q.max

(* filter: those of some transactions that are in S, in their order.       *)
Kept(rows, S) ==
    FoldLeft(LAMBDA kept, t : IF t \in S THEN Append(kept, t) ELSE kept, <<>>, rows)

Filtered(q) == Kept(table, {t \in Range(table) : Passes(q, t)})

Having(rows, f, v) == Kept(rows, {t \in Range(rows) : t[f] = v})

Sum(rows) == FoldLeft(LAMBDA sum, t : sum + t.amount, 0, rows)

DailySummary(q) ==
    LET rows == Filtered(q) IN
    [total      |-> Len(rows),
     successful |-> Len(Having(rows, "status", "SUCCESS")),
     failed     |-> Len(Having(rows, "status", "FAILED")),
     pending    |-> Len(Having(rows, "status", "PENDING")),
     credit     |-> Sum(Having(rows, "type", "CREDIT")),
     debit      |-> Sum(Having(rows, "type", "DEBIT"))]

FailedTransactions(q) == Having(Filtered(q), "status", "FAILED")

Default == 50000

HighValueTransactions(q) ==
    LET min == IF q.min = NotGiven THEN Default ELSE q.min IN
    Kept(Filtered(q), {t \in Range(table) : t.amount >= min})

(* The Map of a grouping, with one more transaction counted.               *)
Counted_Latest(groups, name, amount) ==
    IF name \in DOMAIN groups
    THEN [groups EXCEPT ![name].count = @ + 1, ![name].amount = amount]
    ELSE [n \in DOMAIN groups \cup {name} |->
             IF n = name THEN [count |-> 1, amount |-> amount] ELSE groups[n]]
Counted(groups, name, amount) ==
    IF name \in DOMAIN groups
    THEN [groups EXCEPT ![name].count = @ + 1, ![name].amount = @ + amount]
    ELSE [n \in DOMAIN groups \cup {name} |->
             IF n = name THEN [count |-> 1, amount |-> amount] ELSE groups[n]]

Grouped(rows, f) ==
    LET groups[i \in 0..Len(rows)] ==
            IF i = 0 THEN <<>>
            ELSE LET before == groups[i - 1] IN Counted(before, rows[i][f], rows[i].amount)
    IN  groups[Len(rows)]

BranchWise(q) == Grouped(Filtered(q), "branch")

ChannelWise(q) == Grouped(Filtered(q), "channel")

-----------------------------------------------------------------------------
(* ReportExportService                                                     *)

(* getColumnLetter: a sequence of letters, A being 1.                      *)
Letters_FromZero(column) ==
    LET letters[n \in Nat] == IF n = 0 THEN <<>>
                              ELSE Append(letters[n \div 26], 1 + (n % 26))
    IN  letters[column]
Letters(column) ==
    LET letters[n \in Nat] == IF n = 0 THEN <<>>
                              ELSE Append(letters[(n - 1) \div 26], 1 + ((n - 1) % 26))
    IN  letters[column]

(* exportPdf: the page and the height each row begins at.  A cell that is  *)
(* wider than its column is wrapped, and where its lines pass the end of   *)
(* the page pdfkit adds one, on which the cells after it are then printed; *)
(* no cell is as long as a page.                                           *)
Added(row, columns, y) ==
    Cardinality({c \in 1..columns : y + Lines(row, columns, c) * LineHeight > PageEnd})

Broken_Late(at) == IF at.y > 560 THEN [page |-> at.page + 1, y |-> 30] ELSE at
Broken(at) == IF at.y > 550 THEN [page |-> at.page + 1, y |-> 30] ELSE at

After(row, columns, at) ==
    Broken([page |-> at.page + Added(row, columns, at.y), y |-> at.y + 18])

Placed(rows, columns) ==
    LET place[i \in DOMAIN rows] ==
            IF i = 1 THEN Broken([page |-> 1, y |-> FirstRow])
            ELSE After(rows[i - 1], columns, place[i - 1])
    IN  [i \in DOMAIN rows |-> place[i]]

(* CSV and Excel have a header line when there are rows, and nothing       *)
(* otherwise; the filter of a sheet ends at the last column.               *)
Csv(rows, columns) == [format |-> "csv", rows |-> rows,
                       header |-> IF rows = <<>> THEN 0 ELSE columns]

Excel(rows, columns) == [format |-> "excel", rows |-> rows,
                         header |-> IF rows = <<>> THEN 0 ELSE columns,
                         filter |-> IF rows = <<>> THEN <<>> ELSE Letters(columns)]

Pdf(rows, columns) == [format |-> "pdf", rows |-> rows,
                       header |-> IF rows = <<>> THEN 0 ELSE columns,
                       places |-> Placed(rows, columns)]

-----------------------------------------------------------------------------
(* ReportingController                                                     *)

Types == {"daily-summary", "failed", "high-value", "branch-wise", "channel-wise"}

(* A row for each group; the code's come in the order the names first do.  *)
Rows(groups) ==
    SetToSeq({[name |-> n, count |-> groups[n].count, amount |-> groups[n].amount] :
                 n \in DOMAIN groups})

(* getReportData: the rows of a report; its columns are the fields of one. *)
Data(type, q) ==
    CASE type = "daily-summary" -> <<DailySummary(q)>>
      [] type = "failed" -> FailedTransactions(q)
      [] type = "high-value" -> HighValueTransactions(q)
      [] type = "branch-wise" -> Rows(BranchWise(q))
      [] type = "channel-wise" -> Rows(ChannelWise(q))

Columns(type) ==
    CASE type = "daily-summary" -> 8
      [] type \in {"failed", "high-value"} -> 17
      [] OTHER -> 3

ReportsInit == table \in Tables /\ query \in Queries /\ answer = NotGiven

Report(type) ==
    /\ answer = NotGiven
    /\ answer' = [format |-> "json", rows |-> Data(type, query)]
    /\ UNCHANGED <<table, query>>

Export(type) ==
    /\ answer = NotGiven
    /\ answer' \in {Csv(Data(type, query), Columns(type)),
                    Excel(Data(type, query), Columns(type)),
                    Pdf(Data(type, query), Columns(type))}
    /\ UNCHANGED <<table, query>>

ReportsNext == \E type \in Types : Report(type) \/ Export(type)

ReportsSpec == ReportsInit /\ [][ReportsNext]_reporting

-----------------------------------------------------------------------------
(* The groups of a report add up to the summary.                           *)
AddUp(groups, d) ==
    /\ FoldFunction(LAMBDA g, sum : sum + g.count, 0, groups) = d.total
    /\ FoldFunction(LAMBDA g, sum : sum + g.amount, 0, groups) = d.credit + d.debit

(* The reports tell one story: for the same filters, branches and channels *)
(* add up to the summary, and so do the statuses and the list of failed    *)
(* transactions; the high-value report is one whose minimum has a default. *)
ReportsAgree ==
    answer = NotGiven =>
        LET d == DailySummary(query) IN
        /\ AddUp(BranchWise(query), d) /\ AddUp(ChannelWise(query), d)
        /\ d.successful + d.failed + d.pending = d.total
        /\ Len(FailedTransactions(query)) = d.failed
        /\ HighValueTransactions(query) =
              Filtered([query EXCEPT !.min = IF @ = NotGiven THEN Default ELSE @])

(* A PDF has a place for every row, in order, each inside its page; a row  *)
(* that fits its columns is printed on no other one, and no page is left   *)
(* empty after it.  (Wrapped cells are printed over the rows below.)       *)
FitsColumns(row, columns) == \A c \in 1..columns : Lines(row, columns, c) = 1

PagesHoldRows ==
    answer # NotGiven /\ answer.format = "pdf" =>
        LET at == answer.places IN
        /\ Len(at) = Len(answer.rows)
        /\ \A i \in DOMAIN at : at[i].y + LineHeight <= PageEnd
        /\ \A i \in 2..Len(at) :
              /\ \/ at[i].page = at[i-1].page /\ at[i].y > at[i-1].y
                 \/ at[i].page > at[i-1].page
              /\ FitsColumns(answer.rows[i-1], answer.header) =>
                    \/ at[i].page = at[i-1].page /\ at[i].y >= at[i-1].y + LineHeight
                    \/ at[i].page = at[i-1].page + 1

(* The number that letters stand for, A being 1.                           *)
Number(letters) == FoldLeft(LAMBDA n, d : 26 * n + d, 0, letters)

(* The letters of a column are its number, counted in 26 digits without a  *)
(* zero; so are those of the sheets that are exported.                     *)
LettersNumberColumns ==
    /\ answer = NotGiven /\ query = NoFilters =>
           \A n \in 1..MaxColumns :
               Letters(n) \in Seq(1..26) /\ Number(Letters(n)) = n
    /\ answer # NotGiven /\ answer.format = "excel" => Number(answer.filter) = answer.header

=============================================================================
