------------------------------ MODULE MCAdmin ------------------------------
(***************************************************************************)
(* Small instances of Rules and Reports for TLC.  Of Reports: the          *)
(* provider's own table, that table nine times over (three pages), and     *)
(* every table of at most two of a few transactions on both sides of each  *)
(* boundary.  The two services read nothing of each other: a report is     *)
(* taken before any request for a rule, and the rules change after a       *)
(* report of nothing.                                                      *)
(***************************************************************************)
EXTENDS Rules, Reports, TLC

(* Handlers are interchangeable.                                           *)
Interchangeable == Permutations(Handlers)

Few == {Txn(c, 1, a, s, t, b, m) :
            c \in {"MOBILE_APP"}, a \in {49999, 50000}, s \in {"SUCCESS", "FAILED"},
            t \in {"CREDIT", "DEBIT"}, b \in {"MUMBAI_MAIN", "DELHI_MAIN"}, m \in {1440}}
       \cup {Txn("WEB", 2, 50001, "PENDING", "DEBIT", "DELHI_MAIN", 1439)}

NineTimes == [i \in 1..63 |-> Provided[1 + ((i - 1) % 7)]]

MCTables == {Provided, NineTimes} \cup BoundedSeq(Few, 2)

MCQueries ==
    {NoFilters}
    \cup {[NoFilters EXCEPT !.from = m] : m \in {1440, 1441}}
    \cup {[NoFilters EXCEPT !.to = m] : m \in {1439, 1440}}
    \cup {[NoFilters EXCEPT !.min = m] : m \in {0, 50000, 50001}}
    \cup {[NoFilters EXCEPT !.max = m] : m \in {3000, 50000}}
    \cup {[NoFilters EXCEPT !.branch = "DELHI_MAIN"], [NoFilters EXCEPT !.cif = 2],
          [NoFilters EXCEPT !.status = "FAILED", !.type = "DEBIT"],
          [NoFilters EXCEPT !.channel = "WEB", !.min = 15000, !.max = 60000]}

(* Of a transaction's 17 columns, two are too narrow for large amounts.    *)
MCLines(row, columns, c) ==
    IF columns = 17 /\ c \in {2, 4} /\ row.amount > 20000 THEN 3 ELSE 1

AdminInit == Init /\ ReportsInit

AdminNext ==
    \/ Init /\ ReportsNext /\ UNCHANGED vars
    \/ table = <<>> /\ answer = Csv(<<>>, 0) /\ query = NoFilters
       /\ Next /\ UNCHANGED reporting

AdminSpec == AdminInit /\ [][AdminNext]_<<vars, reporting>>

=============================================================================
