---------------------------- MODULE Transactions ----------------------------
(***************************************************************************)
(* A database driver object (wcd/idriver.cpp with wcd/pdodriver.cpp or     *)
(* wcd/pgsqlfn.cpp), the SQL runner on top of it (wcd/runsql.cpp), the CSV *)
(* import of a model (wcd/model.cpp) and the record that zpp/bireturn.cpp  *)
(* keeps of every PHP exception, as one script uses them in one request.   *)
(* A script is sequential, so an action is one call it makes, from entry   *)
(* to return.                                                              *)
(*                                                                         *)
(* Data is abstracted to rows: a statement is a number of rows to store,   *)
(* each with a number of its own.  The server is external.  Assumed of it: *)
(* a failed COMMIT ends the transaction without storing it, a PostgreSQL   *)
(* server aborts a transaction on its first error and then answers COMMIT  *)
(* by a rollback, and dropping the connection rolls back.                  *)
(***************************************************************************)
EXTENDS Integers, FiniteSets

CONSTANTS
    Kinds,      \* the drivers considered: "pdo" (PdoDriver), "pgsql" (Pgsqlfn)
    MaxRows,    \* bound on the rows the script tries to store
    MaxBatch    \* bound on the rows of one statement or of one CSV file

ASSUME TransactionsAssumption ==
    /\ Kinds \subseteq {"pdo", "pgsql"}
    /\ MaxRows \in Nat
    /\ MaxBatch \in Nat

VARIABLES
    kind,           \* the class of the driver object
    handle,         \* IDriver::handle_ is set: the driver is connected
    inTransaction,  \* Pgsqlfn::inTransaction_
    waiting,        \* error_return::had_zend_exception
    server,         \* the connection's session at the server
    next,           \* the number of the next row
    script,         \* what the script knows of its unit of work
    promised,       \* rows the script was told are stored for good
    denied,         \* rows the script was told are not stored
    answer          \* the last call, and what the script got for it

transactionsVars == <<kind, handle, inTransaction, waiting, server, next,
                      script, promised, denied, answer>>

Row == 1 .. MaxRows

Session == [open : BOOLEAN, aborted : BOOLEAN,
            pend : SUBSET Row, done : SUBSET Row]

Unit == [open : BOOLEAN, failed : BOOLEAN, astray : BOOLEAN,
         rows : SUBSET Row]

Said == {"true", "false", "ok", "null", "error"}

Call == {"none", "throw", "begin", "commit", "rollback", "inTransaction",
         "runSql", "execute", "import", "close"}

TransactionsTypeOK ==
    /\ kind \in Kinds
    /\ handle \in BOOLEAN
    /\ inTransaction \in BOOLEAN
    /\ waiting \in BOOLEAN
    /\ server \in Session
    /\ next \in 1 .. MaxRows + 1
    /\ script \in Unit
    /\ promised \in SUBSET Row
    /\ denied \in SUBSET Row
    /\ answer \in [op : Call, said : Said]

-----------------------------------------------------------------------------
(* The server's session.  pend are the rows of the open transaction, done  *)
(* the rows any other connection can see.                                  *)

Begun(s) == [s EXCEPT !.open = TRUE]

Stored(s, new) ==
    IF s.open THEN [s EXCEPT !.pend = IF s.aborted THEN @ ELSE @ \cup new]
              ELSE [s EXCEPT !.done = @ \cup new]

Ended(s, kept) ==
    [open |-> FALSE, aborted |-> FALSE, pend |-> {},
     done |-> IF kept /\ ~s.aborted THEN s.done \cup s.pend ELSE s.done]

(* What an error leaves: PostgreSQL's own driver meets a server that       *)
(* aborts, PDO may have any server behind it.                              *)
AfterError(s) ==
    {[s EXCEPT !.aborted = b] :
        b \in IF ~s.open THEN {FALSE}
              ELSE IF kind = "pgsql" \/ s.aborted THEN {TRUE} ELSE BOOLEAN}

(* The script's own view.  astray: an import opened, or closed, the        *)
(* server's transaction behind the script's back.                          *)
Idle == [open |-> FALSE, failed |-> FALSE, astray |-> FALSE, rows |-> {}]

Rows(n) == next .. (next + n - 1)

Answers(op, said) == answer' = [op |-> op, said |-> said]

(* inTransaction_ exists in Pgsqlfn only. *)
Flag(b) == inTransaction' = (kind = "pgsql" /\ b)

-----------------------------------------------------------------------------
(* IDriver::handle(): connects when there is no handle.  error_return's    *)
(* did_zend_throw() takes an exception that is still on record, even one   *)
(* the script caught long ago, for an error of this call that has been     *)
(* thrown already: the call does nothing, and throws nothing.              *)
(* PdoDriver::connect() sees the record before it connects, Pgsqlfn's      *)
(* caller after it did.                                                    *)
CallLost(op, said, flag) ==
    /\ \/ /\ waiting
          /\ handle' \in {handle} \cup IF kind = "pgsql" THEN {TRUE} ELSE {}
          /\ Answers(op, said)
       \/ /\ ~handle
          /\ waiting => kind = "pgsql"
          /\ handle' = FALSE
          /\ Answers(op, "error")
    /\ waiting' = FALSE
    /\ inTransaction' = flag
    /\ UNCHANGED <<kind, server, next, script, promised, denied>>

CallReaches ==
    /\ ~waiting
    /\ handle' = TRUE
    /\ UNCHANGED kind

(* PDO refuses by an exception, which no throw_errors() takes off record. *)
PdoRefuses(op) ==
    /\ CallReaches
    /\ kind = "pdo"
    /\ waiting' = TRUE
    /\ Answers(op, "error")
    /\ UNCHANGED <<inTransaction, server, next, script, promised, denied>>

CanBegin == IF kind = "pdo" THEN ~server.open ELSE ~server.aborted

-----------------------------------------------------------------------------
TransactionsInit ==
    /\ kind \in Kinds
    /\ handle = FALSE
    /\ inTransaction = FALSE
    /\ waiting = FALSE
    /\ server = [open |-> FALSE, aborted |-> FALSE, pend |-> {}, done |-> {}]
    /\ next = 1
    /\ script = Idle
    /\ promised = {}
    /\ denied = {}
    /\ answer = [op |-> "none", said |-> "null"]

(* on_zend_exception(): PHP code of the script throws and catches. *)
Throws ==
    /\ ~waiting
    /\ waiting' = TRUE
    /\ Answers("throw", "error")
    /\ UNCHANGED <<kind, handle, inTransaction, server, next, script,
                   promised, denied>>

(* begin(): PostgreSQL takes a second BEGIN, and joins the first. *)
Begin ==
    \/ CallLost("begin", "false", inTransaction)
    \/ ~CanBegin /\ PdoRefuses("begin")
    \/ /\ CallReaches
       /\ kind = "pgsql" /\ ~CanBegin
       /\ waiting' = FALSE
       /\ Answers("begin", "error")
       /\ UNCHANGED <<inTransaction, server, next, script, promised, denied>>
    \/ /\ CallReaches
       /\ CanBegin
       /\ server' = Begun(server)
       /\ script' = [script EXCEPT !.open = TRUE]
       /\ Flag(TRUE)
       /\ waiting' = FALSE
       /\ Answers("begin", "true")
       /\ UNCHANGED <<next, promised, denied>>

(* commit().  Pgsqlfn clears its flag first and sets it again on success.  *)
Commit ==
    \/ CallLost("commit", "false", FALSE)
    \/ ~server.open /\ PdoRefuses("commit")
    \/ /\ CallReaches
       /\ kind = "pdo" => server.open
       /\ server' = Ended(server, TRUE)
       /\ script' = Idle
       /\ promised' = IF script.astray \/ script.failed THEN promised
                      ELSE promised \cup script.rows
       /\ Flag(TRUE)
       /\ waiting' = FALSE
       /\ Answers("commit", "true")
       /\ UNCHANGED <<next, denied>>
    \/ /\ CallReaches
       /\ server.open /\ ~server.aborted
       /\ server' = Ended(server, FALSE)
       /\ script' = Idle
       /\ Flag(FALSE)
       /\ waiting' = (kind = "pdo")
       /\ Answers("commit", "error")
       /\ UNCHANGED <<next, promised, denied>>

Rollback ==
    \/ CallLost("rollback", "false", FALSE)
    \/ ~server.open /\ PdoRefuses("rollback")
    \/ /\ CallReaches
       /\ kind = "pdo" => server.open
       /\ server' = Ended(server, FALSE)
       /\ script' = Idle
       /\ denied' = IF script.astray THEN denied ELSE denied \cup script.rows
       /\ Flag(TRUE)
       /\ waiting' = FALSE
       /\ Answers("rollback", "true")
       /\ UNCHANGED <<next, promised>>

(* inTransaction(): PDO asks the connection, Pgsqlfn its flag. *)
InTransaction ==
    LET Truth(b) == IF b THEN "true" ELSE "false" IN
    \/ kind = "pdo" /\ CallLost("inTransaction", "false", inTransaction)
    \/ /\ kind = "pdo"
       /\ CallReaches
       /\ waiting' = FALSE
       /\ Answers("inTransaction", Truth(server.open))
       /\ UNCHANGED <<inTransaction, server, next, script, promised, denied>>
    \/ /\ kind = "pgsql"
       /\ Answers("inTransaction", Truth(inTransaction))
       /\ UNCHANGED <<kind, handle, inTransaction, waiting, server, next,
                      script, promised, denied>>

-----------------------------------------------------------------------------
(* Statements.  All n rows go in, or the first i of them.                  *)

\* mutant: the loop ignores what its last execute returned
RowsStoredButLast(n) ==
    /\ ~server.aborted
    /\ server' = Stored(server, Rows(n - 1))
    /\ next' = next + n
    /\ script' = [script EXCEPT !.rows = IF script.open THEN @ \cup Rows(n)
                                                        ELSE @]
    /\ promised' = IF script.open \/ script.astray THEN promised
                   ELSE promised \cup Rows(n)
    /\ UNCHANGED <<inTransaction, denied>>

RowsStored(n) ==
    /\ ~server.aborted
    /\ server' = Stored(server, Rows(n))
    /\ next' = next + n
    /\ script' = [script EXCEPT !.rows = IF script.open THEN @ \cup Rows(n)
                                                        ELSE @]
    /\ promised' = IF script.open \/ script.astray THEN promised
                   ELSE promised \cup Rows(n)
    /\ UNCHANGED <<inTransaction, denied>>

RowsStopped(n, i) ==
    /\ server.aborted => i = 0
    /\ server' \in AfterError(Stored(server, Rows(i)))
    /\ next' = next + n
    /\ script' = [script EXCEPT !.rows = IF script.open THEN @ \cup Rows(i)
                                                        ELSE @,
                                !.failed = script.open]
    /\ UNCHANGED <<inTransaction, promised, denied>>

(* RunSql::operation(): one execute for each set of values, in order, up   *)
(* to the first that fails; the error is thrown by throw_errors(), which   *)
(* takes it off record.                                                    *)
RunSql(n) ==
    \/ CallLost("runSql", IF kind = "pdo" THEN "null" ELSE "error",
                inTransaction)
    \/ /\ CallReaches
       /\ RowsStored(n)
       /\ waiting' = FALSE
       /\ Answers("runSql", "ok")
    \/ /\ CallReaches
       /\ \E i \in 0 .. n - 1 : RowsStopped(n, i)
       /\ waiting' = FALSE
       /\ Answers("runSql", "error")

(* IDriver::execute() on a statement the script prepared, one row.  The    *)
(* method throws nothing itself: PDO's exception stays on record.          *)
(* Pgsqlfn's error is lost, with an older exception left on record; if     *)
(* there is no error, the older exception is taken for one.                *)
Execute ==
    /\ handle
    /\ UNCHANGED <<kind, handle>>
    /\ \/ /\ kind = "pdo"
          /\ RowsStored(1)
          /\ Answers("execute", "ok")
          /\ UNCHANGED waiting
       \/ /\ kind = "pdo"
          /\ RowsStopped(1, 0)
          /\ Answers("execute", "error")
          /\ waiting' = TRUE
       \/ /\ kind = "pgsql"
          /\ RowsStored(1)
          /\ Answers("execute", IF waiting THEN "null" ELSE "ok")
          /\ waiting' = FALSE
       \/ /\ kind = "pgsql"
          /\ RowsStopped(1, 0)
          /\ Answers("execute", "null")
          /\ UNCHANGED waiting

-----------------------------------------------------------------------------
(* Model::importFromCSV(): begin, one execute for each row, set the        *)
(* sequences, commit.  Nothing looks at what begin, execute or commit      *)
(* return, and no path out of it rolls back.                               *)

ImportAnswers(said, n) ==
    /\ answer' = [op |-> "import", said |-> said]
    /\ next' = next + n
    /\ waiting' = FALSE

(* The class's model comes from Services::getOne(), whose result is asked  *)
(* for errors: an exception on record is taken for one.                    *)
ImportLost ==
    /\ \/ waiting /\ Answers("import", "null") /\ UNCHANGED inTransaction
       \/ /\ ~waiting /\ ~handle
          /\ Answers("import", "error")
          /\ inTransaction' \in {inTransaction, FALSE}
    /\ waiting' = FALSE
    /\ UNCHANGED <<kind, handle, server, next, script, promised, denied>>

(* begin() throws: with an exception pending PHP makes no further call. *)
ImportRefused ==
    /\ CallReaches
    /\ ~CanBegin
    /\ inTransaction' \in {inTransaction, FALSE}
    /\ waiting' = FALSE
    /\ Answers("import", "error")
    /\ UNCHANGED <<server, next, script, promised, denied>>

(* A row (PDO), the statement's preparation or the sequences fail.  All    *)
(* the rows are in when the sequences are reached.                         *)
ImportStops(n) ==
    /\ CallReaches
    /\ CanBegin
    /\ \E i \in 0 .. n :
          LET rows == Stored(Begun(server), Rows(i)) IN
          \/ server' \in AfterError(rows)
          \/ i = n /\ server' = rows
    /\ script' = [script EXCEPT !.astray = TRUE]
    /\ inTransaction' \in {FALSE, kind = "pgsql"}
    /\ ImportAnswers("error", n)
    /\ UNCHANGED <<promised, denied>>

\* mutant: the import returns its count before commit()
ImportEndsUncommitted(n) ==
    /\ CallReaches
    /\ CanBegin
    /\ server' = Stored(Begun(server), Rows(n))
    /\ script' = IF script.open THEN [script EXCEPT !.astray = TRUE] ELSE Idle
    /\ Flag(TRUE)
    /\ ImportAnswers("ok", n)
    /\ UNCHANGED <<promised, denied>>

(* With Pgsqlfn a row that fails goes unnoticed, and so do those after it. *)
ImportEnds(n) ==
    /\ CallReaches
    /\ CanBegin
    /\ \E i \in 0 .. n :
          /\ i < n => kind = "pgsql"
          /\ server' = Ended([Stored(Begun(server), Rows(i))
                                 EXCEPT !.aborted = @ \/ i < n], TRUE)
          /\ promised' = IF i < n \/ script.open \/ server.open
                         THEN promised ELSE promised \cup Rows(n)
    /\ script' = IF script.open THEN [script EXCEPT !.astray = TRUE] ELSE Idle
    /\ Flag(TRUE)
    /\ ImportAnswers("ok", n)
    /\ UNCHANGED denied

ImportNotCommitted(n) ==
    /\ CallReaches
    /\ CanBegin
    /\ server' = Ended(server, FALSE)
    /\ script' = IF script.open THEN [script EXCEPT !.astray = TRUE] ELSE Idle
    /\ Flag(FALSE)
    /\ ImportAnswers("error", n)
    /\ UNCHANGED <<promised, denied>>

Import(n) ==
    \/ ImportLost
    \/ ImportRefused
    \/ ImportStops(n)
    \/ ImportEnds(n)
    \/ ImportNotCommitted(n)

(* close(), with no statement of the connection alive. *)
Close ==
    /\ handle
    /\ handle' = FALSE
    /\ server' = Ended(server, FALSE)
    /\ script' = Idle
    /\ denied' = IF script.astray THEN denied ELSE denied \cup script.rows
    /\ Answers("close", "null")
    /\ UNCHANGED <<kind, inTransaction, waiting, next, promised>>

-----------------------------------------------------------------------------
TransactionsNext ==
    \/ Throws
    \/ Begin
    \/ Commit
    \/ Rollback
    \/ InTransaction
    \/ next <= MaxRows /\ Execute
    \/ \E n \in 1 .. MaxBatch :
          next + n <= MaxRows + 1 /\ (RunSql(n) \/ Import(n))
    \/ Close

TransactionsSpec == TransactionsInit /\ [][TransactionsNext]_transactionsVars

-----------------------------------------------------------------------------
(* As long as no import has left a transaction open, or ended the script's *)
(* own, a transaction is open at the server exactly when the script has    *)
(* begun one and not seen it end, and it holds the script's rows and no    *)
(* others: what begin, commit, rollback, an error of any statement and a   *)
(* call that was lost to an old exception leave behind is what the script  *)
(* can tell from the answers.                                              *)
OpenIsMine ==
    ~script.astray => /\ server.open = script.open
                      /\ server.pend = script.rows

(* A unit of work whose commit() answered true with no failed statement in *)
(* it, and rows stored outside any unit, stay stored; rows of a unit whose *)
(* rollback() answered true, or whose connection was closed, never become  *)
(* visible, whatever calls come after, lost ones and imports included.     *)
Kept ==
    /\ promised \subseteq server.done
    /\ denied \cap server.done = {}

(* What a step needs to know to keep OpenIsMine and Kept. *)
RowsKnown ==
    LET used == 1 .. next - 1 IN
    /\ server.done \subseteq used
    /\ server.pend \subseteq used
    /\ script.rows \subseteq used
    /\ promised \subseteq used
    /\ denied \subseteq used

Apart == server.pend \cap (server.done \cup denied) = {}

SessionSane ==
    /\ ~server.open => ~server.aborted /\ server.pend = {}
    /\ ~script.open => ~script.failed /\ script.rows = {}
    /\ ~handle => ~server.open
    /\ server.aborted /\ ~script.astray => script.failed

IInv == TransactionsTypeOK /\ OpenIsMine /\ Kept /\ RowsKnown /\ Apart /\ SessionSane
=============================================================================
