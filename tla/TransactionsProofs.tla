------------------------- MODULE TransactionsProofs -------------------------
(***************************************************************************)
(* Proofs about a database driver under a script (Transactions), for any   *)
(* bounds and either driver, and, in the second half, about the container  *)
(* a script has the driver from (Services).                                *)
(***************************************************************************)
EXTENDS Transactions, Services, FiniteSetTheorems, SequenceTheorems, TLAPS

(* The fresh rows of a statement are rows, and none of them is in use.     *)
LEMMA RowsAreFresh ==
    ASSUME NEW n \in Nat, next \in 1 .. MaxRows + 1, next + n <= MaxRows + 1,
           NEW i \in 0 .. n
    PROVE  /\ Rows(i) \in SUBSET Row
           /\ Rows(i) \subseteq 1 .. next + n - 1
           /\ Rows(i) \cap (1 .. next - 1) = {}
           /\ 1 .. next - 1 \subseteq 1 .. next + n - 1
           /\ next + n \in 1 .. MaxRows + 1
BY TransactionsAssumption DEF Rows, Row

(* A session's transaction begins. *)
LEMMA BegunSession ==
    ASSUME NEW s \in Session
    PROVE  /\ Begun(s) \in Session
           /\ Begun(s).open
           /\ Begun(s).aborted = s.aborted
           /\ Begun(s).pend = s.pend
           /\ Begun(s).done = s.done
BY DEF Begun, Session

(* Rows go into the open transaction, or are visible at once. *)
LEMMA StoredSession ==
    ASSUME NEW s \in Session, NEW new \in SUBSET Row
    PROVE  /\ Stored(s, new) \in Session
           /\ Stored(s, new).open = s.open
           /\ Stored(s, new).aborted = s.aborted
           /\ Stored(s, new).pend =
                 IF s.open /\ ~s.aborted THEN s.pend \cup new ELSE s.pend
           /\ Stored(s, new).done =
                 IF s.open THEN s.done ELSE s.done \cup new
<1>1. CASE s.open
  BY <1>1 DEF Stored, Session
<1>2. CASE ~s.open
  BY <1>2 DEF Stored, Session
<1> QED
  BY <1>1, <1>2

(* A transaction ends: what it held is visible, or gone. *)
LEMMA EndedSession ==
    ASSUME NEW s \in Session, NEW kept \in BOOLEAN
    PROVE  /\ Ended(s, kept) \in Session
           /\ ~Ended(s, kept).open
           /\ ~Ended(s, kept).aborted
           /\ Ended(s, kept).pend = {}
           /\ Ended(s, kept).done =
                 IF kept /\ ~s.aborted THEN s.done \cup s.pend ELSE s.done
BY DEF Ended, Session

(* An error changes nothing but the transaction's state. *)
LEMMA AfterErrorSession ==
    ASSUME NEW s \in Session, NEW t \in AfterError(s)
    PROVE  /\ t \in Session
           /\ t.open = s.open
           /\ t.pend = s.pend
           /\ t.done = s.done
           /\ t.aborted => s.open
<1>1. PICK b \in IF ~s.open THEN {FALSE}
                 ELSE IF kind = "pgsql" \/ s.aborted THEN {TRUE} ELSE BOOLEAN :
          t = [s EXCEPT !.aborted = b]
  BY DEF AfterError
<1>2. b \in BOOLEAN /\ (b => s.open)
  BY <1>1 DEF Session
<1> QED
  BY <1>1, <1>2 DEF Session

(* The script's view between two units of work. *)
LEMMA IdleUnit ==
    /\ Idle \in Unit
    /\ ~Idle.open /\ ~Idle.failed /\ ~Idle.astray /\ Idle.rows = {}
BY DEF Idle, Unit

-----------------------------------------------------------------------------
(* A statement all of whose rows go in. *)
LEMMA RowsStoredKeeps ==
    ASSUME IInv, NEW n \in Nat, next + n <= MaxRows + 1, RowsStored(n),
           kind' = kind, handle', handle' \in BOOLEAN, waiting' \in BOOLEAN,
           answer' \in [op : Call, said : Said]
    PROVE  IInv'
<1> USE DEF IInv
<1>1. /\ Rows(n) \in SUBSET Row
      /\ Rows(n) \subseteq 1 .. next + n - 1
      /\ Rows(n) \cap (1 .. next - 1) = {}
      /\ 1 .. next - 1 \subseteq 1 .. next + n - 1
      /\ next + n \in 1 .. MaxRows + 1
  BY RowsAreFresh DEF TransactionsTypeOK
<1>2. /\ server' \in Session
      /\ server'.open = server.open
      /\ server'.aborted = server.aborted
      /\ ~server.aborted
      /\ server'.pend = IF server.open THEN server.pend \cup Rows(n)
                                       ELSE server.pend
      /\ server'.done = IF server.open THEN server.done
                                       ELSE server.done \cup Rows(n)
  BY <1>1, StoredSession DEF TransactionsTypeOK, RowsStored
<1>3. /\ script' \in Unit
      /\ script'.open = script.open
      /\ script'.failed = script.failed
      /\ script'.astray = script.astray
      /\ script'.rows = IF script.open THEN script.rows \cup Rows(n)
                                       ELSE script.rows
  BY <1>1 DEF TransactionsTypeOK, RowsStored, Unit
<1>4. /\ next' = next + n /\ inTransaction' = inTransaction /\ denied' = denied
      /\ promised' = IF script.open \/ script.astray THEN promised
                     ELSE promised \cup Rows(n)
  BY DEF RowsStored
<1>5. TransactionsTypeOK'
  BY <1>1, <1>2, <1>3, <1>4 DEF TransactionsTypeOK
<1>6. OpenIsMine'
  BY <1>2, <1>3 DEF OpenIsMine
<1>7. /\ server.done \subseteq 1 .. next - 1
      /\ server.pend \subseteq 1 .. next - 1
      /\ script.rows \subseteq 1 .. next - 1
      /\ promised \subseteq 1 .. next - 1
      /\ denied \subseteq 1 .. next - 1
  BY DEF RowsKnown
<1>8. RowsKnown'
  <2>1. 1 .. next' - 1 = 1 .. next + n - 1
    BY <1>4 DEF TransactionsTypeOK
  <2>2. /\ server'.done \subseteq 1 .. next + n - 1
        /\ server'.pend \subseteq 1 .. next + n - 1
        /\ script'.rows \subseteq 1 .. next + n - 1
        /\ promised' \subseteq 1 .. next + n - 1
        /\ denied' \subseteq 1 .. next + n - 1
    BY <1>1, <1>2, <1>3, <1>4, <1>7
  <2> QED
    BY <2>1, <2>2 DEF RowsKnown
<1>9. Apart'
  BY <1>1, <1>2, <1>4, <1>7 DEF Apart, SessionSane
<1>10. Kept'
  BY <1>1, <1>2, <1>4, <1>7 DEF Kept, OpenIsMine
<1>11. SessionSane'
  BY <1>2, <1>3 DEF SessionSane
<1> QED
  BY <1>5, <1>6, <1>8, <1>9, <1>10, <1>11

(* A statement that fails after its first i rows. *)
LEMMA RowsStoppedKeeps ==
    ASSUME IInv, NEW n \in Nat, next + n <= MaxRows + 1,
           NEW i \in 0 .. n, RowsStopped(n, i),
           kind' = kind, handle', handle' \in BOOLEAN, waiting' \in BOOLEAN,
           answer' \in [op : Call, said : Said]
    PROVE  IInv'
<1> USE DEF IInv
<1>1. /\ Rows(i) \in SUBSET Row
      /\ Rows(i) \subseteq 1 .. next + n - 1
      /\ Rows(i) \cap (1 .. next - 1) = {}
      /\ 1 .. next - 1 \subseteq 1 .. next + n - 1
      /\ next + n \in 1 .. MaxRows + 1
      /\ i = 0 => Rows(i) = {}
  BY RowsAreFresh DEF TransactionsTypeOK, Rows
<1>2. /\ server' \in Session
      /\ server'.open = server.open
      /\ server'.aborted => server.open
      /\ server'.pend = IF server.open THEN server.pend \cup Rows(i)
                                       ELSE server.pend
      /\ server'.done = IF server.open THEN server.done
                                       ELSE server.done \cup Rows(i)
  <2>1. /\ Stored(server, Rows(i)) \in Session
        /\ Stored(server, Rows(i)).open = server.open
        /\ Stored(server, Rows(i)).pend =
              IF server.open /\ ~server.aborted THEN server.pend \cup Rows(i)
                                               ELSE server.pend
        /\ Stored(server, Rows(i)).done =
              IF server.open THEN server.done ELSE server.done \cup Rows(i)
    BY <1>1, StoredSession DEF TransactionsTypeOK
  <2>2. server' \in AfterError(Stored(server, Rows(i)))
    BY DEF RowsStopped
  <2>3. server.aborted => Rows(i) = {}
    BY <1>1 DEF RowsStopped
  <2> QED
    BY <2>1, <2>2, <2>3, AfterErrorSession
<1>3. /\ script' \in Unit
      /\ script'.open = script.open
      /\ script'.failed = script.open
      /\ script'.astray = script.astray
      /\ script'.rows = IF script.open THEN script.rows \cup Rows(i)
                                       ELSE script.rows
  BY <1>1 DEF TransactionsTypeOK, RowsStopped, Unit
<1>4. /\ next' = next + n /\ inTransaction' = inTransaction
      /\ denied' = denied /\ promised' = promised
  BY DEF RowsStopped
<1>5. TransactionsTypeOK'
  BY <1>1, <1>2, <1>3, <1>4 DEF TransactionsTypeOK
<1>6. OpenIsMine'
  BY <1>2, <1>3 DEF OpenIsMine
<1>7. /\ server.done \subseteq 1 .. next - 1
      /\ server.pend \subseteq 1 .. next - 1
      /\ script.rows \subseteq 1 .. next - 1
      /\ promised \subseteq 1 .. next - 1
      /\ denied \subseteq 1 .. next - 1
  BY DEF RowsKnown
<1>8. RowsKnown'
  <2>1. 1 .. next' - 1 = 1 .. next + n - 1
    BY <1>4 DEF TransactionsTypeOK
  <2>2. /\ server'.done \subseteq 1 .. next + n - 1
        /\ server'.pend \subseteq 1 .. next + n - 1
        /\ script'.rows \subseteq 1 .. next + n - 1
        /\ promised' \subseteq 1 .. next + n - 1
        /\ denied' \subseteq 1 .. next + n - 1
    BY <1>1, <1>2, <1>3, <1>4, <1>7
  <2> QED
    BY <2>1, <2>2 DEF RowsKnown
<1>9. Apart'
  BY <1>1, <1>2, <1>4, <1>7 DEF Apart, SessionSane
<1>10. Kept'
  BY <1>1, <1>2, <1>4, <1>7 DEF Kept
<1>11. SessionSane'
  BY <1>2, <1>3 DEF SessionSane, OpenIsMine
<1> QED
  BY <1>5, <1>6, <1>8, <1>9, <1>10, <1>11

(* A transaction that ends, at the server and for the script. *)
LEMMA EndKeeps ==
    ASSUME IInv, NEW kept \in BOOLEAN,
           server' = Ended(server, kept), script' = Idle, next' = next,
           kind' = kind, handle' \in BOOLEAN, waiting' \in BOOLEAN,
           inTransaction' \in BOOLEAN,
           answer' \in [op : Call, said : Said],
           \/ kept /\ denied' = denied /\
                 promised' = IF script.astray \/ script.failed THEN promised
                             ELSE promised \cup script.rows
           \/ ~kept /\ promised' = promised /\
                 denied' = IF script.astray THEN denied
                           ELSE denied \cup script.rows
           \/ promised' = promised /\ denied' = denied
    PROVE  IInv'
<1> USE DEF IInv
<1>1. /\ server' \in Session
      /\ ~server'.open
      /\ ~server'.aborted
      /\ server'.pend = {}
      /\ server'.done = IF kept /\ ~server.aborted
                        THEN server.done \cup server.pend ELSE server.done
  BY EndedSession DEF TransactionsTypeOK
<1>2. /\ script' \in Unit
      /\ ~script'.open /\ ~script'.failed /\ ~script'.astray
      /\ script'.rows = {}
  BY IdleUnit
<1>3. script.rows \in SUBSET Row
  BY DEF TransactionsTypeOK, Unit
<1>4. TransactionsTypeOK'
  BY <1>1, <1>2, <1>3 DEF TransactionsTypeOK
<1>5. OpenIsMine'
  BY <1>1, <1>2 DEF OpenIsMine, Session, Unit
<1>6. RowsKnown'
  BY <1>1, <1>2 DEF RowsKnown
<1>7. Apart'
  BY <1>1 DEF Apart
<1>8. Kept'
  BY <1>1 DEF Kept, Apart, OpenIsMine, SessionSane
<1>9. SessionSane'
  BY <1>1, <1>2 DEF SessionSane
<1> QED
  BY <1>4, <1>5, <1>6, <1>7, <1>8, <1>9

(* A call that reaches neither the server nor the script's view of it.     *)
LEMMA NothingKeeps ==
    ASSUME IInv, kind' = kind, handle' \in BOOLEAN, waiting' \in BOOLEAN,
           inTransaction' \in BOOLEAN, server.open => handle',
           answer' \in [op : Call, said : Said],
           UNCHANGED <<server, next, script, promised, denied>>
    PROVE  IInv'
<1> USE DEF IInv
<1>1. TransactionsTypeOK'
  BY DEF TransactionsTypeOK
<1>2. OpenIsMine' /\ Kept' /\ RowsKnown' /\ Apart'
  BY DEF OpenIsMine, Kept, RowsKnown, Apart
<1>3. SessionSane'
  BY DEF SessionSane
<1> QED
  BY <1>1, <1>2, <1>3

(* A call that PHP or the driver turned away. *)
LEMMA LostKeeps ==
    ASSUME IInv, NEW op \in Call, NEW said \in Said, NEW flag \in BOOLEAN,
           CallLost(op, said, flag)
    PROVE  IInv'
<1>1. handle' \in BOOLEAN /\ (server.open => handle')
  BY DEF CallLost, IInv, TransactionsTypeOK, SessionSane
<1>2. answer' \in [op : Call, said : Said]
  <2>1. PICK told \in Said : answer' = [op |-> op, said |-> told]
    BY DEF CallLost, Answers, Said
  <2> QED
    BY <2>1
<1> QED
  BY <1>1, <1>2, NothingKeeps DEF CallLost

(* PDO's refusals. *)
LEMMA RefusedKeeps ==
    ASSUME IInv, NEW op \in Call, PdoRefuses(op)
    PROVE  IInv'
<1>1. answer' \in [op : Call, said : Said]
  BY DEF PdoRefuses, Answers, Said
<1>2. inTransaction' \in BOOLEAN
  BY DEF PdoRefuses, IInv, TransactionsTypeOK
<1> QED
  BY <1>1, <1>2, NothingKeeps DEF PdoRefuses, CallReaches

(* begin(), lost, refused or done. *)
LEMMA BeginKeeps == ASSUME IInv, Begin PROVE IInv'
<1> USE DEF IInv
<1>1. CASE CallLost("begin", "false", inTransaction)
  BY <1>1, LostKeeps DEF Call, Said, TransactionsTypeOK
<1>2. CASE PdoRefuses("begin")
  BY <1>2, RefusedKeeps DEF Call
<1>3. CASE /\ CallReaches
           /\ waiting' = FALSE
           /\ Answers("begin", "error")
           /\ UNCHANGED <<inTransaction, server, next, script, promised, denied>>
  <2>1. answer' \in [op : Call, said : Said]
    BY <1>3 DEF Answers, Said, Call
  <2>2. inTransaction' \in BOOLEAN
    BY <1>3 DEF TransactionsTypeOK
  <2> QED
    BY <1>3, <2>1, <2>2, NothingKeeps DEF CallReaches
<1>4. CASE /\ CallReaches
           /\ CanBegin
           /\ server' = Begun(server)
           /\ script' = [script EXCEPT !.open = TRUE]
           /\ Flag(TRUE)
           /\ waiting' = FALSE
           /\ Answers("begin", "true")
           /\ UNCHANGED <<next, promised, denied>>
  <2>1. /\ server' \in Session
        /\ server'.open
        /\ server'.aborted = server.aborted
        /\ server'.pend = server.pend
        /\ server'.done = server.done
    BY <1>4, BegunSession DEF TransactionsTypeOK
  <2>2. /\ script' \in Unit
        /\ script'.open
        /\ script'.failed = script.failed
        /\ script'.astray = script.astray
        /\ script'.rows = script.rows
    BY <1>4 DEF TransactionsTypeOK, Unit
  <2>3. answer' \in [op : Call, said : Said]
    BY <1>4 DEF Answers, Said, Call
  <2>4. /\ inTransaction' \in BOOLEAN
        /\ kind' = kind /\ handle' = TRUE /\ waiting' = FALSE
        /\ next' = next /\ promised' = promised /\ denied' = denied
    BY <1>4 DEF Flag, CallReaches
  <2>5. TransactionsTypeOK'
    BY <2>1, <2>2, <2>3, <2>4 DEF TransactionsTypeOK
  <2>6. OpenIsMine'
    BY <2>1, <2>2 DEF OpenIsMine, Session, Unit
  <2>7. Kept' /\ Apart'
    BY <2>1, <2>4 DEF Kept, Apart
  <2>8. RowsKnown'
    BY <2>1, <2>2, <2>4 DEF RowsKnown
  <2>9. SessionSane'
    BY <2>1, <2>2, <2>4 DEF SessionSane
  <2> QED
    BY <2>5, <2>6, <2>7, <2>8, <2>9
<1> QED
  BY <1>1, <1>2, <1>3, <1>4 DEF Begin

(* commit(), done, refused or failing at the server. *)
LEMMA CommitKeeps == ASSUME IInv, Commit PROVE IInv'
<1> USE DEF IInv
<1>1. CASE CallLost("commit", "false", FALSE)
  BY <1>1, LostKeeps DEF Call, Said
<1>2. CASE PdoRefuses("commit")
  BY <1>2, RefusedKeeps DEF Call
<1>3. CASE /\ CallReaches
           /\ server' = Ended(server, TRUE)
           /\ script' = Idle
           /\ promised' = IF script.astray \/ script.failed THEN promised
                          ELSE promised \cup script.rows
           /\ Flag(TRUE)
           /\ waiting' = FALSE
           /\ Answers("commit", "true")
           /\ UNCHANGED <<next, denied>>
  <2>1. answer' \in [op : Call, said : Said]
    BY <1>3 DEF Answers, Said, Call
  <2> QED
    BY <1>3, <2>1, EndKeeps DEF CallReaches, Flag
<1>4. CASE /\ CallReaches
           /\ server' = Ended(server, FALSE)
           /\ script' = Idle
           /\ Flag(FALSE)
           /\ waiting' = (kind = "pdo")
           /\ Answers("commit", "error")
           /\ UNCHANGED <<next, promised, denied>>
  <2>1. answer' \in [op : Call, said : Said]
    BY <1>4 DEF Answers, Said, Call
  <2> QED
    BY <1>4, <2>1, EndKeeps DEF CallReaches, Flag
<1> QED
  BY <1>1, <1>2, <1>3, <1>4 DEF Commit

(* rollback(). *)
LEMMA RollbackKeeps == ASSUME IInv, Rollback PROVE IInv'
<1> USE DEF IInv
<1>1. CASE CallLost("rollback", "false", FALSE)
  BY <1>1, LostKeeps DEF Call, Said
<1>2. CASE PdoRefuses("rollback")
  BY <1>2, RefusedKeeps DEF Call
<1>3. CASE /\ CallReaches
           /\ server' = Ended(server, FALSE)
           /\ script' = Idle
           /\ denied' = IF script.astray THEN denied ELSE denied \cup script.rows
           /\ Flag(TRUE)
           /\ waiting' = FALSE
           /\ Answers("rollback", "true")
           /\ UNCHANGED <<next, promised>>
  <2>1. answer' \in [op : Call, said : Said]
    BY <1>3 DEF Answers, Said, Call
  <2> QED
    BY <1>3, <2>1, EndKeeps DEF CallReaches, Flag
<1> QED
  BY <1>1, <1>2, <1>3 DEF Rollback

(* close() ends what is open. *)
LEMMA CloseKeeps == ASSUME IInv, Close PROVE IInv'
<1>1. answer' \in [op : Call, said : Said]
  BY DEF Close, Answers, Said, Call
<1>2. waiting' \in BOOLEAN /\ inTransaction' \in BOOLEAN
  BY DEF Close, IInv, TransactionsTypeOK
<1> QED
  BY <1>1, <1>2, EndKeeps DEF Close

(* inTransaction() and an exception of the script's own change nothing.    *)
LEMMA AsideKeeps == ASSUME IInv, Throws \/ InTransaction PROVE IInv'
<1> USE DEF IInv
<1>1. CASE CallLost("inTransaction", "false", inTransaction)
  BY <1>1, LostKeeps DEF Call, Said, TransactionsTypeOK
<1>2. ASSUME NEW op \in Call, NEW said \in Said, Answers(op, said),
             kind' = kind, handle' \in BOOLEAN, handle => handle',
             waiting' \in BOOLEAN, inTransaction' = inTransaction,
             UNCHANGED <<server, next, script, promised, denied>>
      PROVE  IInv'
  <2>1. answer' \in [op : Call, said : Said]
    BY <1>2 DEF Answers
  <2>2. inTransaction' \in BOOLEAN /\ (server.open => handle')
    BY <1>2 DEF TransactionsTypeOK, SessionSane
  <2> QED
    BY <1>2, <2>1, <2>2, NothingKeeps
<1>3. CASE Throws
  BY <1>2, <1>3 DEF Throws, TransactionsTypeOK, Call, Said
<1>4. CASE InTransaction
  BY <1>1, <1>2, <1>4 DEF InTransaction, CallReaches, TransactionsTypeOK, Call, Said
<1> QED
  BY <1>3, <1>4

(* Every statement of the script, run by RunSql or prepared by itself. *)
LEMMA StatementKeeps ==
    ASSUME IInv, \/ next <= MaxRows /\ Execute
                 \/ \E n \in 1 .. MaxBatch : next + n <= MaxRows + 1 /\ RunSql(n)
    PROVE  IInv'
<1> USE DEF IInv
<1>1. ASSUME NEW n \in Nat, next + n <= MaxRows + 1,
             NEW op \in Call, NEW said \in Said, Answers(op, said),
             kind' = kind, handle' = TRUE, waiting' \in BOOLEAN,
             \/ RowsStored(n)
             \/ \E i \in 0 .. n : RowsStopped(n, i)
      PROVE  IInv'
  <2>1. answer' \in [op : Call, said : Said]
    BY <1>1 DEF Answers
  <2> QED
    BY <1>1, <2>1, RowsStoredKeeps, RowsStoppedKeeps
<1>2. CASE next <= MaxRows /\ Execute
  <2>1. next + 1 <= MaxRows + 1 /\ 0 \in 0 .. 1 /\ waiting \in BOOLEAN
    BY <1>2, TransactionsAssumption DEF TransactionsTypeOK
  <2>2. handle' = TRUE /\ kind' = kind
    BY <1>2 DEF Execute, TransactionsTypeOK
  <2>3. waiting' \in BOOLEAN
    BY <1>2, <2>1 DEF Execute
  <2>4. \E said \in Said : Answers("execute", said)
    BY <1>2 DEF Execute, Said
  <2>5. RowsStored(1) \/ RowsStopped(1, 0)
    BY <1>2 DEF Execute
  <2> QED
    BY <1>1, <2>1, <2>2, <2>3, <2>4, <2>5 DEF Call
<1>3. ASSUME NEW n \in 1 .. MaxBatch, next + n <= MaxRows + 1, RunSql(n)
      PROVE  IInv'
  <2>1. n \in Nat /\ \A i \in 0 .. n - 1 : i \in 0 .. n
    BY TransactionsAssumption
  <2>2. CASE CallLost("runSql", IF kind = "pdo" THEN "null" ELSE "error",
                      inTransaction)
    BY <2>2, LostKeeps DEF Call, Said, TransactionsTypeOK
  <2>3. CASE CallReaches /\ RowsStored(n) /\ waiting' = FALSE
             /\ Answers("runSql", "ok")
    BY <1>1, <1>3, <2>1, <2>3 DEF Call, Said, CallReaches
  <2>4. CASE /\ CallReaches
             /\ \E i \in 0 .. n - 1 : RowsStopped(n, i)
             /\ waiting' = FALSE
             /\ Answers("runSql", "error")
    BY <1>1, <1>3, <2>1, <2>4 DEF Call, Said, CallReaches
  <2> QED
    BY <1>3, <2>2, <2>3, <2>4 DEF RunSql
<1> QED
  BY <1>2, <1>3

-----------------------------------------------------------------------------
(* importFromCSV() that stops on the way: the script's view is astray from *)
(* here on, until the transaction ends.                                    *)
LEMMA ImportStopsKeeps ==
    ASSUME IInv, NEW n \in Nat, next + n <= MaxRows + 1, ImportStops(n)
    PROVE  IInv'
<1> USE DEF IInv
<1>1. PICK i \in 0 .. n :
        \/ server' \in AfterError(Stored(Begun(server), Rows(i)))
        \/ server' = Stored(Begun(server), Rows(i))
  BY DEF ImportStops
<1>2. /\ Rows(i) \in SUBSET Row
      /\ Rows(i) \subseteq 1 .. next + n - 1
      /\ Rows(i) \cap (1 .. next - 1) = {}
      /\ 1 .. next - 1 \subseteq 1 .. next + n - 1
      /\ next + n \in 1 .. MaxRows + 1
  BY RowsAreFresh DEF TransactionsTypeOK
<1>3. Rows(n) \in SUBSET Row
  BY RowsAreFresh DEF TransactionsTypeOK
<1>4. /\ Begun(server) \in Session
      /\ Begun(server).open
      /\ Begun(server).pend = server.pend
      /\ Begun(server).done = server.done
  BY BegunSession DEF TransactionsTypeOK
<1>5. /\ Stored(Begun(server), Rows(i)) \in Session
      /\ Stored(Begun(server), Rows(i)).open
      /\ Stored(Begun(server), Rows(i)).pend \in {server.pend, server.pend \cup Rows(i)}
      /\ Stored(Begun(server), Rows(i)).done = server.done
  BY <1>2, <1>4, StoredSession, ZenonT(30)
<1>6. /\ server' \in Session
      /\ server'.open
      /\ server'.pend \in {server.pend, server.pend \cup Rows(i)}
      /\ server'.done = server.done
  BY <1>1, <1>5, AfterErrorSession
<1>7. /\ script' \in Unit
      /\ script'.open = script.open
      /\ script'.failed = script.failed
      /\ script'.astray
      /\ script'.rows = script.rows
  BY DEF ImportStops, TransactionsTypeOK, Unit
<1>8. /\ kind' = kind /\ handle' = TRUE /\ waiting' = FALSE
      /\ inTransaction' \in BOOLEAN
      /\ next' = next + n /\ promised' = promised /\ denied' = denied
  BY DEF ImportStops, ImportAnswers, CallReaches
<1>9. answer' \in [op : Call, said : Said]
  BY <1>3 DEF ImportStops, ImportAnswers, Call, Said
<1>10. TransactionsTypeOK'
  BY <1>2, <1>6, <1>7, <1>8, <1>9 DEF TransactionsTypeOK
<1>11. OpenIsMine'
  BY <1>7 DEF OpenIsMine
<1>12. Kept'
  BY <1>6, <1>8 DEF Kept
<1>13. /\ server.done \subseteq 1 .. next - 1
       /\ server.pend \subseteq 1 .. next - 1
       /\ script.rows \subseteq 1 .. next - 1
       /\ promised \subseteq 1 .. next - 1
       /\ denied \subseteq 1 .. next - 1
  BY DEF RowsKnown
<1>14. RowsKnown'
  <2>1. 1 .. next' - 1 = 1 .. next + n - 1
    BY <1>8 DEF TransactionsTypeOK
  <2>2. /\ server'.done \subseteq 1 .. next + n - 1
        /\ server'.pend \subseteq 1 .. next + n - 1
        /\ script'.rows \subseteq 1 .. next + n - 1
        /\ promised' \subseteq 1 .. next + n - 1
        /\ denied' \subseteq 1 .. next + n - 1
    BY <1>2, <1>6, <1>7, <1>8, <1>13
  <2> QED
    BY <2>1, <2>2 DEF RowsKnown
<1>15. Apart'
  BY <1>2, <1>6, <1>8, <1>13 DEF Apart
<1>16. SessionSane'
  BY <1>6, <1>7, <1>8 DEF SessionSane
<1> QED
  BY <1>10, <1>11, <1>12, <1>14, <1>15, <1>16

(* importFromCSV() that commits, or whose commit fails: no transaction is  *)
(* open, and a script inside a unit of its own has lost it.                *)
LEMMA ImportEndsKeeps ==
    ASSUME IInv, NEW n \in Nat, next + n <= MaxRows + 1,
           ImportEnds(n) \/ ImportNotCommitted(n)
    PROVE  IInv'
<1> USE DEF IInv
<1>1. /\ Rows(n) \in SUBSET Row
      /\ Rows(n) \subseteq 1 .. next + n - 1
      /\ Rows(n) \cap (1 .. next - 1) = {}
      /\ 1 .. next - 1 \subseteq 1 .. next + n - 1
      /\ next + n \in 1 .. MaxRows + 1
  BY RowsAreFresh DEF TransactionsTypeOK
<1>2. \A i \in 0 .. n : Rows(i) \subseteq Rows(n)
  BY DEF Rows, TransactionsTypeOK
<1>3. /\ server' \in Session
      /\ ~server'.open /\ ~server'.aborted /\ server'.pend = {}
      /\ server.done \subseteq server'.done
      /\ server'.done \subseteq server.done \cup server.pend \cup Rows(n)
      /\ \/ promised' = promised
         \/ /\ promised' = promised \cup Rows(n)
            /\ Rows(n) \subseteq server'.done
  <2>1. CASE ImportNotCommitted(n)
    <3>1. server' = Ended(server, FALSE) /\ promised' = promised
      BY <2>1 DEF ImportNotCommitted
    <3> QED
      BY <3>1, EndedSession DEF TransactionsTypeOK
  <2>2. CASE ImportEnds(n)
    <3>1. PICK i \in 0 .. n :
            /\ server' = Ended([Stored(Begun(server), Rows(i))
                                  EXCEPT !.aborted = @ \/ i < n], TRUE)
            /\ promised' = IF i < n \/ script.open \/ server.open
                           THEN promised ELSE promised \cup Rows(n)
      BY <2>2 DEF ImportEnds
    <3> DEFINE s == Stored(Begun(server), Rows(i))
               t == [s EXCEPT !.aborted = @ \/ i < n]
    <3>2. Rows(i) \in SUBSET Row
      BY <1>1, <1>2
    <3>3. /\ Begun(server) \in Session
          /\ Begun(server).open
          /\ Begun(server).aborted = server.aborted
          /\ Begun(server).pend = server.pend
          /\ Begun(server).done = server.done
      BY BegunSession DEF TransactionsTypeOK
    <3>4. /\ s \in Session
          /\ s.aborted = server.aborted
          /\ s.pend = IF server.aborted THEN server.pend
                                        ELSE server.pend \cup Rows(i)
          /\ s.done = server.done
      BY <3>2, <3>3, StoredSession, ZenonT(30)
    <3> HIDE DEF s
    <3>5. /\ t \in Session
          /\ t.aborted = (server.aborted \/ i < n)
          /\ t.pend = s.pend /\ t.done = s.done
      BY <3>4 DEF Session
    <3>6. server' = Ended(t, TRUE)
      BY <3>1 DEF s
    <3> HIDE DEF t
    <3>7. /\ server' \in Session
          /\ ~server'.open /\ ~server'.aborted /\ server'.pend = {}
          /\ server'.done = IF ~t.aborted THEN t.done \cup t.pend ELSE t.done
      BY <3>5, <3>6, EndedSession
    <3>8. i < n \/ i = n
      OBVIOUS
    <3>9. server.open \/ ~server.aborted
      BY DEF SessionSane
    <3> QED
      BY <1>2, <3>1, <3>4, <3>5, <3>7, <3>8, <3>9
  <2> QED
    BY <2>1, <2>2
<1>4. /\ script' \in Unit
      /\ script.open => /\ script'.open /\ script'.astray
                        /\ script'.rows = script.rows
      /\ ~script.open => ~script'.open /\ ~script'.failed /\ script'.rows = {}
  <2>1. script' = IF script.open THEN [script EXCEPT !.astray = TRUE] ELSE Idle
    BY DEF ImportEnds, ImportNotCommitted
  <2> QED
    BY <2>1, IdleUnit DEF TransactionsTypeOK, Unit
<1>5. /\ kind' = kind /\ handle' = TRUE /\ waiting' = FALSE
      /\ inTransaction' \in BOOLEAN
      /\ next' = next + n /\ denied' = denied
  BY DEF ImportEnds, ImportNotCommitted, ImportAnswers, CallReaches, Flag
<1>6. answer' \in [op : Call, said : Said]
  <2>1. PICK told \in Said :
           answer' = [op |-> "import", said |-> told]
    BY DEF ImportEnds, ImportNotCommitted, ImportAnswers, Said
  <2> QED
    BY <1>1, <2>1 DEF Call
<1>7. TransactionsTypeOK'
  BY <1>1, <1>3, <1>4, <1>5, <1>6 DEF TransactionsTypeOK
<1>8. OpenIsMine'
  BY <1>3, <1>4 DEF OpenIsMine, Session, Unit
<1>9. /\ server.done \subseteq 1 .. next - 1
      /\ server.pend \subseteq 1 .. next - 1
      /\ script.rows \subseteq 1 .. next - 1
      /\ promised \subseteq 1 .. next - 1
      /\ denied \subseteq 1 .. next - 1
  BY DEF RowsKnown
<1>10. Kept'
  BY <1>1, <1>3, <1>5, <1>9 DEF Kept, Apart
<1>11. RowsKnown'
  <2>1. 1 .. next' - 1 = 1 .. next + n - 1
    BY <1>5 DEF TransactionsTypeOK
  <2>2. /\ server'.done \subseteq 1 .. next + n - 1
        /\ server'.pend \subseteq 1 .. next + n - 1
        /\ script'.rows \subseteq 1 .. next + n - 1
        /\ promised' \subseteq 1 .. next + n - 1
        /\ denied' \subseteq 1 .. next + n - 1
    BY <1>1, <1>3, <1>4, <1>5, <1>9 DEF SessionSane
  <2> QED
    BY <2>1, <2>2 DEF RowsKnown
<1>12. Apart'
  BY <1>3 DEF Apart
<1>13. SessionSane'
  BY <1>3, <1>4, <1>5 DEF SessionSane, Unit
<1> QED
  BY <1>7, <1>8, <1>10, <1>11, <1>12, <1>13

(* Every way importFromCSV() can go. *)
LEMMA ImportKeeps ==
    ASSUME IInv, NEW n \in 1 .. MaxBatch, next + n <= MaxRows + 1, Import(n)
    PROVE  IInv'
<1> USE DEF IInv
<1>1. n \in Nat
  BY TransactionsAssumption
<1>2. CASE ImportLost \/ ImportRefused
  <2>1. answer' \in [op : Call, said : Said]
    <3>1. PICK told \in Said :
             answer' = [op |-> "import", said |-> told]
      BY <1>2 DEF ImportLost, ImportRefused, Answers, Said
    <3> QED
      BY <3>1 DEF Call
  <2>2. /\ kind' = kind /\ handle' \in BOOLEAN /\ waiting' \in BOOLEAN
        /\ inTransaction' \in BOOLEAN
        /\ server.open => handle'
    BY <1>2 DEF ImportLost, ImportRefused, CallReaches, TransactionsTypeOK, SessionSane
  <2>3. UNCHANGED <<server, next, script, promised, denied>>
    BY <1>2 DEF ImportLost, ImportRefused
  <2> QED
    BY <2>1, <2>2, <2>3, NothingKeeps
<1>3. CASE ImportStops(n)
  BY <1>1, <1>3, ImportStopsKeeps
<1>4. CASE ImportEnds(n) \/ ImportNotCommitted(n)
  BY <1>1, <1>4, ImportEndsKeeps
<1> QED
  BY <1>2, <1>3, <1>4 DEF Import

-----------------------------------------------------------------------------
(* The inductive invariant holds at first and every call keeps it. *)
LEMMA Invariance == TransactionsSpec => []IInv
<1>1. TransactionsInit => IInv
  <2> SUFFICES ASSUME TransactionsInit PROVE IInv
    OBVIOUS
  <2>1. TransactionsTypeOK
    <3>1. kind \in Kinds /\ next \in 1 .. MaxRows + 1
      BY TransactionsAssumption DEF TransactionsInit
    <3>2. server \in Session
      BY DEF TransactionsInit, Session
    <3>3. script \in Unit
      BY IdleUnit DEF TransactionsInit
    <3>4. answer \in [op : Call, said : Said]
      BY DEF TransactionsInit, Call, Said
    <3> QED
      BY <3>1, <3>2, <3>3, <3>4 DEF TransactionsInit, TransactionsTypeOK
  <2> QED
    BY <2>1 DEF TransactionsInit, IInv, OpenIsMine, Kept, RowsKnown, Apart, SessionSane, Idle
<1>2. IInv /\ [TransactionsNext]_transactionsVars => IInv'
  <2> SUFFICES ASSUME IInv, [TransactionsNext]_transactionsVars PROVE IInv'
    OBVIOUS
  <2>1. CASE UNCHANGED transactionsVars
    <3>1. TransactionsTypeOK' /\ OpenIsMine' /\ Kept'
      BY <2>1 DEF transactionsVars, IInv, TransactionsTypeOK, OpenIsMine, Kept
    <3>2. RowsKnown' /\ Apart' /\ SessionSane'
      BY <2>1 DEF transactionsVars, IInv, RowsKnown, Apart, SessionSane
    <3> QED
      BY <3>1, <3>2 DEF IInv
  <2>2. CASE TransactionsNext
    BY <2>2, BeginKeeps, CommitKeeps, RollbackKeeps, CloseKeeps, AsideKeeps,
       StatementKeeps, ImportKeeps DEF TransactionsNext
  <2> QED
    BY <2>1, <2>2
<1> QED
  BY <1>1, <1>2, PTL DEF TransactionsSpec

(* Type correctness of every reachable state. *)
THEOREM TypeCorrect == TransactionsSpec => []TransactionsTypeOK
BY Invariance, PTL DEF IInv

(* While no import is astray the open transaction is the script's, with    *)
(* exactly its rows.                                                       *)
THEOREM Mine == TransactionsSpec => []OpenIsMine
BY Invariance, PTL DEF IInv

(* What the script was told of its rows stays true. *)
THEOREM KeptForGood == TransactionsSpec => []Kept
BY Invariance, PTL DEF IInv
-----------------------------------------------------------------------------
(***************************************************************************)
(* For any services, closures and objects, and however deep closures nest: *)
(* defer_ct_ lags the activations in progress by four for every reset, so  *)
(* the limit holds until the first recursion error.  The activations in    *)
(* progress are a set of positions in the stack; a call adds the position  *)
(* on top and a return takes it away.                                      *)
(***************************************************************************)

ServicesIInv == ServicesTypeOK /\ CountDrift /\ deferCt <= 4

LEMMA ActivationFinite == ASSUME ServicesTypeOK
                          PROVE  IsFiniteSet(Activation) /\ Depth \in Nat
<1>1. Len(stack) \in Nat
  BY DEF ServicesTypeOK
<1>2. IsFiniteSet(1 .. Len(stack)) /\ Activation \subseteq 1 .. Len(stack)
  BY <1>1, FS_Interval DEF Activation
<1> QED
  BY <1>2, FS_Subset, FS_CardinalityType DEF Depth

LEMMA TopType == ASSUME ServicesTypeOK, stack # <<>>
                 PROVE  Len(stack) \in 1 .. Len(stack) /\ Top \in Frame
<1>1. stack \in Seq(Frame) /\ Len(stack) \in 1 .. Len(stack)
  BY DEF ServicesTypeOK
<1> QED
  BY <1>1 DEF Top

(* A call puts one frame on top. *)
LEMMA PushDepth ==
  ASSUME ServicesTypeOK, NEW n \in Name, NEW why \in Kind, Push(n, why)
  PROVE  /\ stack' \in Seq(Frame)
         /\ why # "direct" => Depth' = Depth + 1
         /\ why = "direct" => Depth' = Depth
<1> DEFINE top == Len(stack) + 1
<1>1. /\ [name |-> n, kind |-> why] \in Frame
      /\ stack \in Seq(Frame) /\ Len(stack) \in Nat
      /\ stack' = Append(stack, [name |-> n, kind |-> why])
  BY DEF Push, Frame, ServicesTypeOK
<1>2. /\ Len(stack') = top
      /\ \A i \in 1 .. Len(stack) : stack'[i] = stack[i]
      /\ stack'[top].kind = why
  BY <1>1
<1>3. why # "direct" => Activation' = Activation \cup {top} /\ top \notin Activation
  BY <1>1, <1>2 DEF Activation
<1>4. why = "direct" => Activation' = Activation
  BY <1>1, <1>2 DEF Activation
<1>5. stack' \in Seq(Frame)
  BY <1>1
<1> QED
  BY <1>3, <1>4, <1>5, ActivationFinite, FS_AddElement DEF Depth

(* A return takes the frame on top away. *)
LEMMA PopDepth ==
  ASSUME ServicesTypeOK, stack # <<>>, stack' = Below
  PROVE  /\ stack' \in Seq(Frame)
         /\ Top.kind # "direct" => Depth' = Depth - 1
         /\ Top.kind = "direct" => Depth' = Depth
<1>1. stack \in Seq(Frame) /\ Len(stack) \in Nat \ {0}
  BY DEF ServicesTypeOK
<1>2. /\ stack' \in Seq(Frame)
      /\ Len(stack') = Len(stack) - 1
      /\ \A i \in 1 .. Len(stack) - 1 : stack'[i] = stack[i]
  <2>1. /\ 1 \in Int /\ Len(stack) - 1 \in Int
        /\ \A i \in 1 .. Len(stack) - 1 : stack[i] \in Frame
    BY <1>1
  <2>2. /\ Below \in Seq(Frame)
        /\ Len(Below) = IF 1 <= Len(stack) - 1 THEN Len(stack) - 1 - 1 + 1 ELSE 0
        /\ \A i \in 1 .. Len(stack) - 1 - 1 + 1 : Below[i] = stack[1 + i - 1]
    BY <2>1, SubSeqProperties DEF Below
  <2>3. Len(stack') = Len(stack) - 1
    <3>1. Len(Below) = IF 1 <= Len(stack) - 1 THEN Len(stack) - 1 - 1 + 1 ELSE 0
      BY <2>2
    <3>2. \A n \in Nat \ {0} : (IF 1 <= n - 1 THEN n - 1 - 1 + 1 ELSE 0) = n - 1
      OBVIOUS
    <3> QED
      BY <1>1, <3>1, <3>2
  <2>4. \A i \in 1 .. Len(stack) - 1 : stack'[i] = stack[i]
    <3> SUFFICES ASSUME NEW i \in 1 .. Len(stack) - 1 PROVE stack'[i] = stack[i]
      OBVIOUS
    <3>1. i \in 1 .. Len(stack) - 1 - 1 + 1 /\ 1 + i - 1 = i
      BY <1>1
    <3> QED
      BY <2>2, <3>1
  <2> QED
    BY <2>2, <2>3, <2>4
<1>3. Activation' = Activation \ {Len(stack)}
  BY <1>1, <1>2 DEF Activation
<1>4. Top.kind # "direct" <=> Len(stack) \in Activation
  BY <1>1 DEF Top, Activation
<1>5. Len(stack) \notin Activation => Activation' = Activation
  BY <1>3
<1> QED
  BY <1>2, <1>3, <1>4, <1>5, ActivationFinite, FS_RemoveElement DEF Depth

(* The frame on top becomes that of the closure its own had returned. *)
LEMMA ReplaceDepth ==
  ASSUME ServicesTypeOK, NEW v, ReturnFactory(v)
  PROVE  stack' \in Seq(Frame) /\ Depth' = Depth
<1>1. stack \in Seq(Frame) /\ Len(stack) \in 1 .. Len(stack)
  BY DEF ServicesTypeOK, ReturnFactory
<1>2. Top \in Frame /\ Top.kind = "activate"
  BY <1>1 DEF Top, ReturnFactory
<1>3. stack' = [stack EXCEPT ![Len(stack)] = [Top EXCEPT !.kind = "result"]]
  BY <1>1 DEF ReturnFactory, Top
<1>4. [Top EXCEPT !.kind = "result"] \in Frame
  BY <1>2 DEF Frame, Kind
<1>5. stack' \in Seq(Frame) /\ Len(stack') = Len(stack)
  BY <1>1, <1>3, <1>4
<1>6. /\ \A i \in 1 .. Len(stack) : i # Len(stack) => stack'[i] = stack[i]
      /\ stack'[Len(stack)].kind = "result" /\ stack[Len(stack)].kind = "activate"
  BY <1>1, <1>2, <1>3 DEF Frame, Top
<1>7. Activation' = Activation
  BY <1>5, <1>6 DEF Activation
<1> QED
  BY <1>5, <1>7 DEF Depth

LEMMA Step == ServicesIInv /\ [ServicesNext]_servicesVars => ServicesIInv'
<1> SUFFICES ASSUME ServicesIInv, [ServicesNext]_servicesVars PROVE ServicesIInv'
  OBVIOUS
<1> USE DEF ServicesIInv
<1>1. /\ active \in [Name -> Entry \cup {Absent}]
      /\ defer \in [Name -> Entry \cup {Absent}]
      /\ instances \in [Class -> Value \cup {Null}]
      /\ throwFail \in BOOLEAN
      /\ deferCt \in Int /\ resets \in Nat
      /\ ret \in [ok : BOOLEAN, value : Entry]
      /\ Depth \in Nat
  BY ActivationFinite DEF ServicesTypeOK
<1>2. Error \in [ok : BOOLEAN, value : Entry]
      /\ \A v \in Entry : Gives(v) \in [ok : BOOLEAN, value : Entry]
  BY DEF Error, Gives, Entry
<1>3. Null \in Entry /\ Value \subseteq Entry /\ Factory \subseteq Entry
  BY DEF Entry
<1>4. UNCHANGED stack => stack' \in Seq(Frame) /\ Depth' = Depth
  BY DEF ServicesTypeOK, Depth, Activation
<1>5. CASE UNCHANGED servicesVars
  BY <1>5, <1>1, <1>4 DEF servicesVars, ServicesTypeOK, CountDrift
<1>6. ASSUME NEW n \in Name, GetActive(n) PROVE ServicesIInv'
  <2>1. stack' \in Seq(Frame) /\ Depth' = Depth
    BY <1>4, <1>6, PushDepth DEF GetActive, Kind
  <2>2. ret' \in [ok : BOOLEAN, value : Entry]
    BY <1>1, <1>2, <1>6 DEF GetActive
  <2> QED
    BY <1>1, <1>6, <2>1, <2>2 DEF GetActive, ServicesTypeOK, CountDrift, tables
<1>7. ASSUME NEW n \in Name, GetMissing(n) PROVE ServicesIInv'
  <2>1. ret' \in [ok : BOOLEAN, value : Entry]
    BY <1>2, <1>3, <1>7 DEF GetMissing
  <2> QED
    BY <1>1, <1>4, <1>7, <2>1 DEF GetMissing, ServicesTypeOK, CountDrift, tables, calls
<1>8. ASSUME NEW n \in Name, Recursed(n) PROVE ServicesIInv'
  <2>1. deferCt = 4 /\ deferCt' = 0 /\ resets' = resets + 1
    BY <1>1, <1>8 DEF Recursed, TooDeep
  <2> QED
    BY <1>1, <1>2, <1>4, <1>8, <2>1 DEF Recursed, ServicesTypeOK, CountDrift, tables
<1>9. ASSUME NEW n \in Name, Activate(n) PROVE ServicesIInv'
  <2>1. CASE defer[n] \in Factory
    <3>1. stack' \in Seq(Frame) /\ Depth' = Depth + 1
      BY <1>9, <2>1, PushDepth DEF Activate, Kind
    <3>2. deferCt' = deferCt + 1 /\ deferCt <= 3
      BY <1>1, <1>9, <2>1 DEF Activate, TooDeep
    <3> QED
      BY <1>1, <1>9, <2>1, <3>1, <3>2 DEF Activate, ServicesTypeOK, CountDrift, tables
  <2>2. CASE defer[n] \notin Factory
    <3>1. ret' \in [ok : BOOLEAN, value : Entry]
      BY <1>1, <1>2, <1>9, <2>2 DEF Activate
    <3> QED
      BY <1>1, <1>4, <1>9, <2>2, <3>1 DEF Activate, ServicesTypeOK, CountDrift, tables
  <2> QED
    BY <2>1, <2>2
<1>10. ASSUME NEW v \in Factory, ReturnFactory(v) PROVE ServicesIInv'
  <2>1. Top.name \in Name
    BY <1>10, TopType DEF ReturnFactory, Frame
  <2>2. active' \in [Name -> Entry \cup {Absent}]
    BY <1>1, <1>3, <1>10, <2>1 DEF ReturnFactory
  <2> QED
    BY <1>1, <1>10, <2>2, ReplaceDepth DEF ReturnFactory, ServicesTypeOK, CountDrift, tables
<1>11. ASSUME NEW r \in [ok : BOOLEAN, value : Entry], Return(r) PROVE ServicesIInv'
  <2>1. stack # <<>> /\ stack' = Below /\ ret' = r /\ UNCHANGED <<tables, resets>>
    BY <1>11 DEF Return, ReturnActivate, ReturnResult, ReturnDirect
  <2>2. active' \in [Name -> Entry \cup {Absent}]
    <3>1. Top.name \in Name
      BY <2>1, TopType DEF Frame
    <3> QED
      BY <1>1, <1>11, <3>1 DEF Return, ReturnActivate, ReturnResult, ReturnDirect
  <2>3. /\ Top.kind # "direct" => deferCt' = deferCt - 1
        /\ Top.kind = "direct" => deferCt' = deferCt
    BY <1>11 DEF Return, ReturnActivate, ReturnResult, ReturnDirect, Leaves
  <2>4. stack' \in Seq(Frame) /\ Depth' - deferCt' = Depth - deferCt
    BY <1>1, <2>1, <2>3, PopDepth
  <2>5. deferCt' \in Int /\ deferCt' <= 4
    BY <1>1, <2>3
  <2>6. ServicesTypeOK'
    BY <1>1, <2>1, <2>2, <2>4, <2>5 DEF ServicesTypeOK, tables
  <2>7. CountDrift'
    BY <1>1, <2>1, <2>3, PopDepth DEF CountDrift
  <2> QED
    BY <2>5, <2>6, <2>7
<1>12. ASSUME UNCHANGED calls,
              active' \in [Name -> Entry \cup {Absent}],
              defer' \in [Name -> Entry \cup {Absent}],
              instances' \in [Class -> Value \cup {Null}],
              throwFail' \in BOOLEAN,
              ret' \in [ok : BOOLEAN, value : Entry]
       PROVE  ServicesIInv'
  BY <1>1, <1>4, <1>12 DEF calls, ServicesTypeOK, CountDrift
<1>13. CASE \E n \in Name : Unset(n)
  BY <1>1, <1>12, <1>13 DEF Unset, tables
<1>14. CASE \E n \in Name, e \in Entry : Set(n, e)
  BY <1>1, <1>12, <1>14 DEF Set, tables
<1>15. CASE \E n \in Name, e \in Entry : SetDefer(n, e)
  BY <1>1, <1>12, <1>15 DEF SetDefer
<1>16. CASE \E b \in BOOLEAN : SetThrowFail(b)
  BY <1>1, <1>12, <1>16 DEF SetThrowFail
<1>17. CASE ClearActive \/ ClearDefer \/ ClearObjects
  BY <1>1, <1>12, <1>17 DEF ClearActive, ClearDefer, ClearObjects, tables
<1>18. CASE \E c \in Class, o \in Value : SetObject(c, o)
  BY <1>1, <1>2, <1>3, <1>12, <1>18 DEF SetObject
<1>19. CASE \E c \in Class : NewInstance(c)
  BY <1>1, <1>2, <1>3, <1>12, <1>19 DEF NewInstance, Object
<1>20. CASE \E c \in Class : GetOne(c)
  BY <1>1, <1>2, <1>3, <1>12, <1>20 DEF GetOne, tables
<1>21. CASE \E n \in Name, c \in Class : SingletonKnown(n, c)
  BY <1>1, <1>2, <1>3, <1>12, <1>21 DEF SingletonKnown, tables
<1>22. CASE \E n \in Name, c \in Class : SingletonActive(n, c)
  BY <1>1, <1>2, <1>3, <1>12, <1>22 DEF SingletonActive, Object
<1>23. CASE \E n \in Name, c \in Class : SingletonNew(n, c)
  BY <1>1, <1>2, <1>3, <1>12, <1>23 DEF SingletonNew, Object
<1> QED
  BY <1>2, <1>5, <1>6, <1>7, <1>8, <1>9, <1>10, <1>11, <1>13, <1>14, <1>15, <1>16,
     <1>17, <1>18, <1>19, <1>20, <1>21, <1>22, <1>23 DEF ServicesNext, Get, Singleton

LEMMA Inductive == ServicesSpec => []ServicesIInv
<1>1. ServicesInit => ServicesIInv
  <2> SUFFICES ASSUME ServicesInit PROVE ServicesIInv
    OBVIOUS
  <2>1. ServicesTypeOK
    <3>1. stack \in Seq(Frame) /\ Null \in Entry
      BY DEF ServicesInit, Entry
    <3>2. instances \in [Class -> Value \cup {Null}]
      BY DEF ServicesInit
    <3>3. active \in [Name -> Entry \cup {Absent}] /\ defer \in [Name -> Entry \cup {Absent}]
      BY DEF ServicesInit
    <3>4. ret \in [ok : BOOLEAN, value : Entry]
      BY <3>1 DEF ServicesInit, Gives
    <3>5. deferCt \in Int /\ resets \in Nat
      BY DEF ServicesInit
    <3>6. throwFail \in BOOLEAN
      BY DEF ServicesInit
    <3> QED
      BY <3>1, <3>2, <3>3, <3>4, <3>5, <3>6 DEF ServicesTypeOK
  <2>2. Activation = {}
    BY DEF ServicesInit, Activation
  <2> QED
    BY <2>1, <2>2, FS_EmptySet DEF ServicesInit, ServicesIInv, CountDrift, Depth
<1> QED
  BY <1>1, Step, PTL DEF ServicesSpec

(* The tables, the count and the stack of closures keep their types. *)
THEOREM ServicesTypeCorrect == ServicesSpec => []ServicesTypeOK
  BY Inductive, PTL DEF ServicesIInv

(* The count is four short for every recursion error there has been, and   *)
(* it never recovers.                                                      *)
THEOREM CountDriftAlways == ServicesSpec => []CountDrift
  BY Inductive, PTL DEF ServicesIInv

(* The limit of four nested activations holds until it has been met once.  *)
THEOREM LimitUntilFailureAlways == ServicesSpec => []LimitUntilFailure
<1>1. ServicesIInv => LimitUntilFailure
  BY ActivationFinite DEF ServicesIInv, ServicesTypeOK, CountDrift, LimitUntilFailure
<1> QED
  BY <1>1, Inductive, PTL
=============================================================================
