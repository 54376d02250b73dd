------------------------- MODULE CalibrationLedger -------------------------
(***************************************************************************)
(* The SQLite ledger of calibration/ledger.py: any number of clients, each *)
(* with at most one call of append, append_correction, verify_chain or     *)
(* effective_rows under way, on one database file.  A transaction of       *)
(* SQLite is one step; a call is several of them.                          *)
(*                                                                         *)
(* A row is its content: row_id is the hash of it; corrects holds the row  *)
(* it corrects, if any.  An entry's hash covers its row and the hash       *)
(* before it, so it is the sequence of the rows up to it.                  *)
(***************************************************************************)
EXTENDS Naturals, Sequences, SequencesExt, Functions

CONSTANTS Clients, None

VARIABLES schema,     \* of the file: absent, tables, stamped with its version
          log,        \* the entries, by sequence number
          call        \* what each client is doing

ledgerVars == <<schema, log, call>>

NoCall == [op |-> "none", step |-> "idle", row |-> None, seen |-> <<>>, last |-> <<>>]
LedgerInit ==
  /\ schema = "absent"
  /\ log = <<>>
  /\ call = [c \in Clients |-> NoCall]

EntryHash(entry) == Append(entry.previous, entry.row)
Terminal(entries) == IF entries = <<>> THEN <<>> ELSE EntryHash(entries[Len(entries)])
RowsOf(entries) == [i \in DOMAIN entries |-> entries[i].row]
Ids(entries) == ToSet(RowsOf(entries))

SameProp(row, other) == row.match = other.match /\ row.prop = other.prop

\* The checks of read on one entry.  The original must be among the rows
\* before it and have the same match and prop.
Linked(entries, i) ==
  entries[i].previous = (IF i = 1 THEN <<>> ELSE EntryHash(entries[i - 1]))
Follows(entries, i) ==
  LET row == entries[i].row
  IN  row.corrects # <<>> =>
        /\ \E j \in 1..(i - 1) : entries[j].row = row.corrects[1]
        /\ SameProp(row, row.corrects[1])
Verifies(entries) ==
  \A i \in DOMAIN entries : Linked(entries, i) /\ Follows(entries, i)

\* effective_rows: one pass that keeps the root of every row and the last
\* row of every root.
\* Fault: a correction of a correction starts a lineage of its own.
RootOfOriginal(roots, row) == IF row.corrects = <<>> THEN row ELSE row.corrects[1]
RootOf(roots, row) == IF row.corrects = <<>> THEN row ELSE roots[row.corrects[1]]
Effective(entries) ==
  LET Pass[n \in 0..Len(entries)] ==
        IF n = 0 THEN [root |-> <<>>, active |-> <<>>]
        ELSE LET before == Pass[n - 1]
                 row == entries[n].row
                 root == RootOf(before.root, row)
             IN  [root |-> [r \in DOMAIN before.root \cup {row} |->
                              IF r = row THEN root ELSE before.root[r]],
                  active |-> [r \in DOMAIN before.active \cup {root} |->
                                IF r = root THEN row ELSE before.active[r]]]
  IN  Range(Pass[Len(entries)].active)

-----------------------------------------------------------------------------
Body(op) == CASE op = "append"   -> "insert"
              [] op = "terminal" -> "last"
              [] OTHER           -> "select"

NewCall(op, row) ==
  [op |-> op, step |-> IF op = "append" THEN "schema" ELSE "exists",
   row |-> row, seen |-> <<>>, last |-> <<>>]

\* read and verify_chain look at path.exists first; append connects.
Begin(c, op, row) ==
  /\ call[c].step = "idle"
  /\ call' = [call EXCEPT ![c] = NewCall(op, row)]
  /\ UNCHANGED <<schema, log>>

Finish(c, step) == call' = [call EXCEPT ![c].step = step]

\* append_correction looks for its original among the rows it has read.
\* Fault: the original may be of another prop.
OriginalThere(row, entries) == row.corrects[1] \in Ids(entries)
CorrectionFits(row, entries) ==
  row.corrects[1] \in Ids(entries) /\ SameProp(row, row.corrects[1])

\* What each call does once it has read and verified the rows.
AfterRead(c, entries) ==
  CASE call[c].op = "correct" ->
         IF CorrectionFits(call[c].row, entries)
         THEN call' = [call EXCEPT ![c] = NewCall("append", call[c].row)]
         ELSE Finish(c, "failed")
    [] call[c].op = "verify" ->
         call' = [call EXCEPT ![c] = [NewCall("terminal", None) EXCEPT !.seen = entries]]
    [] call[c].op = "effective" -> Finish(c, "returned")

\* Once there, the file stays: the first look at it and the connection are
\* one step when it exists.
NoFile(c) ==
  /\ call[c].step = "exists" /\ schema = "absent"
  /\ IF call[c].op = "terminal" THEN Finish(c, "returned") ELSE AfterRead(c, <<>>)
  /\ UNCHANGED <<schema, log>>

\* _ensure_schema: create what is missing and select the version ...
EnsureSchema(c) ==
  /\ \/ call[c].step = "schema"
     \/ call[c].step = "exists" /\ schema # "absent"
  /\ IF schema = "stamped"
     THEN Finish(c, Body(call[c].op)) /\ UNCHANGED schema
     ELSE schema' = "tables" /\ Finish(c, "stamp")
  /\ UNCHANGED log

\* ... then insert it, in another transaction: a second insert violates the
\* primary key.
StampSchema(c) ==
  /\ call[c].step = "stamp"
  /\ IF schema = "stamped" THEN Finish(c, "failed") ELSE Finish(c, Body(call[c].op))
  /\ schema' = "stamped"
  /\ UNCHANGED log

\* Fault: the row is inserted without looking for its row_id.
InsertAnyRow(c) ==
  /\ call[c].step = "insert"
  /\ log' = Append(log, [row |-> call[c].row, previous |-> Terminal(log)])
  /\ Finish(c, "returned")
  /\ UNCHANGED schema

\* BEGIN IMMEDIATE ... COMMIT in append
InsertRow(c) ==
  /\ call[c].step = "insert"
  /\ IF call[c].row \in Ids(log)
     THEN Finish(c, "failed") /\ UNCHANGED log
     ELSE /\ log' = Append(log, [row |-> call[c].row, previous |-> Terminal(log)])
          /\ Finish(c, "returned")
  /\ UNCHANGED schema

\* The SELECT of read and the checks on what it returned.
SelectRows(c) ==
  /\ call[c].step = "select"
  /\ IF Verifies(log) THEN AfterRead(c, log) ELSE Finish(c, "failed")
  /\ UNCHANGED <<schema, log>>

\* The SELECT of the last digest in verify_chain.
SelectLast(c) ==
  /\ call[c].step = "last"
  /\ call' = [call EXCEPT ![c] =
       [op |-> "terminal", step |-> "returned", row |-> None,
        seen |-> @.seen, last |-> Terminal(log)]]
  /\ UNCHANGED <<schema, log>>

\* sqlite3.Error in any transaction: locked too long, disk full, ...
SqliteError(c) ==
  /\ call[c].step \in {"schema", "stamp", "insert", "select", "last"}
  /\ Finish(c, "failed")
  /\ UNCHANGED <<schema, log>>

LedgerStep(c) ==
  \/ NoFile(c) \/ EnsureSchema(c) \/ StampSchema(c) \/ InsertRow(c)
  \/ SelectRows(c) \/ SelectLast(c)

Ended(c) == call[c].step \in {"returned", "failed"}

-----------------------------------------------------------------------------
Steps == {"idle", "exists", "schema", "stamp", "insert", "select", "last",
          "returned", "failed"}
LedgerTypeOK ==
  /\ schema \in {"absent", "tables", "stamped"}
  /\ DOMAIN call = Clients
  /\ \A c \in Clients : call[c].step \in Steps
  /\ \A i \in DOMAIN log : DOMAIN log[i] = {"row", "previous"}
  /\ log # <<>> => schema = "stamped"

\* What is appended can always be read again: the chain holds together and
\* every correction follows a row of its match and prop, whatever clients
\* read before they appended (read and append_correction).
LedgerReads == Verifies(log)

\* effective_rows keeps, of every row that corrects nothing and everything
\* that corrects it, directly or not, the one appended last.
EffectiveIsLatest ==
  LET Original[x \in Ids(log)] ==
        IF x.corrects = <<>> THEN x ELSE Original[x.corrects[1]]
  IN  Effective(log) =
        {log[i].row : i \in {i \in DOMAIN log : \A j \in (i + 1)..Len(log) :
           Original[log[j].row] # Original[log[i].row]}}

\* verify_chain: "Verify the entire chain and return the digest that reports
\* must anchor" - the digest is the one of the rows that were verified.
DigestOfVerifiedRows ==
  \A c \in Clients : call[c].op = "terminal" /\ call[c].step = "returned" =>
    call[c].last = Terminal(call[c].seen)
=============================================================================
