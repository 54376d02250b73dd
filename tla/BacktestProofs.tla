--------------------------- MODULE BacktestProofs ---------------------------
(***************************************************************************)
(* Theorems about RollingBacktest and the CalibrationLedger under it, for  *)
(* any runs, cohorts, operators, readers, errors and kills.  LedgerInv     *)
(* says what the log and the calls in progress are; LockInv ties every     *)
(* outcome a run has seen, or may see next, to its own lock.  RecordInv    *)
(* ties the rows in the log to the runs whose locks they are under, and    *)
(* each manifest to what its run has done.                                 *)
(***************************************************************************)
EXTENDS RollingBacktest, SequenceTheorems, FiniteSetTheorems, WellFoundedInduction, TLAPS

\* The row of an append in progress may be inserted at any time.
Sound(row, entries) == row.corrects = <<>> \/ CorrectionFits(row, entries)

Reads == {"correct", "verify", "effective"}
CallOf(k) == [op |-> k.op, step |-> k.step, row |-> k.row, seen |-> k.seen, last |-> k.last]
CallInv(k, entries) ==
  /\ k = CallOf(k)
  /\ k.step = "insert" => k.op = "append"
  /\ k.step = "select" => k.op \in Reads
  /\ k.step = "exists" => k.op \in Reads \cup {"terminal"}
  /\ k.step \in {"schema", "stamp"} => k.op \in Reads \cup {"append", "terminal"}
  /\ k.op = "append" => Sound(k.row, entries)

LedgerInv ==
  /\ log \in Seq(Range(log))
  /\ call = [c \in Clients |-> call[c]]
  /\ \A c \in Clients : CallInv(call[c], log)
  /\ Verifies(log)

-----------------------------------------------------------------------------
(* Sequences and the ids in them. *)

LEMMA Appending ==
  ASSUME NEW s, s \in Seq(Range(s)), NEW e
  PROVE  /\ Append(s, e) \in Seq(Range(Append(s, e)))
         /\ Len(s) \in Nat /\ Len(Append(s, e)) = Len(s) + 1
         /\ DOMAIN s = 1..Len(s) /\ DOMAIN Append(s, e) = 1..(Len(s) + 1)
         /\ \A i \in 1..Len(s) : Append(s, e)[i] = s[i]
         /\ Append(s, e)[Len(s) + 1] = e
<1> DEFINE S == Range(s) \cup {e}
<1>1. s \in Seq(S)
  <2>1. Len(s) \in Nat /\ DOMAIN s = 1..Len(s) /\ s = [i \in 1..Len(s) |-> s[i]] OBVIOUS
  <2>2. \A i \in 1..Len(s) : s[i] \in S BY <2>1 DEF Range
  <2> HIDE DEF S
  <2> QED BY <2>1, <2>2
<1>2. e \in S OBVIOUS
<1> HIDE DEF S
<1>3. /\ Append(s, e) \in Seq(S) /\ Len(s) \in Nat /\ Len(Append(s, e)) = Len(s) + 1
      /\ DOMAIN s = 1..Len(s) /\ DOMAIN Append(s, e) = 1..(Len(s) + 1)
      /\ \A i \in 1..Len(s) : Append(s, e)[i] = s[i]
      /\ Append(s, e)[Len(s) + 1] = e
  BY <1>1, <1>2
<1>4. Append(s, e) \in Seq(Range(Append(s, e))) BY <1>3, SeqOfRange
<1> QED BY <1>3, <1>4

LEMMA IdsOfSequence ==
  ASSUME NEW s, s \in Seq(Range(s))
  PROVE  Ids(s) = {s[i].row : i \in 1..Len(s)}
<1>1. DOMAIN s = 1..Len(s) OBVIOUS
<1> QED BY <1>1 DEF Ids, RowsOf, ToSet

LEMMA IdsGrow ==
  ASSUME NEW s, s \in Seq(Range(s)), NEW e
  PROVE  Ids(Append(s, e)) = Ids(s) \cup {e.row}
<1> DEFINE t == Append(s, e)
<1>1. /\ t \in Seq(Range(t)) /\ Len(t) = Len(s) + 1 /\ Len(s) \in Nat
      /\ \A i \in 1..Len(s) : t[i] = s[i]
      /\ t[Len(s) + 1] = e
  BY Appending
<1>2. Ids(s) = {s[i].row : i \in 1..Len(s)} BY IdsOfSequence
<1>3. Ids(t) = {t[i].row : i \in 1..Len(t)}
  <2> HIDE DEF t
  <2> QED BY <1>1, IdsOfSequence
<1> HIDE DEF t
<1>4. Ids(t) = Ids(s) \cup {e.row}
  <2>1. ASSUME NEW x \in Ids(t) PROVE x \in Ids(s) \cup {e.row}
    <3>1. PICK i \in 1..Len(t) : x = t[i].row BY <1>3, <2>1
    <3>2. CASE i \in 1..Len(s) BY <3>1, <3>2, <1>1, <1>2
    <3>3. CASE i = Len(s) + 1 BY <3>1, <3>3, <1>1
    <3> QED BY <3>2, <3>3, <1>1
  <2>2. ASSUME NEW x \in Ids(s) \cup {e.row} PROVE x \in Ids(t)
    <3>1. CASE x \in Ids(s)
      <4>1. PICK i \in 1..Len(s) : x = s[i].row BY <1>2, <3>1
      <4> QED BY <4>1, <1>1, <1>3
    <3>2. CASE x = e.row
      <4>1. Len(s) + 1 \in 1..Len(t) BY <1>1
      <4> QED BY <4>1, <3>2, <1>1, <1>3
    <3> QED BY <3>1, <3>2
  <2> QED BY <2>1, <2>2
<1> QED BY <1>4 DEF t

\* A sound row appended under the last hash leaves a log that verifies.
LEMMA SoundAppendVerifies ==
  ASSUME NEW s, s \in Seq(Range(s)), Verifies(s), NEW row, Sound(row, s)
  PROVE  Verifies(Append(s, [row |-> row, previous |-> Terminal(s)]))
<1> DEFINE e == [row |-> row, previous |-> Terminal(s)]
           t == Append(s, e)
<1>1. /\ DOMAIN s = 1..Len(s) /\ Len(s) \in Nat /\ DOMAIN t = 1..(Len(s) + 1)
      /\ \A i \in 1..Len(s) : t[i] = s[i]
      /\ t[Len(s) + 1] = e
  BY Appending
<1>e. e.row = row /\ e.previous = Terminal(s) OBVIOUS
<1>s. s = <<>> <=> Len(s) = 0 OBVIOUS
<1> HIDE DEF t, e
<1>2. ASSUME NEW i \in 1..Len(s) PROVE Linked(t, i) /\ Follows(t, i)
  <2>1. Linked(s, i) /\ Follows(s, i) BY <1>1 DEF Verifies
  <2>2. t[i] = s[i] /\ (i # 1 => t[i - 1] = s[i - 1]) BY <1>1
  <2>3. Linked(t, i) BY <2>1, <2>2 DEF Linked
  <2>4. \A j \in 1..(i - 1) : t[j] = s[j] BY <1>1
  <2>5. Follows(t, i) BY <2>1, <2>2, <2>4 DEF Follows
  <2> QED BY <2>3, <2>5
<1>3. Linked(t, Len(s) + 1)
  <2>1. CASE Len(s) = 0
    <3>1. t[1].previous = <<>> BY <2>1, <1>1, <1>e, <1>s DEF Terminal
    <3> QED BY <3>1, <2>1 DEF Linked
  <2>2. CASE Len(s) # 0
    <3>1. t[Len(s) + 1].previous = EntryHash(s[Len(s)])
      BY <2>2, <1>1, <1>e, <1>s DEF Terminal
    <3>2. t[(Len(s) + 1) - 1] = s[Len(s)] /\ Len(s) + 1 # 1 BY <2>2, <1>1
    <3> QED BY <3>1, <3>2 DEF Linked
  <2> QED BY <2>1, <2>2
<1>4. Follows(t, Len(s) + 1)
  <2>1. SUFFICES ASSUME row.corrects # <<>>
                 PROVE  /\ \E j \in 1..Len(s) : t[j].row = row.corrects[1]
                        /\ SameProp(row, row.corrects[1])
    BY <1>1, <1>e DEF Follows
  <2>2. row.corrects[1] \in Ids(s) /\ SameProp(row, row.corrects[1])
    BY <2>1 DEF Sound, CorrectionFits
  <2>3. PICK j \in 1..Len(s) : s[j].row = row.corrects[1] BY <2>2, IdsOfSequence
  <2> QED BY <2>2, <2>3, <1>1
<1>5. Verifies(t)
  <2>1. \A i \in DOMAIN t : i \in 1..Len(s) \/ i = Len(s) + 1 BY <1>1
  <2> QED BY <2>1, <1>2, <1>3, <1>4 DEF Verifies
<1> QED BY <1>5 DEF t, e

LEMMA SoundGrows ==
  ASSUME NEW s, s \in Seq(Range(s)), NEW e, NEW row, Sound(row, s)
  PROVE  Sound(row, Append(s, e))
  BY IdsGrow DEF Sound, CorrectionFits

LEMMA InitLedgerInv == LedgerInit => LedgerInv
<1> SUFFICES ASSUME LedgerInit PROVE LedgerInv OBVIOUS
<1>1. log \in Seq(Range(log)) BY DEF LedgerInit
<1>2. call = [c \in Clients |-> call[c]] /\ \A c \in Clients : CallInv(call[c], log)
  BY DEF LedgerInit, CallInv, CallOf, NoCall
<1>3. Verifies(log) BY DEF LedgerInit, Verifies
<1> QED BY <1>1, <1>2, <1>3 DEF LedgerInv

\* A client whose call moves on while the log stays.
LEMMA CallMoves ==
  ASSUME LedgerInv, UNCHANGED log, NEW c \in Clients, NEW k,
         call' = [call EXCEPT ![c] = k], CallInv(k, log)
  PROVE  LedgerInv'
<1>1. call' = [d \in Clients |-> call'[d]] BY DEF LedgerInv
<1>2. \A d \in Clients : CallInv(call'[d], log) BY DEF LedgerInv
<1> QED BY <1>1, <1>2 DEF LedgerInv

\* A call whose step changes, spelled out.
LEMMA FieldsOfCall ==
  ASSUME NEW k, k = CallOf(k), NEW step
  PROVE  [k EXCEPT !.step = step] =
           [op |-> k.op, step |-> step, row |-> k.row, seen |-> k.seen, last |-> k.last]
<1>1. PICK a, b, c, d, e :
        k = [op |-> a, step |-> b, row |-> c, seen |-> d, last |-> e]
  BY DEF CallOf
<1>2. a = k.op /\ b = k.step /\ c = k.row /\ d = k.seen /\ e = k.last BY <1>1
<1>3. [k EXCEPT !.step = step] =
        [op |-> a, step |-> step, row |-> c, seen |-> d, last |-> e]
  BY <1>1
<1> QED BY <1>2, <1>3

LEMMA ExplicitCall ==
  ASSUME NEW op, NEW step, NEW row, NEW seen, NEW last, NEW entries,
         step = "insert" => op = "append",
         step = "select" => op \in Reads,
         step = "exists" => op \in Reads \cup {"terminal"},
         step \in {"schema", "stamp"} => op \in Reads \cup {"append", "terminal"},
         op = "append" => Sound(row, entries)
  PROVE  CallInv([op |-> op, step |-> step, row |-> row, seen |-> seen, last |-> last],
                 entries)
  BY DEF CallInv, CallOf

LEMMA FreshCall ==
  ASSUME NEW op \in Reads \cup {"append"}, NEW row, NEW entries,
         op = "append" => row.corrects = <<>>
  PROVE  CallInv(NewCall(op, row), entries)
<1> DEFINE step == IF op = "append" THEN "schema" ELSE "exists"
<1>1. NewCall(op, row) = [op |-> op, step |-> step, row |-> row, seen |-> <<>>, last |-> <<>>]
  BY DEF NewCall
<1>2. op = "append" => Sound(row, entries) BY DEF Sound
<1>3. step \in {"schema", "exists"} /\ (step = "exists" => op \in Reads) OBVIOUS
<1> HIDE DEF step
<1> QED BY <1>1, <1>2, <1>3, ExplicitCall

LEMMA IdleCall == ASSUME NEW entries PROVE CallInv(NoCall, entries)
  BY DEF CallInv, CallOf, NoCall, Reads

LEMMA StepMoves ==
  ASSUME LedgerInv, UNCHANGED log, NEW c \in Clients, NEW step, Finish(c, step),
         step \in {"returned", "failed", "stamp", "last"} \/ step = Body(call[c].op),
         step = "stamp" => call[c].op \in Reads \cup {"append", "terminal"},
         step = Body(call[c].op) => call[c].op \in Reads \cup {"append", "terminal"}
  PROVE  LedgerInv'
<1> DEFINE k == [call[c] EXCEPT !.step = step]
<1>1. call' = [call EXCEPT ![c] = k] BY DEF Finish
<1>2. CallInv(call[c], log) BY DEF LedgerInv
<1>3. CallInv(k, log) BY <1>2 DEF CallInv, CallOf, Body, Reads
<1> QED BY <1>1, <1>3, CallMoves

LEMMA ReadMoves ==
  ASSUME LedgerInv, UNCHANGED log, NEW c \in Clients, call[c].op \in Reads,
         NEW entries \in {log, <<>>}, AfterRead(c, entries)
  PROVE  LedgerInv'
<1>1. CallInv(call[c], log) BY DEF LedgerInv
<1>2. CASE call[c].op = "correct"
  <2>1. CASE CorrectionFits(call[c].row, entries)
    <3> DEFINE k == NewCall("append", call[c].row)
    <3>1. call' = [call EXCEPT ![c] = k] BY <1>1, <1>2, <2>1 DEF AfterRead, LedgerInv
    <3>2. Sound(call[c].row, log)
      <4>1. entries = log \/ Ids(entries) = {} BY DEF Ids, RowsOf, ToSet
      <4> QED BY <2>1, <4>1 DEF Sound, CorrectionFits
    <3>3. k = [op |-> "append", step |-> "schema", row |-> call[c].row,
               seen |-> <<>>, last |-> <<>>]
      BY DEF NewCall
    <3>4. CallInv(k, log) BY <3>2, <3>3, ExplicitCall
    <3> QED BY <3>1, <3>4, CallMoves
  <2>2. CASE ~CorrectionFits(call[c].row, entries)
    <3>1. Finish(c, "failed") BY <1>2, <2>2 DEF AfterRead
    <3> QED BY <3>1, <1>2, StepMoves DEF Reads, Body
  <2> QED BY <2>1, <2>2
<1>3. CASE call[c].op = "verify"
  <2> DEFINE k == [NewCall("terminal", None) EXCEPT !.seen = entries]
  <2>1. call' = [call EXCEPT ![c] = k] BY <1>1, <1>3 DEF AfterRead, LedgerInv
  <2>2. k = [op |-> "terminal", step |-> "exists", row |-> None,
             seen |-> entries, last |-> <<>>]
    BY DEF NewCall
  <2>3. CallInv(k, log) BY <2>2, ExplicitCall
  <2> QED BY <2>1, <2>3, CallMoves
<1>4. CASE call[c].op = "effective"
  <2>1. Finish(c, "returned") BY <1>4 DEF AfterRead
  <2> QED BY <2>1, <1>4, StepMoves DEF Reads, Body
<1> QED BY <1>2, <1>3, <1>4 DEF Reads

\* The insert is the one step that changes the log.
LEMMA InsertMoves ==
  ASSUME LedgerInv, NEW c \in Clients, InsertRow(c)
  PROVE  LedgerInv'
<1>1. call[c].step = "insert" BY DEF InsertRow
<1>2. call[c].op = "append" /\ Sound(call[c].row, log) BY <1>1 DEF LedgerInv, CallInv
<1>3. CASE call[c].row \in Ids(log)
  <2>1. Finish(c, "failed") /\ UNCHANGED log BY <1>3 DEF InsertRow
  <2> QED BY <2>1, <1>2, StepMoves DEF Reads
<1>4. CASE call[c].row \notin Ids(log)
  <2> DEFINE e == [row |-> call[c].row, previous |-> Terminal(log)]
             k == [call[c] EXCEPT !.step = "returned"]
  <2>1. log' = Append(log, e) /\ call' = [call EXCEPT ![c] = k]
    BY <1>4 DEF InsertRow, Finish
  <2>2. log' \in Seq(Range(log')) BY <2>1, Appending DEF LedgerInv
  <2>3. Verifies(log') BY <2>1, <1>2, SoundAppendVerifies DEF LedgerInv
  <2>4. call' = [d \in Clients |-> call'[d]] BY <2>1 DEF LedgerInv
  <2>5. \A d \in Clients : CallInv(call[d], log')
    <3>1. \A row : Sound(row, log) => Sound(row, log')
      <4> HIDE DEF e
      <4> QED BY <2>1, SoundGrows DEF LedgerInv
    <3> QED BY <3>1 DEF LedgerInv, CallInv
  <2>6. CallInv(k, log')
    <3>1. k = [op |-> call[c].op, step |-> "returned", row |-> call[c].row,
               seen |-> call[c].seen, last |-> call[c].last]
      BY <2>5, FieldsOfCall DEF CallInv
    <3>2. call[c].op = "append" => Sound(call[c].row, log') BY <2>5 DEF CallInv
    <3> QED BY <3>1, <3>2, ExplicitCall
  <2>7. \A d \in Clients : CallInv(call'[d], log')
    <3> HIDE DEF k, e
    <3> QED BY <2>1, <2>5, <2>6 DEF LedgerInv
  <2> QED BY <2>2, <2>3, <2>4, <2>7 DEF LedgerInv
<1> QED BY <1>3, <1>4

LEMMA LedgerStepInv ==
  ASSUME LedgerInv, NEW c \in Clients, LedgerStep(c) \/ SqliteError(c)
  PROVE  LedgerInv'
<1>0. CallInv(call[c], log) BY DEF LedgerInv
<1>1. CASE NoFile(c)
  <2>1. CASE call[c].op = "terminal"
    BY <1>1, <2>1, StepMoves DEF NoFile, Reads, Body
  <2>2. CASE call[c].op # "terminal"
    BY <1>0, <1>1, <2>2, ReadMoves DEF NoFile, CallInv
  <2> QED BY <2>1, <2>2
<1>2. CASE EnsureSchema(c)
  <2>1. call[c].op \in Reads \cup {"append", "terminal"}
    BY <1>0, <1>2 DEF EnsureSchema, CallInv
  <2> QED BY <1>2, <2>1, StepMoves DEF EnsureSchema
<1>3. CASE StampSchema(c)
  <2>1. call[c].op \in Reads \cup {"append", "terminal"}
    BY <1>0, <1>3 DEF StampSchema, CallInv
  <2> QED BY <1>3, <2>1, StepMoves DEF StampSchema
<1>4. CASE InsertRow(c) BY <1>4, InsertMoves
<1>5. CASE SelectRows(c)
  <2>1. call[c].op \in Reads BY <1>0, <1>5 DEF SelectRows, CallInv
  <2>2. AfterRead(c, log) /\ UNCHANGED log BY <1>5 DEF SelectRows, LedgerInv
  <2> QED BY <2>1, <2>2, ReadMoves
<1>6. CASE SelectLast(c)
  <2> DEFINE k == [op |-> "terminal", step |-> "returned", row |-> None,
                   seen |-> call[c].seen, last |-> Terminal(log)]
  <2>1. call' = [call EXCEPT ![c] = k] /\ UNCHANGED log
    BY <1>6 DEF SelectLast, LedgerInv
  <2>2. CallInv(k, log) BY ExplicitCall
  <2> QED BY <2>1, <2>2, CallMoves
<1>7. CASE SqliteError(c)
  <2>1. UNCHANGED log /\ call' = [call EXCEPT ![c] = [call[c] EXCEPT !.step = "failed"]]
    BY <1>7 DEF SqliteError, Finish
  <2>2. CallInv([call[c] EXCEPT !.step = "failed"], log) BY <1>0 DEF CallInv, CallOf
  <2> QED BY <2>1, <2>2, CallMoves
<1> QED BY <1>1, <1>2, <1>3, <1>4, <1>5, <1>6, <1>7 DEF LedgerStep
-----------------------------------------------------------------------------
(* The ledger under every step of the backtest. *)

SetupInv == setup \in SetupChoices

LEMMA IdleMoves ==
  ASSUME LedgerInv, UNCHANGED log, NEW c \in Clients,
         call' = [call EXCEPT ![c] = NoCall]
  PROVE  LedgerInv'
  BY IdleCall, CallMoves

LEMMA FreshMoves ==
  ASSUME LedgerInv, UNCHANGED log, NEW c \in Clients,
         NEW op \in Reads \cup {"append"}, NEW row,
         op = "append" => row.corrects = <<>>,
         call' = [call EXCEPT ![c] = NewCall(op, row)]
  PROVE  LedgerInv'
<1>1. CallInv(NewCall(op, row), log) BY FreshCall
<1> QED BY <1>1, CallMoves

LEMMA LedgerUnderNext ==
  ASSUME LedgerInv, SetupInv, BacktestAssumption, [Next]_vars
  PROVE  LedgerInv'
<1>1. ASSUME UNCHANGED ledgerVars PROVE LedgerInv'
  BY <1>1 DEF LedgerInv, ledgerVars, CallInv, CallOf, Sound, CorrectionFits, Ids, RowsOf,
     Verifies, Linked, Follows, EntryHash
<1>2. CASE UNCHANGED vars BY <1>1, <1>2 DEF vars
<1>3. ASSUME NEW r \in Runs, Run(r) PROVE LedgerInv'
  <2>0. r \in Clients BY DEF BacktestAssumption
  <2>1. \A m, p : SettledRow(r, m, p).corrects = <<>> BY DEF SettledRow
  <2>2. ASSUME NEW reason, SkipTarget(r, reason) PROVE LedgerInv'
    BY <1>1, <2>2 DEF SkipTarget
  <2>3. CASE LockTarget(r) BY <1>1, <2>3 DEF LockTarget
  <2>4. CASE LockRefused(r) BY <1>1, <2>4 DEF LockRefused
  <2>5. CASE RevealOutcome(r)
    <3>1. /\ call' = [call EXCEPT ![r] = NewCall("append", SettledRow(r, Match(r), Props[1]))]
          /\ UNCHANGED log
      BY <2>5 DEF RevealOutcome, Begin
    <3> QED BY <2>0, <2>1, <3>1, FreshMoves
  <2>6. CASE OutcomeUnfit(r) BY <1>1, <2>6 DEF OutcomeUnfit
  <2>7. CASE OutcomeMissing(r) BY <1>1, <2>7 DEF OutcomeMissing
  <2>8. CASE RecordRow(r)
    <3>0. NextRow(r) /\ UNCHANGED log BY <2>8 DEF RecordRow
    <3>1. \/ call' = [call EXCEPT ![r] =
               NewCall("append", SettledRow(r, Match(r), Props[at[r].prop + 1]))]
          \/ call' = [call EXCEPT ![r] = NoCall]
      BY <3>0 DEF NextRow
    <3> QED BY <2>0, <2>1, <3>0, <3>1, FreshMoves, IdleMoves
  <2>9. CASE RowRefused(r) BY <2>0, <2>9, IdleMoves DEF RowRefused
  <2>10. CASE VerifyChain(r)
    <3>1. call' = [call EXCEPT ![r] = NewCall("verify", None)] /\ UNCHANGED log
      BY <2>10 DEF VerifyChain, Begin
    <3> QED BY <2>0, <3>1, FreshMoves DEF Reads
  <2>11. CASE LookForManifest(r) BY <1>1, <2>11 DEF LookForManifest
  <2>12. CASE PublishManifest(r) BY <1>1, <2>12 DEF PublishManifest
  <2>13. CASE KillRun(r) BY <2>0, <2>13, IdleMoves DEF KillRun
  <2> QED BY <1>3, <2>2, <2>3, <2>4, <2>5, <2>6, <2>7, <2>8, <2>9, <2>10, <2>11, <2>12,
             <2>13 DEF Run
<1>4. ASSUME NEW e \in setup.editors, Correct(e) PROVE LedgerInv'
  <2>1. e \in Clients BY DEF BacktestAssumption, SetupInv
  <2>2. PICK row : Begin(e, "correct", row) BY <1>4 DEF Correct
  <2> QED BY <2>1, <2>2, FreshMoves DEF Begin, Reads
<1>5. ASSUME NEW a \in setup.readers, Summarize(a) PROVE LedgerInv'
  <2>1. a \in Clients BY DEF BacktestAssumption, SetupInv
  <2>2. PICK op \in Reads : call' = [call EXCEPT ![a] = NewCall(op, None)] /\ UNCHANGED log
    BY <1>5 DEF Summarize, Begin, Reads
  <2> QED BY <2>1, <2>2, FreshMoves DEF Reads
<1>6. ASSUME NEW c \in Clients, LedgerCall(c) PROVE LedgerInv'
  BY <1>6, LedgerStepInv DEF LedgerCall
<1> QED BY <1>2, <1>3, <1>4, <1>5, <1>6 DEF Next

LEMMA SetupStays == ASSUME SetupInv, [Next]_vars PROVE SetupInv'
<1>1. UNCHANGED setup
  BY DEF Next, Run, SkipTarget, LockTarget, LockRefused, Abort, RevealOutcome,
     OutcomeUnfit, OutcomeMissing, RecordRow, RowRefused, VerifyChain, LookForManifest,
     PublishManifest, KillRun, Correct, Summarize, LedgerCall, vars, runVars
<1> QED BY <1>1 DEF SetupInv

\* Whatever runs, operators and readers do to a ledger, at once and with
\* errors and kills between any two transactions, read finds it valid.
THEOREM LedgerAlwaysReads ==
  ASSUME BacktestAssumption PROVE Spec => []LedgerReads
<1>1. Init => LedgerInv /\ SetupInv BY InitLedgerInv DEF Init, SetupInv
<1>2. LedgerInv /\ SetupInv /\ [Next]_vars => (LedgerInv /\ SetupInv)'
  BY LedgerUnderNext, SetupStays
<1>3. LedgerInv => LedgerReads BY DEF LedgerInv, LedgerReads
<1> QED BY <1>1, <1>2, <1>3, PTL DEF Spec
-----------------------------------------------------------------------------
(* Locks and outcomes. *)

\* Between its lock and the outcome a run is at a match that it locked; a
\* lock in the store is never another's again.
LockInv ==
  /\ pc = [r \in Runs |-> pc[r]]
  /\ at = [r \in Runs |-> at[r]]
  /\ locks = [m \in Matches |-> locks[m]]
  /\ \A r \in Runs : pc[r] = "reveal" /\ Match(r) \in Matches => locks[Match(r)] = r
  /\ \A r \in Runs, m \in Matches : <<r, m>> \in revealed => locks[m] = r

LEMMA InitLockInv == Init => LockInv
  BY DEF Init, LockInv

\* A run that moves on to anything but the reveal.
LEMMA RunMoves ==
  ASSUME LockInv, UNCHANGED <<setup, locks>>, NEW r \in Runs,
         NEW step, step # "reveal", pc' = [pc EXCEPT ![r] = step],
         NEW place, at' = [at EXCEPT ![r] = place],
         \/ UNCHANGED revealed
         \/ pc[r] = "reveal" /\ revealed' = revealed \cup {<<r, Match(r)>>}
  PROVE  LockInv'
<1>1. pc' = [q \in Runs |-> pc'[q]] /\ at' = [q \in Runs |-> at'[q]]
  BY DEF LockInv
<1>2. locks' = [m \in Matches |-> locks'[m]] BY DEF LockInv
<1>3. ASSUME NEW q \in Runs, pc'[q] = "reveal", Match(q)' \in Matches
      PROVE  locks'[Match(q)'] = q
  <2>1. q # r /\ pc[q] = "reveal" /\ at'[q] = at[q] BY <1>3 DEF LockInv
  <2>2. Match(q)' = Match(q) BY <2>1 DEF Match, Targets
  <2> QED BY <1>3, <2>1, <2>2 DEF LockInv
<1>4. ASSUME NEW q \in Runs, NEW m \in Matches, <<q, m>> \in revealed'
      PROVE  locks'[m] = q
  <2>1. CASE <<q, m>> \in revealed BY <2>1 DEF LockInv
  <2>2. CASE <<q, m>> \notin revealed
    <3>1. pc[r] = "reveal" /\ q = r /\ m = Match(r) BY <1>4, <2>2
    <3> QED BY <3>1 DEF LockInv
  <2> QED BY <2>1, <2>2
<1> QED BY <1>1, <1>2, <1>3, <1>4 DEF LockInv, Matches

LEMMA LockMoves ==
  ASSUME LockInv, BacktestAssumption, NEW r \in Runs, LockTarget(r)
  PROVE  LockInv'
<1> USE DEF LockTarget
<1>1. pc' = [q \in Runs |-> pc'[q]] /\ at' = [q \in Runs |-> at'[q]]
  BY DEF LockInv, Goto
<1>2. locks' = [m \in Matches |-> locks'[m]] BY DEF LockInv
<1>3. ASSUME NEW m \in Matches, NEW q \in Runs, locks[m] = q PROVE locks'[m] = q
  BY <1>3 DEF LockInv, BacktestAssumption
<1>4. \A q \in Runs : Match(q)' = Match(q) BY DEF Match, Targets
<1>5. ASSUME NEW q \in Runs, pc'[q] = "reveal", Match(q) \in Matches
      PROVE  locks'[Match(q)] = q
  <2>1. CASE q = r BY <1>5, <2>1 DEF LockInv
  <2>2. CASE q # r
    <3>1. pc[q] = "reveal" BY <1>5, <2>2 DEF LockInv, Goto
    <3> QED BY <1>3, <1>5, <3>1 DEF LockInv
  <2> QED BY <2>1, <2>2
<1>6. \A q \in Runs, m \in Matches : <<q, m>> \in revealed' => locks'[m] = q
  BY <1>3 DEF LockInv
<1> QED BY <1>1, <1>2, <1>4, <1>5, <1>6 DEF LockInv, Matches

LEMMA RunUnderLocks ==
  ASSUME LockInv, BacktestAssumption, NEW r \in Runs, Run(r)
  PROVE  LockInv'
<1>0. at' = at => at' = [at EXCEPT ![r] = at[r]] BY DEF LockInv
<1>1. ASSUME NEW reason, SkipTarget(r, reason) PROVE LockInv'
  <2>1. PICK place : at' = [at EXCEPT ![r] = place] BY <1>1 DEF SkipTarget, Exclude, NextTarget
  <2> QED BY <1>1, <2>1, RunMoves DEF SkipTarget, Exclude, NextTarget, Goto
<1>2. CASE LockTarget(r) BY <1>2, LockMoves
<1>3. CASE Abort(r) BY <1>0, <1>3, RunMoves DEF Abort, Goto
<1>4. CASE RevealOutcome(r) BY <1>0, <1>4, RunMoves DEF RevealOutcome, Goto
<1>5. CASE OutcomeUnfit(r)
  <2>1. PICK place : at' = [at EXCEPT ![r] = place]
    BY <1>5 DEF OutcomeUnfit, Exclude, NextTarget
  <2> QED BY <1>5, <2>1, RunMoves DEF OutcomeUnfit, Exclude, NextTarget, Goto
<1>6. CASE RecordRow(r)
  <2>1. NextRow(r) /\ UNCHANGED <<setup, locks, revealed>> /\ pc[r] = "rows"
    BY <1>6 DEF RecordRow
  <2>2. CASE NextTarget(r)
    <3>1. PICK place : at' = [at EXCEPT ![r] = place] BY <2>2 DEF NextTarget
    <3> QED BY <2>1, <2>2, <3>1, RunMoves DEF NextTarget, Goto
  <2>3. CASE at' = [at EXCEPT ![r].prop = @ + 1] /\ UNCHANGED pc
    <3>1. at' = [at EXCEPT ![r] = [at[r] EXCEPT !.prop = @ + 1]] BY <2>3
    <3>2. pc' = [pc EXCEPT ![r] = "rows"] BY <2>1, <2>3 DEF LockInv
    <3> QED BY <2>1, <3>1, <3>2, RunMoves
  <2> QED BY <2>1, <2>2, <2>3 DEF NextRow
<1>7. CASE RowRefused(r)
  <2>1. PICK place : at' = [at EXCEPT ![r] = place]
    BY <1>7 DEF RowRefused, Exclude, NextTarget
  <2> QED BY <1>7, <2>1, RunMoves DEF RowRefused, Exclude, NextTarget, Goto
<1>8. CASE VerifyChain(r) BY <1>0, <1>8, RunMoves DEF VerifyChain, Goto
<1>9. CASE LookForManifest(r) BY <1>0, <1>9, RunMoves DEF LookForManifest, Goto
<1>10. CASE PublishManifest(r) BY <1>0, <1>10, RunMoves DEF PublishManifest, Goto
<1>11. CASE KillRun(r) BY <1>0, <1>11, RunMoves DEF KillRun, Goto
<1> QED BY <1>1, <1>2, <1>3, <1>4, <1>5, <1>6, <1>7, <1>8, <1>9, <1>10, <1>11
     DEF Run, LockRefused, OutcomeMissing

\* However runs race for the same matches, and wherever they are killed, a
\* run has seen the outcome of a match only if the lock of it in the store
\* is its own.
THEOREM RevealsFollowLocks ==
  ASSUME BacktestAssumption PROVE Spec => []RevealedAfterLock
<1>1. LockInv /\ [Next]_vars => LockInv'
  <2> SUFFICES ASSUME LockInv, [Next]_vars PROVE LockInv' OBVIOUS
  <2>1. ASSUME UNCHANGED runVars PROVE LockInv'
    BY <2>1 DEF LockInv, runVars, Match, Targets, Matches
  <2>2. CASE UNCHANGED vars BY <2>1, <2>2 DEF vars
  <2>3. ASSUME NEW r \in Runs, Run(r) PROVE LockInv' BY <2>3, RunUnderLocks
  <2>4. ASSUME NEW e, Correct(e) PROVE LockInv' BY <2>1, <2>4 DEF Correct
  <2>5. ASSUME NEW a, Summarize(a) PROVE LockInv' BY <2>1, <2>5 DEF Summarize
  <2>6. ASSUME NEW c, LedgerCall(c) PROVE LockInv' BY <2>1, <2>6 DEF LedgerCall
  <2> QED BY <2>2, <2>3, <2>4, <2>5, <2>6 DEF Next
<1>2. LockInv => RevealedAfterLock BY DEF LockInv, RevealedAfterLock
<1> QED BY <1>1, <1>2, InitLockInv, PTL DEF Spec
-----------------------------------------------------------------------------
(* The ledger implements the append-only log. *)

LEMMA RowsOfSequence ==
  ASSUME NEW s, s \in Seq(Range(s))
  PROVE  /\ RowsOf(s) \in Seq(Range(RowsOf(s)))
         /\ Len(RowsOf(s)) = Len(s) /\ Len(s) \in Nat
         /\ \A i \in 1..Len(s) : RowsOf(s)[i] = s[i].row
         /\ ToSet(RowsOf(s)) = Ids(s)
<1> DEFINE t == RowsOf(s)  R == Range(t)
<1>1. Len(s) \in Nat /\ DOMAIN s = 1..Len(s) OBVIOUS
<1>2. t = [i \in 1..Len(s) |-> s[i].row] BY <1>1 DEF RowsOf
<1>3. \A i \in 1..Len(s) : s[i].row \in R BY <1>2 DEF Range
<1> HIDE DEF R
<1>4. t \in Seq(R) /\ Len(t) = Len(s)
  <2> HIDE DEF t
  <2> QED BY <1>1, <1>2, <1>3
<1> QED BY <1>1, <1>2, <1>4 DEF R, Ids

LEMMA InsertExtends ==
  ASSUME LedgerInv, NEW c \in Clients, InsertRow(c)
  PROVE  Log!Extend \/ UNCHANGED RowsOf(log)
<1>1. CASE call[c].row \in Ids(log)
  <2>1. UNCHANGED log BY <1>1 DEF InsertRow
  <2> QED BY <2>1 DEF RowsOf
<1>2. CASE call[c].row \notin Ids(log)
  <2> DEFINE e == [row |-> call[c].row, previous |-> Terminal(log)]
             s == RowsOf(log)
             t == RowsOf(log')
             n == Len(log)
  <2>1. log' = Append(log, e) /\ e.row = call[c].row BY <1>2 DEF InsertRow
  <2>2. log \in Seq(Range(log)) BY DEF LedgerInv
  <2> HIDE DEF e
  <2>3. /\ log' \in Seq(Range(log')) /\ n \in Nat /\ Len(log') = n + 1
        /\ \A i \in 1..n : log'[i] = log[i]
        /\ log'[n + 1] = e
    BY <2>1, <2>2, Appending
  <2>4. /\ s \in Seq(Range(s)) /\ Len(s) = n
        /\ \A i \in 1..n : s[i] = log[i].row
        /\ ToSet(s) = Ids(log)
    BY <2>2, RowsOfSequence
  <2>5. /\ t \in Seq(Range(t)) /\ Len(t) = n + 1
        /\ \A i \in 1..(n + 1) : t[i] = log'[i].row
    <3>1. \A q : q \in Seq(Range(q)) =>
            /\ RowsOf(q) \in Seq(Range(RowsOf(q))) /\ Len(RowsOf(q)) = Len(q)
            /\ \A i \in 1..Len(q) : RowsOf(q)[i] = q[i].row
      BY RowsOfSequence
    <3> QED BY <2>3, <3>1
  <2>6. RowsOf(log)' = t BY DEF RowsOf
  <2> HIDE DEF s, t, n
  <2>7. \A i \in 1..n : s[i] = t[i] BY <2>3, <2>4, <2>5
  <2>8. IsPrefix(s, t)
    <3>1. SubSeq(s, 1, n) = [i \in 1..n |-> s[i]] BY <2>3, <2>4
    <3>2. SubSeq(t, 1, n) = [i \in 1..n |-> t[i]] BY <2>3, <2>5
    <3>3. SubSeq(s, 1, n) = SubSeq(t, 1, n) BY <2>7, <3>1, <3>2
    <3> QED BY <2>3, <2>4, <2>5, <3>3 DEF IsPrefix
  <2>9. t[Len(t)] \notin ToSet(s)
    <3>1. t[n + 1] = call[c].row BY <2>1, <2>3, <2>5
    <3> QED BY <1>2, <2>4, <2>5, <3>1
  <2>10. Log!IsPrefix(s, t) BY <2>8 DEF IsPrefix, Log!IsPrefix
  <2>11. t[Len(t)] \notin Log!ToSet(s) BY <2>9 DEF ToSet, Log!ToSet
  <2> QED BY <2>4, <2>5, <2>6, <2>10, <2>11 DEF Log!Extend, s
<1> QED BY <1>1, <1>2

LEMMA LogUnlessInsert ==
  ASSUME [Next]_vars, \A c \in Clients : ~ InsertRow(c)
  PROVE  UNCHANGED log
  BY DEF Next, Run, SkipTarget, LockTarget, LockRefused, Abort, RevealOutcome,
     OutcomeUnfit, OutcomeMissing, RecordRow, RowRefused, VerifyChain, LookForManifest,
     PublishManifest, KillRun, Correct, Summarize, LedgerCall, LedgerStep, SqliteError,
     NoFile, EnsureSchema, StampSchema, SelectRows, SelectLast, Begin, vars, ledgerVars

\* Through concurrent appends, corrections, errors and kills the rows of the
\* ledger grow at their end, one at a time, and no row is there twice.
THEOREM LedgerAppendOnly ==
  ASSUME BacktestAssumption PROVE Spec => LogSpec
<1>1. Init => LedgerInv /\ SetupInv BY InitLedgerInv DEF Init, SetupInv
<1>2. LedgerInv /\ SetupInv /\ [Next]_vars => (LedgerInv /\ SetupInv)'
  BY LedgerUnderNext, SetupStays
<1>3. Init => Log!Init BY DEF Init, LedgerInit, Log!Init, RowsOf
<1>4. LedgerInv /\ [Next]_vars => [Log!Extend]_(RowsOf(log))
  <2> SUFFICES ASSUME LedgerInv, [Next]_vars PROVE Log!Extend \/ UNCHANGED RowsOf(log)
    OBVIOUS
  <2>1. CASE \E c \in Clients : InsertRow(c) BY <2>1, InsertExtends
  <2>2. CASE \A c \in Clients : ~ InsertRow(c)
    <3>1. UNCHANGED log BY <2>2, LogUnlessInsert
    <3> QED BY <3>1 DEF RowsOf
  <2> QED BY <2>1, <2>2
<1> QED BY <1>1, <1>2, <1>3, <1>4, PTL DEF Spec, LogSpec, Log!Spec
-----------------------------------------------------------------------------
(* What a run has written, and what its manifest names. *)

\* All rows of a lock, and the locks that a run is through with.
RowsFor(r, m) == {SettledRow(r, m, prop) : prop \in ToSet(Props)}
Through(r, m, rows, reasons) ==
  RowsFor(r, m) \subseteq rows \/ <<m, "reconciliation">> \in reasons
\* A digest the ledger had, over some rows.
Anchored(last, rows) ==
  last \in Seq(Range(last)) /\ IsPrefix(last, RowsOf(log)) /\ rows \subseteq ToSet(last)

RowsInv(r) ==
  /\ call[r].op = "append" /\ call[r].row = SettledRow(r, Match(r), Props[at[r].prop])
  /\ \A n \in 1..(at[r].prop - 1) : SettledRow(r, Match(r), Props[n]) \in ToSet(written[r])
LockedInv(r) ==
  \A m \in ToSet(locked[r]) :
    /\ m \in Matches /\ locks[m] = r
    /\ \/ Through(r, m, ToSet(written[r]), excluded[r])
       \/ pc[r] \in {"reveal", "rows"} /\ m = Match(r)
       \/ pc[r] \in {"aborted", "killed"}
WrittenInv(r) ==
  \A x \in ToSet(written[r]) :
    x \in Ids(log) /\ x.corrects = <<>> /\ x.match \in ToSet(locked[r])
ChainInv(r) ==
  /\ pc[r] = "chain" => call[r].op \in {"verify", "terminal"}
  /\ pc[r] = "publish" => call[r].op = "terminal" /\ call[r].step = "returned"
  /\ pc[r] \in {"chain", "publish"} /\ call[r].op = "terminal" /\ call[r].step = "returned"
       => Anchored(call[r].last, ToSet(written[r]))
PlaceInv(r) ==
  /\ at[r].target \in Nat \ {0} /\ at[r].prop \in 1..Len(Props)
  /\ at[r] = [target |-> at[r].target, prop |-> at[r].prop]
  /\ pc[r] \in {"target", "reveal"} => at[r].prop = 1
  /\ pc[r] \in {"reveal", "rows"} => Match(r) \in ToSet(locked[r])
RunInv(r) ==
  /\ locked[r] \in Seq(Range(locked[r])) /\ written[r] \in Seq(Range(written[r]))
  /\ PlaceInv(r)
  /\ pc[r] = "rows" => RowsInv(r)
  /\ pc[r] # "rows" => call[r].op \in {"none", "verify", "terminal"}
  /\ LockedInv(r) /\ WrittenInv(r) /\ ChainInv(r)

\* A call that is not a run's own appends corrections only.
CallRecordInv(c) ==
  /\ call[c].op \in {"append", "correct"} => "corrects" \in DOMAIN call[c].row
  /\ call[c].op = "append" /\ call[c].row.corrects = <<>> => c \in Runs
  /\ call[c].op = "correct" => call[c].row.corrects # <<>>
  /\ call[c].op = "append" /\ call[c].step = "returned" => call[c].row \in Ids(log)
  /\ call[c].op = "verify" => call[c].step # "returned"
  /\ call[c].op = "terminal" /\ call[c].step # "returned" => call[c].last = <<>>
  /\ call[c].step = "last" => call[c].op = "terminal"
  /\ call[c].step \in {"insert", "select", "last"} => schema = "stamped"

\* A settled row is of the run that has the lock, which has noted it, is
\* about to, or never will.
Accounted(x) ==
  /\ x.match \in Matches /\ locks[x.match] \in Runs
  /\ LET r == locks[x.match]
     IN  \/ x \in ToSet(written[r])
         \/ pc[r] = "rows" /\ call[r].step = "returned" /\ call[r].row = x
         \/ pc[r] = "killed"
LogInv ==
  /\ Terminal(log) = RowsOf(log)
  /\ log # <<>> => schema = "stamped"
  /\ \A x \in Ids(log) : "corrects" \in DOMAIN x
  /\ \A x \in Ids(log) : x.corrects = <<>> => Accounted(x)

\* A manifest says what its run, which is over, has done.
ManifestInv(i) ==
  manifests[i] # None =>
    /\ manifests[i].by \in Runs /\ pc[manifests[i].by] = "done"
    /\ manifests[i].locks = ToSet(locked[manifests[i].by])
    /\ manifests[i].rows = ToSet(written[manifests[i].by])
    /\ manifests[i].excluded = excluded[manifests[i].by]
    /\ Anchored(manifests[i].terminal, manifests[i].rows)

TableInv ==
  /\ locks = [m \in Matches |-> locks[m]]
  /\ pc = [r \in Runs |-> pc[r]] /\ at = [r \in Runs |-> at[r]]
  /\ locked = [r \in Runs |-> locked[r]] /\ written = [r \in Runs |-> written[r]]
  /\ excluded = [r \in Runs |-> excluded[r]]
  /\ manifests = [i \in RunIds |-> manifests[i]]

RecordInv ==
  /\ TableInv
  /\ \A m \in Matches : locks[m] \in Runs \cup {None}
  /\ \A r \in Runs : RunInv(r)
  /\ \A c \in Clients : CallRecordInv(c)
  /\ LogInv
  /\ \A i \in RunIds : ManifestInv(i)
-----------------------------------------------------------------------------
(* Digests the ledger had. *)

LEMMA NotedRow ==
  ASSUME NEW s, s \in Seq(Range(s)), NEW e
  PROVE  Append(s, e) \in Seq(Range(Append(s, e))) /\ ToSet(Append(s, e)) = ToSet(s) \cup {e}
<1> DEFINE t == Append(s, e)
<1>1. /\ t \in Seq(Range(t)) /\ Len(s) \in Nat
      /\ DOMAIN s = 1..Len(s) /\ DOMAIN t = 1..(Len(s) + 1)
      /\ \A i \in 1..Len(s) : t[i] = s[i]
      /\ t[Len(s) + 1] = e
  BY Appending
<1> HIDE DEF t
<1>2. ASSUME NEW x \in ToSet(t) PROVE x \in ToSet(s) \cup {e}
  <2>1. PICK i \in 1..(Len(s) + 1) : x = t[i] BY <1>1, <1>2 DEF ToSet
  <2>2. CASE i \in 1..Len(s) BY <1>1, <2>1, <2>2 DEF ToSet
  <2>3. CASE i = Len(s) + 1 BY <1>1, <2>1, <2>3
  <2> QED BY <1>1, <2>2, <2>3
<1>3. ASSUME NEW x \in ToSet(s) \cup {e} PROVE x \in ToSet(t)
  <2>1. CASE x \in ToSet(s)
    <3>1. PICK i \in 1..Len(s) : x = s[i] BY <1>1, <2>1 DEF ToSet
    <3> QED BY <1>1, <3>1 DEF ToSet
  <2>2. CASE x = e
    <3>1. Len(s) + 1 \in DOMAIN t BY <1>1
    <3> QED BY <1>1, <2>2, <3>1 DEF ToSet
  <2> QED BY <1>3, <2>1, <2>2
<1>4. t \in Seq(Range(t)) /\ ToSet(t) = ToSet(s) \cup {e} BY <1>1, <1>2, <1>3
<1> QED BY <1>4 DEF t

LEMMA RowsOfAppend ==
  ASSUME NEW s, s \in Seq(Range(s)), NEW e
  PROVE  RowsOf(Append(s, e)) = Append(RowsOf(s), e.row)
<1> DEFINE t == Append(s, e)
           rows == RowsOf(s)
           next == Append(rows, e.row)
<1>1. /\ t \in Seq(Range(t)) /\ Len(s) \in Nat /\ Len(t) = Len(s) + 1
      /\ \A i \in 1..Len(s) : t[i] = s[i]
      /\ t[Len(s) + 1] = e
  BY Appending
<1>2. /\ rows \in Seq(Range(rows)) /\ Len(rows) = Len(s)
      /\ \A i \in 1..Len(s) : rows[i] = s[i].row
  BY RowsOfSequence
<1>3. /\ Len(next) = Len(s) + 1 /\ next \in Seq(Range(next))
      /\ \A i \in 1..Len(s) : next[i] = rows[i]
      /\ next[Len(s) + 1] = e.row
  <2> HIDE DEF rows
  <2> QED BY <1>2, Appending
<1>4. RowsOf(t) \in Seq(Range(RowsOf(t))) /\ Len(RowsOf(t)) = Len(s) + 1
      /\ \A i \in 1..(Len(s) + 1) : RowsOf(t)[i] = t[i].row
  <2> HIDE DEF t
  <2> QED BY <1>1, RowsOfSequence
<1> HIDE DEF t, rows, next
<1>5. \A i \in 1..(Len(s) + 1) : RowsOf(t)[i] = next[i]
  <2> SUFFICES ASSUME NEW i \in 1..(Len(s) + 1) PROVE RowsOf(t)[i] = next[i] OBVIOUS
  <2>1. CASE i \in 1..Len(s) BY <1>1, <1>2, <1>3, <1>4, <2>1
  <2>2. CASE i = Len(s) + 1 BY <1>1, <1>3, <1>4, <2>2
  <2> QED BY <1>1, <2>1, <2>2
<1>6. RowsOf(t) = next
  <2>1. RowsOf(t) = [i \in 1..(Len(s) + 1) |-> RowsOf(t)[i]] BY <1>4
  <2>2. next = [i \in 1..(Len(s) + 1) |-> next[i]] BY <1>3
  <2> QED BY <1>5, <2>1, <2>2
<1> QED BY <1>6 DEF t, rows, next

LEMMA PrefixOfItself ==
  ASSUME NEW s, s \in Seq(Range(s))
  PROVE  IsPrefix(s, s) /\ IsPrefix(<<>>, s)
<1>1. Len(s) \in Nat OBVIOUS
<1>2. SubSeq(<<>>, 1, 0) = SubSeq(s, 1, 0) BY <1>1
<1> QED BY <1>1, <1>2 DEF IsPrefix

LEMMA PrefixKept ==
  ASSUME NEW p, p \in Seq(Range(p)), NEW s, s \in Seq(Range(s)), IsPrefix(p, s), NEW e
  PROVE  IsPrefix(p, Append(s, e))
<1> DEFINE t == Append(s, e)
           n == Len(p)
<1>1. /\ t \in Seq(Range(t)) /\ Len(s) \in Nat /\ Len(t) = Len(s) + 1
      /\ \A i \in 1..Len(s) : t[i] = s[i]
  BY Appending
<1>2. n \in Nat /\ n <= Len(s) /\ SubSeq(p, 1, n) = SubSeq(s, 1, n) BY <1>1 DEF IsPrefix
<1> HIDE DEF t
<1>3. SubSeq(s, 1, n) = SubSeq(t, 1, n)
  <2> HIDE DEF n
  <2>1. SubSeq(s, 1, n) = [i \in 1..n |-> s[i]] BY <1>1, <1>2
  <2>2. SubSeq(t, 1, n) = [i \in 1..n |-> t[i]] BY <1>1, <1>2
  <2>3. \A i \in 1..n : s[i] = t[i] BY <1>1, <1>2
  <2> QED BY <2>1, <2>2, <2>3
<1>4. IsPrefix(p, t) BY <1>1, <1>2, <1>3 DEF IsPrefix
<1> QED BY <1>4 DEF t

\* What a step may do to the log as far as runs can tell.
Kept ==
  /\ Ids(log) \subseteq Ids(log)'
  /\ \A last, rows : Anchored(last, rows) => Anchored(last, rows)'

LEMMA SameLogKept == ASSUME UNCHANGED log PROVE Kept
  BY DEF Kept, Ids, RowsOf, Anchored

LEMMA LongerLogKept ==
  ASSUME LedgerInv, NEW e, log' = Append(log, e)
  PROVE  Kept
<1>1. log \in Seq(Range(log)) BY DEF LedgerInv
<1>2. Ids(log)' = Ids(log') BY DEF Ids, RowsOf
<1>3. Ids(log) \subseteq Ids(log)' BY <1>1, <1>2, IdsGrow
<1>4. RowsOf(log)' = Append(RowsOf(log), e.row)
  <2>1. RowsOf(log)' = RowsOf(log') BY DEF RowsOf
  <2> QED BY <1>1, <2>1, RowsOfAppend
<1>5. RowsOf(log) \in Seq(Range(RowsOf(log))) BY <1>1, RowsOfSequence
<1>6. ASSUME NEW last, NEW rows, Anchored(last, rows) PROVE Anchored(last, rows)'
  BY <1>4, <1>5, <1>6, PrefixKept DEF Anchored
<1> QED BY <1>3, <1>6 DEF Kept
-----------------------------------------------------------------------------
(* A step of one run, as the others see it. *)

LEMMA InitRecordInv == ASSUME BacktestAssumption, Init PROVE RecordInv
<1> USE DEF Init, LedgerInit
<1>1. Ids(log) = {} BY DEF Ids, RowsOf, ToSet
<1>2. Len(Props) \in Nat /\ Len(Props) # 0 BY DEF BacktestAssumption
<1>3. ASSUME NEW r \in Runs PROVE RunInv(r)
  <2>0. r \in Clients /\ call[r] = NoCall BY DEF BacktestAssumption
  <2>1. /\ pc[r] = "target" /\ at[r] = [target |-> 1, prop |-> 1]
        /\ locked[r] = <<>> /\ written[r] = <<>>
    OBVIOUS
  <2>2. ToSet(locked[r]) = {} /\ ToSet(written[r]) = {} BY <2>1 DEF ToSet
  <2>3. <<>> \in Seq(Range(<<>>)) OBVIOUS
  <2>4. PlaceInv(r) BY <1>2, <2>1 DEF PlaceInv
  <2>5. LockedInv(r) /\ WrittenInv(r) /\ ChainInv(r)
    BY <2>1, <2>2 DEF LockedInv, WrittenInv, ChainInv
  <2> QED BY <2>0, <2>1, <2>3, <2>4, <2>5 DEF RunInv, NoCall
<1>4. \A c \in Clients : CallRecordInv(c) BY DEF CallRecordInv, NoCall
<1>5. LogInv
  <2>1. Terminal(log) = <<>> /\ RowsOf(log) = <<>> BY DEF Terminal, RowsOf
  <2> QED BY <1>1, <2>1 DEF LogInv
<1>6. \A i \in RunIds : ManifestInv(i) BY DEF ManifestInv
<1>7. TableInv /\ \A m \in Matches : locks[m] \in Runs \cup {None} BY DEF TableInv
<1> QED BY <1>3, <1>4, <1>5, <1>6, <1>7 DEF RecordInv

\* A run that does nothing, while others lock, append and publish.
Idle(r) ==
  /\ pc'[r] = pc[r] /\ at'[r] = at[r] /\ call'[r] = call[r]
  /\ locked'[r] = locked[r] /\ written'[r] = written[r] /\ excluded'[r] = excluded[r]
LocksKept == \A m \in Matches : locks[m] # None => locks'[m] = locks[m]

LEMMA IdleRun ==
  ASSUME BacktestAssumption, NEW r \in Runs, RunInv(r), UNCHANGED setup, Idle(r),
         Kept, LocksKept
  PROVE  RunInv(r)'
<1> USE DEF Idle
<1>0. r # None BY DEF BacktestAssumption
<1>1. Match(r)' = Match(r) BY DEF Match, Targets
<1>2. PlaceInv(r)' BY <1>1 DEF RunInv, PlaceInv
<1>3. LockedInv(r)' BY <1>0, <1>1 DEF RunInv, LockedInv, LocksKept, Through, RowsFor,
                       SettledRow, Matches
<1>4. WrittenInv(r)' BY DEF RunInv, WrittenInv, Kept
<1>5. ChainInv(r)' BY DEF RunInv, ChainInv, Kept
<1>6. (pc[r] = "rows" => RowsInv(r))' BY <1>1 DEF RunInv, RowsInv, SettledRow
<1> QED BY <1>2, <1>3, <1>4, <1>5, <1>6 DEF RunInv

\* What a step of r leaves alone, and what it may not lose.
RunFrame(r) ==
  /\ UNCHANGED <<setup, schema, log>>
  /\ \A q \in Runs \ {r} : Idle(q)
  /\ \A c \in Clients \ {r} : call'[c] = call[c]
  /\ LocksKept
  /\ \A m \in Matches : locks'[m] \in Runs \cup {None}
  /\ ToSet(written[r]) \subseteq ToSet(written[r])'
  /\ pc[r] \notin {"done", "killed"}
  /\ pc[r] = "rows" /\ call[r].step = "returned" =>
       call[r].row \in ToSet(written[r])' \/ pc'[r] = "killed"

LEMMA RunActs ==
  ASSUME BacktestAssumption, RecordInv, NEW r \in Runs, RunFrame(r), TableInv',
         RunInv(r)', CallRecordInv(r)',
         \A i \in RunIds : manifests'[i] = manifests[i] \/ ManifestInv(i)'
  PROVE  RecordInv'
<1> USE DEF RunFrame
<1>0. None \notin Runs BY DEF BacktestAssumption
<1>1. Kept /\ Ids(log)' = Ids(log) /\ RowsOf(log)' = RowsOf(log) /\ Terminal(log)' = Terminal(log)
  BY SameLogKept DEF Ids, RowsOf, Terminal, EntryHash
<1>2. \A q \in Runs : RunInv(q)'
  <2> SUFFICES ASSUME NEW q \in Runs, q # r PROVE RunInv(q)' OBVIOUS
  <2>1. RunInv(q) /\ Idle(q) BY DEF RecordInv
  <2> QED BY <1>1, <2>1, IdleRun
<1>3. \A c \in Clients : CallRecordInv(c)'
  BY <1>1 DEF RecordInv, CallRecordInv
<1>4. LogInv'
  <2> SUFFICES ASSUME NEW x \in Ids(log), x.corrects = <<>> PROVE Accounted(x)'
    BY <1>1 DEF RecordInv, LogInv
  <2>1. Accounted(x) BY DEF RecordInv, LogInv
  <2>2. PICK q \in Runs : locks[x.match] = q BY <2>1 DEF Accounted
  <2>3. x.match \in Matches /\ locks'[x.match] = q
    BY <1>0, <2>1, <2>2 DEF Accounted, LocksKept
  <2>4. CASE q # r BY <2>1, <2>2, <2>3, <2>4 DEF Accounted, Matches, Idle
  <2>5. CASE q = r BY <2>1, <2>2, <2>3, <2>5 DEF Accounted, Matches
  <2> QED BY <2>4, <2>5
<1>5. \A i \in RunIds : ManifestInv(i)'
  <2> SUFFICES ASSUME NEW i \in RunIds, manifests'[i] = manifests[i], manifests[i] # None
               PROVE  ManifestInv(i)'
    BY DEF ManifestInv
  <2>1. ManifestInv(i) BY DEF RecordInv
  <2>2. manifests[i].by \in Runs \ {r} BY <2>1 DEF ManifestInv
  <2>3. Anchored(manifests[i].terminal, manifests[i].rows)'
    BY <1>1, <2>1 DEF ManifestInv, Anchored
  <2>4. Idle(manifests[i].by) BY <2>2
  <2> QED BY <2>1, <2>2, <2>3, <2>4 DEF ManifestInv, Idle
<1> QED BY <1>2, <1>3, <1>4, <1>5 DEF RecordInv, Matches, RunIds
-----------------------------------------------------------------------------
(* The steps of a run, one by one. *)

\* The locks of a run that goes on with what it has.
LEMMA LockedStay ==
  ASSUME BacktestAssumption, NEW r \in Runs, RunInv(r), RunFrame(r),
         locked'[r] = locked[r], excluded[r] \subseteq excluded'[r],
         pc[r] # "aborted",
         pc[r] \in {"reveal", "rows"} =>
           \/ Through(r, Match(r), ToSet(written[r])', excluded'[r])
           \/ pc'[r] \in {"reveal", "rows"} /\ Match(r)' = Match(r)
           \/ pc'[r] \in {"aborted", "killed"}
  PROVE  LockedInv(r)'
<1> USE DEF RunFrame
<1>0. r # None BY DEF BacktestAssumption
<1>1. SUFFICES ASSUME NEW m \in ToSet(locked[r])
               PROVE  /\ m \in Matches /\ locks'[m] = r
                      /\ \/ Through(r, m, ToSet(written[r])', excluded'[r])
                         \/ pc'[r] \in {"reveal", "rows"} /\ m = Match(r)'
                         \/ pc'[r] \in {"aborted", "killed"}
  BY DEF LockedInv, Matches, Through, RowsFor, SettledRow
<1>2. m \in Matches /\ locks[m] = r BY <1>1 DEF RunInv, LockedInv
<1>3. locks'[m] = r BY <1>0, <1>2 DEF LocksKept
<1>4. CASE Through(r, m, ToSet(written[r]), excluded[r])
  BY <1>2, <1>3, <1>4 DEF Through
<1>5. CASE pc[r] \in {"reveal", "rows"} /\ m = Match(r)
  BY <1>2, <1>3, <1>5
<1> QED BY <1>1, <1>2, <1>3, <1>4, <1>5 DEF RunInv, LockedInv

LEMMA WrittenStay ==
  ASSUME NEW r \in Runs, RunInv(r), RunFrame(r), written'[r] = written[r],
         ToSet(locked[r]) \subseteq ToSet(locked[r])'
  PROVE  WrittenInv(r)'
  BY DEF RunInv, WrittenInv, RunFrame, Ids, RowsOf

\* A run that ends, or is ended, before it publishes.
LEMMA RunStops ==
  ASSUME BacktestAssumption, LedgerInv, RecordInv, NEW r \in Runs,
         pc[r] \notin {"done", "aborted", "killed"},
         NEW end \in {"aborted", "killed"}, pc' = [pc EXCEPT ![r] = end],
         UNCHANGED <<setup, schema, log, at, locks, locked, written, excluded, manifests>>,
         \/ call' = [call EXCEPT ![r] = NoCall] /\ end = "killed"
         \/ UNCHANGED call /\ pc[r] # "rows"
  PROVE  RecordInv'
<1>0. RunInv(r) /\ CallRecordInv(r) /\ TableInv /\ r \in Clients
  BY DEF RecordInv, BacktestAssumption
<1>1. TableInv' BY <1>0 DEF TableInv, Matches, RunIds
<1>2. /\ pc'[r] = end
      /\ \/ call'[r] = NoCall /\ end = "killed"
         \/ call'[r] = call[r] /\ pc[r] # "rows"
      /\ \A c \in Clients \ {r} : call'[c] = call[c]
  BY <1>0 DEF TableInv, LedgerInv
<1>3. RunFrame(r)
  <2>1. \A q \in Runs \ {r} : Idle(q) BY <1>0, <1>2 DEF Idle, TableInv, BacktestAssumption
  <2>2. pc[r] = "rows" => pc'[r] = "killed" BY <1>2
  <2>3. ToSet(written[r])' = ToSet(written[r]) BY DEF ToSet
  <2>4. \A m \in Matches : locks'[m] \in Runs \cup {None} BY DEF RecordInv
  <2> QED BY <1>2, <2>1, <2>2, <2>3, <2>4 DEF RunFrame, LocksKept
<1>4. RunInv(r)'
  <2>1. Match(r)' = Match(r) BY DEF Match, Targets
  <2>2. PlaceInv(r)' BY <1>0, <1>2 DEF RunInv, PlaceInv
  <2>3. LockedInv(r)' BY <1>0, <1>2, <1>3, LockedStay
  <2>4. WrittenInv(r)' BY <1>0, <1>3, WrittenStay
  <2>5. call'[r].op \in {"none", "verify", "terminal"} BY <1>0, <1>2 DEF RunInv, NoCall
  <2>6. ChainInv(r)' BY <1>2 DEF ChainInv
  <2> QED BY <1>0, <1>2, <2>2, <2>3, <2>4, <2>5, <2>6 DEF RunInv
<1>5. CallRecordInv(r)'
  BY <1>0, <1>2 DEF CallRecordInv, NoCall, Ids, RowsOf
<1> QED BY <1>1, <1>3, <1>4, <1>5, RunActs

LEMMA LockTargetRecord ==
  ASSUME BacktestAssumption, SetupInv, LedgerInv, RecordInv, NEW r \in Runs, LockTarget(r)
  PROVE  RecordInv'
<1> USE DEF LockTarget, AtTarget, Goto
<1>0. /\ RunInv(r) /\ CallRecordInv(r) /\ TableInv /\ r \in Clients /\ r # None
      /\ pc[r] = "target" /\ UNCHANGED <<setup, schema, log, call>>
  BY DEF RecordInv, BacktestAssumption, ledgerVars
<1>1. TableInv' BY <1>0 DEF TableInv, Matches, RunIds
<1>2. Match(r) \in Matches
  <2>1. Targets(r) \in Seq(Matches) BY DEF BacktestAssumption, SetupInv, Targets, Matches
  <2>2. at[r].target \in Nat \ {0} /\ at[r].target <= Len(Targets(r))
    BY <1>0 DEF RunInv, PlaceInv
  <2> QED BY <2>1, <2>2 DEF Match
<1>3. /\ pc'[r] = "reveal" /\ locked'[r] = Append(locked[r], Match(r))
      /\ locks'[Match(r)] = r
  BY <1>0, <1>2 DEF TableInv
<1>4. /\ ToSet(locked[r])' = ToSet(locked[r]) \cup {Match(r)}
      /\ locked'[r] \in Seq(Range(locked'[r]))
  <2>1. locked[r] \in Seq(Range(locked[r])) BY <1>0 DEF RunInv
  <2>2. /\ Append(locked[r], Match(r)) \in Seq(Range(Append(locked[r], Match(r))))
        /\ ToSet(Append(locked[r], Match(r))) = ToSet(locked[r]) \cup {Match(r)}
    BY <2>1, NotedRow
  <2>3. ToSet(locked[r])' = ToSet(Append(locked[r], Match(r))) BY <1>3 DEF ToSet
  <2> QED BY <1>3, <2>2, <2>3
<1>5. LocksKept /\ \A m \in Matches : locks'[m] \in Runs \cup {None}
  BY <1>0 DEF TableInv, LocksKept, RecordInv
<1>6. RunFrame(r)
  <2>1. \A q \in Runs \ {r} : Idle(q) BY <1>0 DEF Idle, TableInv
  <2> QED BY <1>0, <1>5, <2>1 DEF RunFrame
<1>7. RunInv(r)'
  <2>1. Match(r)' = Match(r) BY DEF Match, Targets
  <2>2. PlaceInv(r)' BY <1>0, <1>3, <1>4, <2>1 DEF RunInv, PlaceInv
  <2>3. LockedInv(r)'
    <3>1. ASSUME NEW m \in ToSet(locked[r])
          PROVE  /\ m \in Matches /\ locks'[m] = r
                 /\ Through(r, m, ToSet(written[r]), excluded[r])
      BY <1>0, <1>5, <3>1 DEF RunInv, LockedInv, LocksKept
    <3> QED BY <1>2, <1>3, <1>4, <2>1, <3>1 DEF LockedInv, Through, RowsFor, SettledRow,
               Matches
  <2>4. WrittenInv(r)' BY <1>0, <1>4, <1>6, WrittenStay
  <2>5. ChainInv(r)' BY <1>3 DEF ChainInv
  <2> QED BY <1>0, <1>3, <1>4, <2>2, <2>3, <2>4, <2>5 DEF RunInv
<1>8. CallRecordInv(r)' BY <1>0 DEF CallRecordInv, Ids, RowsOf
<1> QED BY <1>1, <1>6, <1>7, <1>8, RunActs

\* A run that goes on with the locks it has.
LEMMA RunGoesOn ==
  ASSUME BacktestAssumption, LedgerInv, RecordInv, NEW r \in Runs,
         pc[r] \notin {"done", "aborted", "killed"},
         UNCHANGED <<setup, schema, log, locks, locked>>,
         NEW step, pc' = [pc EXCEPT ![r] = step],
         NEW place, at' = [at EXCEPT ![r] = place],
         NEW k, call' = [call EXCEPT ![r] = k],
         NEW rows, written' = [written EXCEPT ![r] = rows],
         NEW reasons, excluded' = [excluded EXCEPT ![r] = reasons],
         rows \in Seq(Range(rows)), ToSet(written[r]) \subseteq ToSet(rows),
         excluded[r] \subseteq reasons,
         pc[r] = "rows" /\ call[r].step = "returned" => call[r].row \in ToSet(rows),
         pc[r] \in {"reveal", "rows"} =>
           \/ Through(r, Match(r), ToSet(rows), reasons)
           \/ step \in {"reveal", "rows"} /\ Match(r)' = Match(r),
         PlaceInv(r)', WrittenInv(r)', ChainInv(r)', CallRecordInv(r)',
         step = "rows" => RowsInv(r)',
         step # "rows" => k.op \in {"none", "verify", "terminal"},
         manifests' = [i \in RunIds |-> manifests'[i]],
         \A i \in RunIds : manifests'[i] = manifests[i] \/ ManifestInv(i)'
  PROVE  RecordInv'
<1>0. RunInv(r) /\ TableInv /\ Runs \subseteq Clients
  BY DEF RecordInv, BacktestAssumption
<1>1. TableInv' BY <1>0 DEF TableInv, Matches, RunIds
<1>2. /\ pc'[r] = step /\ at'[r] = place /\ written'[r] = rows /\ excluded'[r] = reasons
      /\ call'[r] = k /\ \A c \in Clients \ {r} : call'[c] = call[c]
  BY <1>0 DEF TableInv, LedgerInv
<1>3. ToSet(written[r])' = ToSet(rows) BY <1>2 DEF ToSet
<1>4. RunFrame(r)
  <2>1. \A q \in Runs \ {r} : Idle(q) BY <1>0, <1>2 DEF Idle, TableInv
  <2>2. \A m \in Matches : locks'[m] \in Runs \cup {None} BY DEF RecordInv
  <2> QED BY <1>2, <1>3, <2>1, <2>2 DEF RunFrame, LocksKept
<1>5. LockedInv(r)' BY <1>0, <1>2, <1>3, <1>4, LockedStay
<1>6. RunInv(r)' BY <1>0, <1>2, <1>5 DEF RunInv
<1> QED BY <1>1, <1>4, <1>6, RunActs

\* One that leaves a target for good reason, with nothing under way.
LEMMA RunExcludes ==
  ASSUME BacktestAssumption, LedgerInv, RecordInv, NEW r \in Runs,
         pc[r] \in {"target", "reveal", "rows"},
         UNCHANGED <<setup, schema, log, locks, locked, written, manifests>>,
         NEW reason, Exclude(r, reason), pc[r] # "target" => reason = "reconciliation",
         NEW k, call' = [call EXCEPT ![r] = k],
         \/ k = NoCall /\ call[r].step # "returned"
         \/ k = call[r] /\ pc[r] # "rows"
  PROVE  RecordInv'
<1> DEFINE place == [target |-> at[r].target + 1, prop |-> 1]
           reasons == excluded[r] \cup {<<Match(r), reason>>}
<1>0. RunInv(r) /\ CallRecordInv(r) /\ TableInv /\ r \in Clients
  BY DEF RecordInv, BacktestAssumption
<1>1. /\ pc' = [pc EXCEPT ![r] = "target"] /\ at' = [at EXCEPT ![r] = place]
      /\ excluded' = [excluded EXCEPT ![r] = reasons]
      /\ written' = [written EXCEPT ![r] = written[r]]
  BY <1>0 DEF Exclude, NextTarget, Goto, TableInv
<1>2. pc'[r] = "target" /\ at'[r] = place /\ call'[r] = k
  BY <1>0, <1>1 DEF TableInv, LedgerInv
<1>3. Len(Props) \in Nat /\ Len(Props) # 0 BY DEF BacktestAssumption
<1>4. PlaceInv(r)' BY <1>0, <1>2, <1>3 DEF RunInv, PlaceInv
<1>5. WrittenInv(r)' BY <1>0 DEF RunInv, WrittenInv, Ids, RowsOf
<1>6. ChainInv(r)' BY <1>2 DEF ChainInv
<1>7. CallRecordInv(r)'
  <2>1. k = NoCall \/ k = call[r] OBVIOUS
  <2> QED BY <1>0, <1>2, <2>1 DEF CallRecordInv, NoCall, Ids, RowsOf
<1>8. k.op \in {"none", "verify", "terminal"} BY <1>0 DEF RunInv, NoCall
<1>9. pc[r] \in {"reveal", "rows"} => Through(r, Match(r), ToSet(written[r]), reasons)
  BY DEF Through
<1>10. ~ (pc[r] = "rows" /\ call[r].step = "returned") OBVIOUS
<1>11. /\ written[r] \in Seq(Range(written[r])) /\ excluded[r] \subseteq reasons
       /\ manifests' = [i \in RunIds |-> manifests'[i]]
  BY <1>0 DEF RunInv, TableInv, RunIds
<1>12. /\ pc[r] \notin {"done", "aborted", "killed"}
       /\ UNCHANGED <<setup, schema, log, locks, locked>>
       /\ ToSet(written[r]) \subseteq ToSet(written[r])
       /\ \A i \in RunIds : manifests'[i] = manifests[i]
       /\ "target" # "rows"
  OBVIOUS
<1> HIDE DEF place, reasons
<1> QED BY <1>12, <1>1, <1>4, <1>5, <1>6, <1>7, <1>8, <1>9, <1>10, <1>11, RunGoesOn

LEMMA RevealRecord ==
  ASSUME BacktestAssumption, LedgerInv, RecordInv, NEW r \in Runs, RevealOutcome(r)
  PROVE  RecordInv'
<1> DEFINE k == NewCall("append", SettledRow(r, Match(r), Props[1]))
<1> USE DEF RevealOutcome
<1>0. RunInv(r) /\ TableInv /\ r \in Clients BY DEF RecordInv, BacktestAssumption
<1>1. /\ pc' = [pc EXCEPT ![r] = "rows"] /\ at' = [at EXCEPT ![r] = at[r]]
      /\ call' = [call EXCEPT ![r] = k]
      /\ written' = [written EXCEPT ![r] = written[r]]
      /\ excluded' = [excluded EXCEPT ![r] = excluded[r]]
      /\ UNCHANGED <<schema, log>>
  BY <1>0 DEF Begin, Goto, TableInv
<1>2. pc'[r] = "rows" /\ at'[r] = at[r] /\ call'[r] = k /\ written'[r] = written[r]
  BY <1>0, <1>1 DEF TableInv, LedgerInv
<1>3. Match(r)' = Match(r) BY DEF Match, Targets
<1>4. at[r].prop = 1 /\ Match(r) \in ToSet(locked[r]) BY <1>0 DEF RunInv, PlaceInv
<1>5. PlaceInv(r)' BY <1>0, <1>2, <1>3, <1>4 DEF RunInv, PlaceInv
<1>6. WrittenInv(r)' BY <1>0, <1>1 DEF RunInv, WrittenInv, Ids, RowsOf
<1>7. ChainInv(r)' BY <1>2 DEF ChainInv
<1>8. /\ k.op = "append" /\ k.step = "schema"
      /\ k.row = SettledRow(r, Match(r), Props[1])
  BY DEF NewCall
<1>9. "corrects" \in DOMAIN SettledRow(r, Match(r), Props[1]) BY DEF SettledRow
<1> HIDE DEF k
<1>10. CallRecordInv(r)' BY <1>2, <1>8, <1>9 DEF CallRecordInv
<1>11. RowsInv(r)'
  <2>1. SettledRow(r, Match(r), Props[1])' = SettledRow(r, Match(r), Props[1])
    BY <1>3 DEF SettledRow
  <2> QED BY <1>2, <1>3, <1>4, <1>8, <2>1 DEF RowsInv, SettledRow
<1>12. /\ written[r] \in Seq(Range(written[r]))
       /\ manifests' = [i \in RunIds |-> manifests'[i]]
  BY <1>0 DEF RunInv, TableInv, RunIds
<1> QED BY <1>1, <1>3, <1>5, <1>6, <1>7, <1>10, <1>11, <1>12, RunGoesOn

LEMMA RecordRowRecord ==
  ASSUME BacktestAssumption, LedgerInv, RecordInv, NEW r \in Runs, RecordRow(r)
  PROVE  RecordInv'
<1> DEFINE x == SettledRow(r, Match(r), Props[at[r].prop])
           rows == Append(written[r], x)
<1>0. /\ RunInv(r) /\ CallRecordInv(r) /\ TableInv /\ r \in Clients
      /\ pc[r] = "rows" /\ call[r].step = "returned" /\ call[r].op = "append"
      /\ call[r].row = x /\ RowsInv(r) /\ PlaceInv(r)
  BY DEF RecordInv, BacktestAssumption, RecordRow, RunInv, RowsInv
<1>1. /\ UNCHANGED <<setup, schema, log, locks, locked, excluded, manifests>>
      /\ written' = [written EXCEPT ![r] = rows]
      /\ excluded' = [excluded EXCEPT ![r] = excluded[r]]
      /\ NextRow(r)
  BY <1>0 DEF RecordRow, TableInv
<1>2. x \in Ids(log) /\ x.corrects = <<>> /\ x.match = Match(r) /\ "corrects" \in DOMAIN x
  BY <1>0 DEF CallRecordInv, SettledRow
<1>3. Match(r) \in ToSet(locked[r]) BY <1>0 DEF PlaceInv
<1>4. rows \in Seq(Range(rows)) /\ ToSet(rows) = ToSet(written[r]) \cup {x}
  <2>1. written[r] \in Seq(Range(written[r])) BY <1>0 DEF RunInv
  <2> HIDE DEF x
  <2> QED BY <2>1, NotedRow
<1>5. Len(Props) \in Nat /\ Len(Props) # 0 /\ at[r].prop \in 1..Len(Props)
  BY <1>0 DEF BacktestAssumption, PlaceInv
<1>6. \A n \in 1..at[r].prop : SettledRow(r, Match(r), Props[n]) \in ToSet(rows)
  <2> SUFFICES ASSUME NEW n \in 1..at[r].prop
               PROVE  SettledRow(r, Match(r), Props[n]) \in ToSet(rows)
    OBVIOUS
  <2>1. CASE n = at[r].prop BY <1>4, <2>1
  <2>2. CASE n # at[r].prop
    <3>1. n \in 1..(at[r].prop - 1) BY <1>5, <2>2
    <3> QED BY <1>0, <1>4, <3>1 DEF RowsInv
  <2> QED BY <2>1, <2>2
<1> HIDE DEF x, rows
<1>7. written'[r] = rows /\ ToSet(written[r])' = ToSet(rows)
  BY <1>0, <1>1 DEF TableInv, ToSet
<1>8. WrittenInv(r)'
  BY <1>0, <1>1, <1>2, <1>3, <1>4, <1>7 DEF RunInv, WrittenInv, Ids, RowsOf
<1>9. manifests' = [i \in RunIds |-> manifests'[i]] BY <1>0, <1>1 DEF TableInv, RunIds
<1>10. CASE at[r].prop < Len(Props)
  <2> DEFINE n == at[r].prop + 1
             place == [target |-> at[r].target, prop |-> n]
             k == NewCall("append", SettledRow(r, Match(r), Props[n]))
  <2>1. at' = [at EXCEPT ![r] = place]
    <3>1. at[r] = [target |-> at[r].target, prop |-> at[r].prop] BY <1>0 DEF PlaceInv
    <3>2. [at[r] EXCEPT !.prop = @ + 1] = place BY <3>1
    <3>3. at' = [at EXCEPT ![r] = [at[r] EXCEPT !.prop = @ + 1]]
      BY <1>1, <1>10 DEF NextRow
    <3> QED BY <3>2, <3>3
  <2>2. pc' = [pc EXCEPT ![r] = "rows"] /\ call' = [call EXCEPT ![r] = k]
    BY <1>0, <1>1, <1>10 DEF NextRow, TableInv
  <2>3. pc'[r] = "rows" /\ at'[r] = place /\ call'[r] = k
    BY <1>0, <2>1, <2>2 DEF TableInv, LedgerInv
  <2>4. at'[r].target = at[r].target /\ at'[r].prop = n BY <2>3
  <2>5. n \in 1..Len(Props) /\ n - 1 = at[r].prop /\ n # 1 BY <1>5, <1>10
  <2>6. /\ k.op = "append" /\ k.step = "schema"
        /\ k.row = SettledRow(r, Match(r), Props[n])
    BY DEF NewCall
  <2>7. place = [target |-> place.target, prop |-> place.prop] OBVIOUS
  <2> HIDE DEF n, place, k
  <2>8. Match(r)' = Match(r) BY <1>1, <2>4 DEF Match, Targets
  <2>9. PlaceInv(r)'
    <3>1. Match(r)' \in ToSet(locked[r])' BY <1>1, <1>3, <2>8 DEF ToSet
    <3> QED BY <1>0, <2>3, <2>4, <2>5, <2>7, <3>1 DEF PlaceInv
  <2>10. RowsInv(r)'
    <3>1. \A i \in 1..(n - 1) : SettledRow(r, Match(r), Props[i]) \in ToSet(rows)
      BY <1>6, <2>5
    <3>2. \A i : SettledRow(r, Match(r), Props[i])' = SettledRow(r, Match(r), Props[i])
      BY <2>8 DEF SettledRow
    <3>3. call'[r].op = "append" /\ call'[r].row = SettledRow(r, Match(r)', Props[n])
      BY <2>3, <2>6, <2>8
    <3> QED BY <1>7, <2>4, <2>8, <3>1, <3>3 DEF RowsInv, SettledRow
  <2>11. ChainInv(r)' BY <2>3 DEF ChainInv
  <2>12. CallRecordInv(r)'
    BY <2>3, <2>6 DEF CallRecordInv, SettledRow
  <2>13. /\ pc[r] \notin {"done", "aborted", "killed"} /\ call[r].row \in ToSet(rows)
         /\ "rows" \in {"reveal", "rows"}
         /\ \A i \in RunIds : manifests'[i] = manifests[i]
    BY <1>0, <1>1, <1>4
  <2> QED BY <1>1, <1>4, <1>8, <1>9, <2>1, <2>2, <2>8, <2>9, <2>10, <2>11, <2>12, <2>13,
             RunGoesOn
<1>11. CASE ~ (at[r].prop < Len(Props))
  <2> DEFINE place == [target |-> at[r].target + 1, prop |-> 1]
  <2>1. /\ at' = [at EXCEPT ![r] = place] /\ pc' = [pc EXCEPT ![r] = "target"]
        /\ call' = [call EXCEPT ![r] = NoCall]
    BY <1>1, <1>11 DEF NextRow, NextTarget, Goto
  <2>2. pc'[r] = "target" /\ at'[r] = place /\ call'[r] = NoCall
    BY <1>0, <2>1 DEF TableInv, LedgerInv
  <2>3. PlaceInv(r)' BY <1>0, <1>5, <2>2 DEF PlaceInv
  <2>4. ChainInv(r)' BY <2>2 DEF ChainInv
  <2>5. CallRecordInv(r)' BY <2>2 DEF CallRecordInv, NoCall
  <2>6. NoCall.op = "none" BY DEF NoCall
  <2>7. Through(r, Match(r), ToSet(rows), excluded[r])
    <3>1. ASSUME NEW p \in ToSet(Props) PROVE SettledRow(r, Match(r), p) \in ToSet(rows)
      <4>1. DOMAIN Props = 1..Len(Props) BY DEF BacktestAssumption
      <4>2. PICK n \in 1..Len(Props) : p = Props[n] BY <3>1, <4>1 DEF ToSet
      <4>3. n \in 1..at[r].prop BY <1>5, <1>11, <4>2
      <4> QED BY <1>6, <4>2, <4>3
    <3> QED BY <3>1 DEF Through, RowsFor
  <2>8. /\ pc[r] \notin {"done", "aborted", "killed"} /\ call[r].row \in ToSet(rows)
        /\ \A i \in RunIds : manifests'[i] = manifests[i]
        /\ "target" # "rows" /\ ToSet(written[r]) \subseteq ToSet(rows)
    BY <1>0, <1>1, <1>4
  <2> HIDE DEF place
  <2> QED BY <1>1, <1>4, <1>8, <1>9, <2>1, <2>3, <2>4, <2>5, <2>6, <2>7, <2>8, RunGoesOn
<1> QED BY <1>10, <1>11

LEMMA VerifyRecord ==
  ASSUME BacktestAssumption, LedgerInv, RecordInv, NEW r \in Runs, VerifyChain(r)
  PROVE  RecordInv'
<1> DEFINE k == NewCall("verify", None)
<1> USE DEF VerifyChain
<1>0. RunInv(r) /\ TableInv /\ r \in Clients BY DEF RecordInv, BacktestAssumption
<1>1. /\ pc' = [pc EXCEPT ![r] = "chain"] /\ at' = [at EXCEPT ![r] = at[r]]
      /\ call' = [call EXCEPT ![r] = k]
      /\ written' = [written EXCEPT ![r] = written[r]]
      /\ excluded' = [excluded EXCEPT ![r] = excluded[r]]
      /\ UNCHANGED <<schema, log>>
  BY <1>0 DEF Begin, Goto, TableInv
<1>2. pc'[r] = "chain" /\ at'[r] = at[r] /\ call'[r] = k
  BY <1>0, <1>1 DEF TableInv, LedgerInv
<1>3. k.op = "verify" /\ k.step = "exists" BY DEF NewCall
<1> HIDE DEF k
<1>4. PlaceInv(r)' BY <1>0, <1>2 DEF RunInv, PlaceInv
<1>5. WrittenInv(r)' BY <1>0, <1>1 DEF RunInv, WrittenInv, Ids, RowsOf
<1>6. ChainInv(r)' BY <1>2, <1>3 DEF ChainInv
<1>7. CallRecordInv(r)' BY <1>2, <1>3 DEF CallRecordInv
<1>8. /\ written[r] \in Seq(Range(written[r]))
      /\ manifests' = [i \in RunIds |-> manifests'[i]]
  BY <1>0 DEF RunInv, TableInv, RunIds
<1>9. /\ pc[r] \notin {"done", "aborted", "killed", "rows", "reveal"}
      /\ UNCHANGED <<setup, schema, log, locks, locked>>
      /\ \A i \in RunIds : manifests'[i] = manifests[i]
      /\ k.op \in {"none", "verify", "terminal"} /\ "chain" # "rows"
  BY <1>1, <1>3
<1> HIDE DEF VerifyChain
<1> QED BY <1>1, <1>4, <1>5, <1>6, <1>7, <1>8, <1>9, RunGoesOn

\* A run with its digest, about to publish, or done.
LEMMA PublishingRecord ==
  ASSUME BacktestAssumption, LedgerInv, RecordInv, NEW r \in Runs,
         UNCHANGED <<setup, schema, log, call, at, locks, locked, written, excluded>>,
         pc[r] \in {"chain", "publish"}, call[r].op = "terminal", call[r].step = "returned",
         NEW step \in {"publish", "done"}, pc' = [pc EXCEPT ![r] = step],
         \/ UNCHANGED manifests
         \/ step = "done" /\ manifests' = [manifests EXCEPT ![RunIdOf[r]] = Manifest(r)]
  PROVE  RecordInv'
<1>0. RunInv(r) /\ CallRecordInv(r) /\ TableInv /\ r \in Clients
  BY DEF RecordInv, BacktestAssumption
<1>1. /\ at' = [at EXCEPT ![r] = at[r]] /\ call' = [call EXCEPT ![r] = call[r]]
      /\ written' = [written EXCEPT ![r] = written[r]]
      /\ excluded' = [excluded EXCEPT ![r] = excluded[r]]
  BY <1>0 DEF TableInv, LedgerInv
<1>2. pc'[r] = step BY <1>0 DEF TableInv
<1>3. Anchored(call[r].last, ToSet(written[r])) BY <1>0 DEF RunInv, ChainInv
<1>4. \A last, rows : Anchored(last, rows) => Anchored(last, rows)'
  BY SameLogKept DEF Kept
<1>5. PlaceInv(r)' BY <1>0, <1>2 DEF RunInv, PlaceInv
<1>6. WrittenInv(r)' BY <1>0 DEF RunInv, WrittenInv, Ids, RowsOf
<1>7. ChainInv(r)'
  <2>1. ToSet(written[r])' = ToSet(written[r]) BY DEF ToSet
  <2>2. Anchored(call[r].last, ToSet(written[r]))' BY <1>3, <2>1 DEF Anchored, RowsOf
  <2> QED BY <1>2, <2>2 DEF ChainInv
<1>8. CallRecordInv(r)' BY <1>0 DEF CallRecordInv, Ids, RowsOf
<1>9. /\ written[r] \in Seq(Range(written[r]))
      /\ manifests' = [i \in RunIds |-> manifests'[i]]
  BY <1>0 DEF RunInv, TableInv, RunIds
<1>10. ASSUME NEW i \in RunIds, manifests'[i] # manifests[i] PROVE ManifestInv(i)'
  <2>1. step = "done" /\ manifests'[i] = Manifest(r) BY <1>0, <1>10 DEF TableInv
  <2>2. /\ manifests'[i].by = r /\ manifests'[i].locks = ToSet(locked[r])
        /\ manifests'[i].rows = ToSet(written[r])
        /\ manifests'[i].excluded = excluded[r]
        /\ manifests'[i].terminal = call[r].last
    BY <2>1 DEF Manifest
  <2>3. Anchored(manifests'[i].terminal, manifests'[i].rows) BY <1>3, <2>2
  <2>4. Anchored(manifests[i].terminal, manifests[i].rows)' BY <2>3 DEF Anchored, RowsOf
  <2> QED BY <1>2, <2>1, <2>2, <2>4 DEF ManifestInv, ToSet
<1>11. /\ call[r].op \in {"none", "verify", "terminal"}
       /\ pc[r] \notin {"done", "aborted", "killed", "rows", "reveal"} /\ step # "rows"
  OBVIOUS
<1> QED BY <1>1, <1>5, <1>6, <1>7, <1>8, <1>9, <1>10, <1>11, RunGoesOn
LEMMA RunRecord ==
  ASSUME BacktestAssumption, SetupInv, LedgerInv, RecordInv, NEW r \in Runs, Run(r)
  PROVE  RecordInv'
<1>0. /\ RunInv(r) /\ CallRecordInv(r) /\ TableInv /\ r \in Clients
      /\ call = [call EXCEPT ![r] = call[r]]
  BY DEF RecordInv, BacktestAssumption, LedgerInv
<1>1. ASSUME NEW reason, SkipTarget(r, reason) PROVE RecordInv'
  <2>1. /\ pc[r] = "target" /\ Exclude(r, reason)
        /\ UNCHANGED <<setup, schema, log, locks, locked, written, manifests>>
        /\ call' = [call EXCEPT ![r] = call[r]]
    BY <1>0, <1>1 DEF SkipTarget, AtTarget, ledgerVars
  <2> QED BY <2>1, RunExcludes
<1>2. CASE LockTarget(r) BY <1>2, LockTargetRecord
<1>3. ASSUME Abort(r), UNCHANGED ledgerVars, pc[r] \in {"target", "reveal"} PROVE RecordInv'
  BY <1>3, RunStops DEF Abort, Goto, ledgerVars
<1>4. CASE RevealOutcome(r) BY <1>4, RevealRecord
<1>5. CASE OutcomeUnfit(r)
  <2>1. /\ pc[r] = "reveal" /\ Exclude(r, "reconciliation")
        /\ UNCHANGED <<setup, schema, log, locks, locked, written, manifests>>
        /\ call' = [call EXCEPT ![r] = call[r]]
    BY <1>0, <1>5 DEF OutcomeUnfit, ledgerVars
  <2> QED BY <2>1, RunExcludes
<1>6. CASE RecordRow(r) BY <1>6, RecordRowRecord
<1>7. CASE RowRefused(r)
  <2>1. /\ pc[r] = "rows" /\ Exclude(r, "reconciliation") /\ call[r].step = "failed"
        /\ UNCHANGED <<setup, schema, log, locks, locked, written, manifests>>
        /\ call' = [call EXCEPT ![r] = NoCall]
    BY <1>7 DEF RowRefused
  <2> QED BY <2>1, RunExcludes
<1>8. CASE VerifyChain(r) BY <1>8, VerifyRecord
<1>9. CASE LookForManifest(r)
  <2>1. /\ pc[r] = "chain"
        /\ UNCHANGED <<setup, at, locks, locked, written, excluded, manifests>>
        /\ UNCHANGED <<schema, log, call>>
    BY <1>9 DEF LookForManifest, ledgerVars
  <2>2. CASE pc' = [pc EXCEPT ![r] = "aborted"] BY <2>1, <2>2, RunStops
  <2>3. CASE pc' = [pc EXCEPT ![r] = "publish"] /\ call[r].step = "returned"
    <3>1. call[r].op = "terminal" BY <1>0, <2>1, <2>3 DEF RunInv, ChainInv, CallRecordInv
    <3> QED BY <2>1, <2>3, <3>1, PublishingRecord
  <2> QED BY <1>9, <2>2, <2>3 DEF LookForManifest, Goto
<1>10. CASE PublishManifest(r)
  <2>1. /\ pc[r] = "publish" /\ call[r].op = "terminal" /\ call[r].step = "returned"
        /\ UNCHANGED <<setup, at, locks, locked, written, excluded, schema, log, call>>
    BY <1>0, <1>10 DEF PublishManifest, ledgerVars, RunInv, ChainInv
  <2>2. CASE /\ manifests' = [manifests EXCEPT ![RunIdOf[r]] = Manifest(r)]
             /\ pc' = [pc EXCEPT ![r] = "done"]
    BY <2>1, <2>2, PublishingRecord
  <2>3. CASE pc' = [pc EXCEPT ![r] = "aborted"] /\ UNCHANGED manifests
    BY <2>1, <2>3, RunStops
  <2> QED BY <1>10, <2>2, <2>3 DEF PublishManifest, Goto
<1>11. CASE KillRun(r)
  <2>1. /\ pc[r] \notin {"done", "aborted", "killed"} /\ pc' = [pc EXCEPT ![r] = "killed"]
        /\ call' = [call EXCEPT ![r] = NoCall]
        /\ UNCHANGED <<setup, schema, log, at, locks, locked, written, excluded, manifests>>
    BY <1>11 DEF KillRun, Goto
  <2> QED BY <2>1, RunStops
<1>12. CASE LockRefused(r) BY <1>3, <1>12 DEF LockRefused, AtTarget
<1>13. CASE OutcomeMissing(r) BY <1>3, <1>13 DEF OutcomeMissing
<1> QED BY <1>1, <1>2, <1>4, <1>5, <1>6, <1>7, <1>8, <1>9, <1>10, <1>11, <1>12, <1>13
     DEF Run
-----------------------------------------------------------------------------
(* The steps of a call, whoever makes it. *)

\* A run's call goes on as what it is; a digest it returns is the log's.
CallGoesOn(c, k) ==
  /\ c \in Runs =>
       /\ call[c].step # "returned"
       /\ call[c].op = "append" => k.op = "append" /\ k.row = call[c].row
       /\ call[c].op = "none" => k.op = "none"
       /\ call[c].op \in {"verify", "terminal"} => k.op \in {"verify", "terminal"}
  /\ k.op = "terminal" /\ k.step = "returned" => Anchored(k.last, Ids(log))

LEMMA LedgerMovesRecord ==
  ASSUME BacktestAssumption, LedgerInv, RecordInv, NEW c \in Clients, UNCHANGED runVars,
         NEW k, call' = [call EXCEPT ![c] = k], CallGoesOn(c, k), Kept,
         schema = "stamped" => schema' = "stamped",
         CallRecordInv(c)', LogInv'
  PROVE  RecordInv'
<1> USE DEF runVars
<1>1. call'[c] = k /\ \A d \in Clients \ {c} : call'[d] = call[d] BY DEF LedgerInv
<1>2. Runs \subseteq Clients BY DEF BacktestAssumption
<1>3. LocksKept BY DEF LocksKept
<1>4. ASSUME NEW r \in Runs PROVE RunInv(r)'
  <2>0. RunInv(r) BY DEF RecordInv
  <2>1. CASE r # c
    <3>1. Idle(r) BY <1>1, <1>2, <2>1 DEF Idle
    <3> QED BY <1>3, <2>0, <3>1, IdleRun
  <2>2. CASE r = c
    <3>1. Match(r)' = Match(r) BY DEF Match, Targets
    <3>2. PlaceInv(r)' BY <2>0, <3>1 DEF RunInv, PlaceInv
    <3>3. LockedInv(r)' BY <2>0, <3>1 DEF RunInv, LockedInv, Through, RowsFor, SettledRow,
                           Matches
    <3>4. WrittenInv(r)' BY <2>0 DEF RunInv, WrittenInv, Kept
    <3>5. pc[r] = "rows" => RowsInv(r)'
      BY <1>1, <2>0, <2>2, <3>1 DEF RunInv, RowsInv, SettledRow, CallGoesOn
    <3>6. pc[r] # "rows" => k.op \in {"none", "verify", "terminal"}
      BY <2>0, <2>2 DEF RunInv, CallGoesOn
    <3>7. k.op = "terminal" /\ k.step = "returned" => Anchored(k.last, ToSet(written[r]))'
      <4>1. ToSet(written[r]) \subseteq Ids(log) BY <2>0 DEF RunInv, WrittenInv
      <4>2. ASSUME Anchored(k.last, Ids(log)) PROVE Anchored(k.last, ToSet(written[r]))
        BY <4>1, <4>2 DEF Anchored
      <4>3. ASSUME Anchored(k.last, ToSet(written[r]))
            PROVE  Anchored(k.last, ToSet(written[r]))'
        <5>1. ToSet(written[r])' = ToSet(written[r]) BY DEF ToSet
        <5>2. \A last, rows : Anchored(last, rows) => Anchored(last, rows)' BY DEF Kept
        <5> QED BY <4>3, <5>1, <5>2 DEF Anchored
      <4> QED BY <4>2, <4>3 DEF CallGoesOn
    <3>8. ChainInv(r)'
      BY <1>1, <2>0, <2>2, <3>7 DEF RunInv, ChainInv, CallGoesOn
    <3> QED BY <1>1, <2>0, <2>2, <3>2, <3>3, <3>4, <3>5, <3>6, <3>8 DEF RunInv
  <2> QED BY <2>1, <2>2
<1>5. ASSUME NEW d \in Clients, d # c PROVE CallRecordInv(d)'
  BY <1>1, <1>5 DEF RecordInv, CallRecordInv, Kept
<1>6. \A i \in RunIds : ManifestInv(i)'
  <2> SUFFICES ASSUME NEW i \in RunIds, manifests[i] # None PROVE ManifestInv(i)'
    BY DEF ManifestInv
  <2>1. ManifestInv(i) BY DEF RecordInv
  <2>2. Anchored(manifests[i].terminal, manifests[i].rows)'
    <3>1. Anchored(manifests[i].terminal, manifests[i].rows) BY <2>1 DEF ManifestInv
    <3>2. \A last, rows : Anchored(last, rows) => Anchored(last, rows)' BY DEF Kept
    <3> QED BY <3>1, <3>2 DEF Anchored
  <2> QED BY <2>1, <2>2 DEF ManifestInv, ToSet
<1>7. TableInv' /\ \A m \in Matches : locks'[m] \in Runs \cup {None}
  BY DEF RecordInv, TableInv, Matches, RunIds
<1> QED BY <1>4, <1>5, <1>6, <1>7 DEF RecordInv, Matches, RunIds

LEMMA OldRowsAccounted ==
  ASSUME BacktestAssumption, LedgerInv, RecordInv, NEW c \in Clients, UNCHANGED runVars,
         NEW k, call' = [call EXCEPT ![c] = k], CallGoesOn(c, k),
         NEW x \in Ids(log), x.corrects = <<>>
  PROVE  Accounted(x)'
<1>1. \A d \in Clients \ {c} : call'[d] = call[d] BY DEF LedgerInv
<1>2. Accounted(x) BY DEF RecordInv, LogInv
<1>3. PICK r \in Runs : locks[x.match] = r BY <1>2 DEF Accounted
<1>4. r = c => call[r].step # "returned" BY DEF CallGoesOn
<1>5. r \in Clients BY DEF BacktestAssumption
<1> QED BY <1>1, <1>2, <1>3, <1>4, <1>5 DEF Accounted, runVars, Matches

LEMMA QuietMovesRecord ==
  ASSUME BacktestAssumption, LedgerInv, RecordInv, NEW c \in Clients,
         UNCHANGED <<runVars, log>>,
         NEW k, call' = [call EXCEPT ![c] = k], CallGoesOn(c, k),
         schema = "stamped" => schema' = "stamped",
         CallRecordInv(c)'
  PROVE  RecordInv'
<1>1. Ids(log)' = Ids(log) /\ RowsOf(log)' = RowsOf(log) /\ Terminal(log)' = Terminal(log)
  BY DEF Ids, RowsOf, Terminal, EntryHash
<1>2. \A x \in Ids(log) : x.corrects = <<>> => Accounted(x)' BY OldRowsAccounted
<1>3. LogInv' BY <1>1, <1>2 DEF RecordInv, LogInv
<1> QED BY <1>3, SameLogKept, LedgerMovesRecord

LEMMA FinishRecord ==
  ASSUME BacktestAssumption, LedgerInv, RecordInv, NEW c \in Clients,
         UNCHANGED <<runVars, log>>, NEW step, Finish(c, step),
         schema = "stamped" => schema' = "stamped",
         call[c].step # "returned",
         step = "last" => call[c].op = "terminal",
         step \in {"insert", "select", "last"} => schema' = "stamped",
         step = "returned" =>
           call[c].op = "effective" \/ (call[c].op = "terminal" /\ schema = "absent")
  PROVE  RecordInv'
<1> DEFINE k == [op |-> call[c].op, step |-> step, row |-> call[c].row,
                 seen |-> call[c].seen, last |-> call[c].last]
<1>1. call[c] = CallOf(call[c]) BY DEF LedgerInv, CallInv
<1>2. call' = [call EXCEPT ![c] = k]
  <2>1. [call[c] EXCEPT !.step = step] = k BY <1>1, FieldsOfCall
  <2> QED BY <2>1 DEF Finish
<1>3. call'[c] = k BY <1>2 DEF LedgerInv
<1>4. /\ k.op = call[c].op /\ k.step = step /\ k.row = call[c].row
      /\ k.last = call[c].last
  OBVIOUS
<1> HIDE DEF k
<1>5. CallRecordInv(c) BY DEF RecordInv
<1>6. ASSUME k.op = "terminal", k.step = "returned" PROVE Anchored(k.last, Ids(log))
  <2>1. schema = "absent" /\ k.last = <<>> BY <1>4, <1>5, <1>6 DEF CallRecordInv
  <2>2. log = <<>> BY <2>1 DEF RecordInv, LogInv
  <2>3. Ids(log) = {} /\ RowsOf(log) = <<>> BY <2>2 DEF Ids, RowsOf, ToSet
  <2>4. <<>> \in Seq(Range(<<>>)) OBVIOUS
  <2>5. IsPrefix(<<>>, <<>>) BY <2>4, PrefixOfItself
  <2> QED BY <2>1, <2>3, <2>4, <2>5 DEF Anchored
<1>7. CallGoesOn(c, k) BY <1>4, <1>6 DEF CallGoesOn
<1>8. CallRecordInv(c)' BY <1>3, <1>4, <1>5 DEF CallRecordInv, Ids, RowsOf
<1> QED BY <1>2, <1>7, <1>8, QuietMovesRecord

\* What only operators and readers call, no run does.
LEMMA NoRunReads ==
  ASSUME RecordInv, NEW c, call[c].op \in {"correct", "effective"}
  PROVE  c \notin Runs
  BY DEF RecordInv, RunInv, RowsInv

LEMMA AfterReadRecord ==
  ASSUME BacktestAssumption, LedgerInv, RecordInv, NEW c \in Clients,
         UNCHANGED <<runVars, log, schema>>, call[c].op \in Reads,
         call[c].step # "returned", NEW entries, AfterRead(c, entries)
  PROVE  RecordInv'
<1>0. CallRecordInv(c) BY DEF RecordInv
<1>1. CASE Finish(c, "failed") BY <1>1, FinishRecord DEF Reads
<1>2. CASE Finish(c, "returned") /\ call[c].op = "effective" BY <1>2, FinishRecord
<1>3. CASE /\ call[c].op = "correct"
           /\ call' = [call EXCEPT ![c] = NewCall("append", call[c].row)]
  <2> DEFINE k == NewCall("append", call[c].row)
  <2>1. c \notin Runs BY <1>3, NoRunReads
  <2>2. call' = [call EXCEPT ![c] = k] /\ call'[c] = k BY <1>3 DEF LedgerInv
  <2>3. k.op = "append" /\ k.step = "schema" /\ k.row = call[c].row BY DEF NewCall
  <2> HIDE DEF k
  <2>4. CallGoesOn(c, k) BY <2>1, <2>3 DEF CallGoesOn
  <2>5. CallRecordInv(c)' BY <1>0, <1>3, <2>2, <2>3 DEF CallRecordInv
  <2> QED BY <2>2, <2>4, <2>5, QuietMovesRecord
<1>4. CASE /\ call[c].op = "verify"
           /\ call' = [call EXCEPT ![c] = [NewCall("terminal", None) EXCEPT !.seen = entries]]
  <2> DEFINE k == [op |-> "terminal", step |-> "exists", row |-> None,
                   seen |-> entries, last |-> <<>>]
  <2>1. [NewCall("terminal", None) EXCEPT !.seen = entries] = k BY DEF NewCall
  <2>2. call' = [call EXCEPT ![c] = k] /\ call'[c] = k BY <1>4, <2>1 DEF LedgerInv
  <2>3. k.op = "terminal" /\ k.step = "exists" /\ k.last = <<>> OBVIOUS
  <2> HIDE DEF k
  <2>4. CallGoesOn(c, k) BY <1>4, <2>3 DEF CallGoesOn
  <2>5. CallRecordInv(c)' BY <2>2, <2>3 DEF CallRecordInv
  <2> QED BY <2>2, <2>4, <2>5, QuietMovesRecord
<1> QED BY <1>1, <1>2, <1>3, <1>4 DEF AfterRead, Reads

LEMMA InsertRecord ==
  ASSUME BacktestAssumption, LedgerInv, RecordInv, NEW c \in Clients, InsertRow(c),
         UNCHANGED runVars
  PROVE  RecordInv'
<1>0. /\ call[c].step = "insert" /\ call[c].op = "append" /\ CallRecordInv(c)
      /\ schema = "stamped" /\ UNCHANGED schema /\ call[c] = CallOf(call[c])
  BY DEF InsertRow, LedgerInv, CallInv, RecordInv, CallRecordInv
<1>1. CASE Finish(c, "failed") /\ UNCHANGED log BY <1>0, <1>1, FinishRecord
<1>2. ASSUME log' = Append(log, [row |-> call[c].row, previous |-> Terminal(log)]),
             Finish(c, "returned")
      PROVE  RecordInv'
  <2> DEFINE e == [row |-> call[c].row, previous |-> Terminal(log)]
             k == [op |-> "append", step |-> "returned", row |-> call[c].row,
                   seen |-> call[c].seen, last |-> call[c].last]
  <2>0. PICK row : row = call[c].row OBVIOUS
  <2>1. log \in Seq(Range(log)) BY DEF LedgerInv
  <2>2. log' = Append(log, e) /\ e.row = row /\ e.previous = Terminal(log) BY <1>2, <2>0
  <2>3. call' = [call EXCEPT ![c] = k] /\ call'[c] = k
    <3>1. [call[c] EXCEPT !.step = "returned"] = k BY <1>0, FieldsOfCall
    <3> QED BY <1>2, <3>1 DEF Finish, LedgerInv
  <2>4. k.op = "append" /\ k.step = "returned" /\ k.row = row BY <2>0
  <2>5. "corrects" \in DOMAIN row BY <1>0, <2>0 DEF CallRecordInv
  <2> HIDE DEF e, k
  <2>6. Kept BY <2>2, LongerLogKept
  <2>7. Ids(log)' = Ids(log) \cup {row}
    <3>1. Ids(log)' = Ids(log') BY DEF Ids, RowsOf
    <3> QED BY <2>1, <2>2, <3>1, IdsGrow
  <2>8. CallGoesOn(c, k) BY <1>0, <2>0, <2>4 DEF CallGoesOn
  <2>9. Terminal(log)' = RowsOf(log)'
    <3>1. RowsOf(log') = Append(RowsOf(log), row) BY <2>1, <2>2, RowsOfAppend
    <3>2. Len(log') = Len(log) + 1 /\ Len(log) \in Nat /\ log'[Len(log) + 1] = e
      BY <2>1, <2>2, Appending
    <3>3. log' # <<>> BY <3>2
    <3>4. Terminal(log') = Append(Terminal(log), row)
      BY <2>2, <3>2, <3>3 DEF Terminal, EntryHash
    <3>5. Terminal(log) = RowsOf(log) BY DEF RecordInv, LogInv
    <3>6. Terminal(log)' = Terminal(log') /\ RowsOf(log)' = RowsOf(log')
      BY DEF Terminal, EntryHash, RowsOf
    <3> QED BY <3>1, <3>4, <3>5, <3>6
  <2>10. \A x \in Ids(log) : x.corrects = <<>> => Accounted(x)'
    BY <2>3, <2>8, OldRowsAccounted
  <2>11. ASSUME row.corrects = <<>> PROVE Accounted(row)'
    <3>1. c \in Runs BY <1>0, <2>0, <2>11 DEF CallRecordInv
    <3>2. RunInv(c) BY <3>1 DEF RecordInv
    <3>3. pc[c] = "rows" /\ RowsInv(c) BY <1>0, <3>2 DEF RunInv
    <3>4. row.match = Match(c) BY <2>0, <3>3 DEF RowsInv, SettledRow
    <3>5. Match(c) \in ToSet(locked[c]) BY <3>2, <3>3 DEF RunInv, PlaceInv
    <3>6. row.match \in Matches /\ locks[row.match] = c
      BY <3>2, <3>4, <3>5 DEF RunInv, LockedInv
    <3> QED BY <2>3, <2>4, <3>1, <3>3, <3>6 DEF Accounted, runVars, Matches
  <2>12. LogInv' BY <1>0, <2>5, <2>7, <2>9, <2>10, <2>11 DEF RecordInv, LogInv
  <2>13. CallRecordInv(c)'
    BY <1>0, <2>3, <2>4, <2>5, <2>7, <2>0 DEF CallRecordInv
  <2> QED BY <1>0, <2>3, <2>6, <2>8, <2>12, <2>13, LedgerMovesRecord
<1> QED BY <1>1, <1>2 DEF InsertRow

LEMMA LedgerStepRecord ==
  ASSUME BacktestAssumption, LedgerInv, RecordInv, NEW c \in Clients,
         LedgerStep(c) \/ SqliteError(c), UNCHANGED runVars
  PROVE  RecordInv'
<1>0. CallInv(call[c], log) /\ CallRecordInv(c) BY DEF LedgerInv, RecordInv
<1>1. CASE NoFile(c)
  <2>1. UNCHANGED <<runVars, log, schema>> /\ call[c].step = "exists" /\ schema = "absent"
    BY <1>1 DEF NoFile
  <2>2. CASE call[c].op = "terminal" /\ Finish(c, "returned")
    <3>1. "returned" \notin {"insert", "select", "last"} /\ "returned" # "last" OBVIOUS
    <3> QED BY <2>1, <2>2, <3>1, FinishRecord
  <2>3. CASE call[c].op # "terminal" /\ AfterRead(c, <<>>)
    <3>1. call[c].op \in Reads BY <1>0, <2>1, <2>3 DEF CallInv
    <3> QED BY <2>1, <2>3, <3>1, AfterReadRecord
  <2> QED BY <1>1, <2>2, <2>3 DEF NoFile
<1>2. CASE EnsureSchema(c)
  <2>1. UNCHANGED <<runVars, log>> /\ call[c].step # "returned" BY <1>2 DEF EnsureSchema
  <2>2. CASE schema = "stamped" /\ schema' = schema /\ Finish(c, Body(call[c].op))
    BY <2>1, <2>2, FinishRecord DEF Body
  <2>3. CASE schema # "stamped" /\ Finish(c, "stamp")
    BY <2>1, <2>3, FinishRecord
  <2> QED BY <1>2, <2>2, <2>3 DEF EnsureSchema
<1>3. CASE StampSchema(c)
  <2>1. /\ UNCHANGED <<runVars, log>> /\ call[c].step # "returned" /\ schema' = "stamped"
    BY <1>3 DEF StampSchema
  <2>2. CASE Finish(c, Body(call[c].op)) BY <2>1, <2>2, FinishRecord DEF Body
  <2>3. CASE Finish(c, "failed") BY <2>1, <2>3, FinishRecord
  <2> QED BY <1>3, <2>2, <2>3 DEF StampSchema
<1>4. CASE InsertRow(c) BY <1>4, InsertRecord
<1>5. CASE SelectRows(c)
  <2>1. call[c].op \in Reads BY <1>0, <1>5 DEF SelectRows, CallInv
  <2>2. AfterRead(c, log) /\ UNCHANGED <<runVars, log, schema>> /\ call[c].step = "select"
    BY <1>5 DEF SelectRows, LedgerInv
  <2> QED BY <2>1, <2>2, AfterReadRecord
<1>6. CASE SelectLast(c)
  <2> DEFINE k == [op |-> "terminal", step |-> "returned", row |-> None,
                   seen |-> call[c].seen, last |-> Terminal(log)]
  <2>1. /\ call' = [call EXCEPT ![c] = k] /\ UNCHANGED <<schema, log>>
        /\ call[c].step = "last"
    BY <1>6 DEF SelectLast, LedgerInv
  <2>2. call'[c] = k BY <2>1 DEF LedgerInv
  <2>3. k.op = "terminal" /\ k.step = "returned" /\ k.last = Terminal(log) OBVIOUS
  <2> HIDE DEF k
  <2>4. call[c].op = "terminal" BY <1>0, <2>1 DEF CallRecordInv
  <2>5. Anchored(Terminal(log), Ids(log))
    <3>1. Terminal(log) = RowsOf(log) BY DEF RecordInv, LogInv
    <3>2. RowsOf(log) \in Seq(Range(RowsOf(log))) /\ ToSet(RowsOf(log)) = Ids(log)
      BY RowsOfSequence DEF LedgerInv
    <3>3. IsPrefix(RowsOf(log), RowsOf(log)) BY <3>2, PrefixOfItself
    <3> QED BY <3>1, <3>2, <3>3 DEF Anchored
  <2>6. CallGoesOn(c, k) BY <2>1, <2>3, <2>4, <2>5 DEF CallGoesOn
  <2>7. CallRecordInv(c)' BY <2>2, <2>3 DEF CallRecordInv
  <2> QED BY <2>1, <2>6, <2>7, QuietMovesRecord
<1>7. CASE SqliteError(c)
  <2>1. /\ UNCHANGED <<runVars, log>> /\ schema' = schema /\ Finish(c, "failed")
        /\ call[c].step # "returned"
    BY <1>7 DEF SqliteError
  <2> QED BY <2>1, FinishRecord
<1> QED BY <1>1, <1>2, <1>3, <1>4, <1>5, <1>6, <1>7 DEF LedgerStep

\* An operator or a reader that makes a call.
LEMMA OutsideCallRecord ==
  ASSUME BacktestAssumption, LedgerInv, RecordInv, NEW c \in Clients, c \notin Runs,
         UNCHANGED <<runVars, schema, log>>, NEW op \in Reads, NEW row,
         call' = [call EXCEPT ![c] = NewCall(op, row)],
         op = "correct" => "corrects" \in DOMAIN row /\ row.corrects # <<>>
  PROVE  RecordInv'
<1> DEFINE k == NewCall(op, row)
<1>1. call' = [call EXCEPT ![c] = k] /\ call'[c] = k BY DEF LedgerInv
<1>2. k.op = op /\ k.step = "exists" /\ k.row = row /\ op \in {"correct", "verify", "effective"}
  BY DEF NewCall, Reads
<1> HIDE DEF k
<1>3. CallGoesOn(c, k) BY <1>2 DEF CallGoesOn
<1>4. CallRecordInv(c)' BY <1>1, <1>2 DEF CallRecordInv
<1> QED BY <1>1, <1>3, <1>4, QuietMovesRecord

LEMMA RecordUnderNext ==
  ASSUME BacktestAssumption, SetupInv, LedgerInv, RecordInv, [Next]_vars
  PROVE  RecordInv'
<1>1. CASE UNCHANGED vars
  <2> USE <1>1 DEF vars, runVars, ledgerVars
  <2>1. Kept BY SameLogKept
  <2>2. ASSUME NEW r \in Runs PROVE RunInv(r)'
    BY <2>1, IdleRun DEF RecordInv, Idle, LocksKept
  <2>3. Ids(log)' = Ids(log) /\ RowsOf(log)' = RowsOf(log) /\ Terminal(log)' = Terminal(log)
    BY DEF Ids, RowsOf, Terminal, EntryHash
  <2>4. \A c \in Clients : CallRecordInv(c)' BY <2>3 DEF RecordInv, CallRecordInv
  <2>5. LogInv' BY <2>3 DEF RecordInv, LogInv, Accounted, ToSet, Matches
  <2>6. \A i \in RunIds : ManifestInv(i)'
    <3> SUFFICES ASSUME NEW i \in RunIds, manifests[i] # None PROVE ManifestInv(i)'
      BY DEF ManifestInv
    <3>1. ManifestInv(i) BY DEF RecordInv
    <3>2. Anchored(manifests[i].terminal, manifests[i].rows)'
      BY <2>3, <3>1 DEF ManifestInv, Anchored
    <3> QED BY <3>1, <3>2 DEF ManifestInv, ToSet
  <2> QED BY <2>2, <2>4, <2>5, <2>6 DEF RecordInv, TableInv, Matches, RunIds
<1>2. ASSUME NEW r \in Runs, Run(r) PROVE RecordInv' BY <1>2, RunRecord
<1>3. ASSUME NEW e \in setup.editors, Correct(e) PROVE RecordInv'
  <2>1. e \in Clients /\ e \notin Runs BY DEF BacktestAssumption, SetupInv
  <2>2. PICK original, prop, v :
          /\ "corrects" \in DOMAIN original
          /\ Begin(e, "correct",
                   [original EXCEPT !.prop = prop, !.version = v, !.corrects = <<original>>])
          /\ UNCHANGED runVars
    <3>1. \A x \in Ids(log) : "corrects" \in DOMAIN x BY DEF RecordInv, LogInv
    <3>2. \A r, m, p : "corrects" \in DOMAIN SettledRow(r, m, p) BY DEF SettledRow
    <3> QED BY <1>3, <3>1, <3>2 DEF Correct
  <2> DEFINE row == [original EXCEPT !.prop = prop, !.version = v, !.corrects = <<original>>]
  <2>4. "corrects" \in DOMAIN row /\ row.corrects = <<original>>
    <3> DEFINE base == [original EXCEPT !.prop = prop, !.version = v]
    <3>1. "corrects" \in DOMAIN base BY <2>2
    <3>2. row = [base EXCEPT !.corrects = <<original>>] OBVIOUS
    <3> HIDE DEF base, row
    <3> QED BY <3>1, <3>2
  <2>5. call' = [call EXCEPT ![e] = NewCall("correct", row)] /\ UNCHANGED <<schema, log>>
    BY <2>2 DEF Begin
  <2> HIDE DEF row
  <2>6. row.corrects # <<>> BY <2>4
  <2> QED BY <2>1, <2>2, <2>4, <2>5, <2>6, OutsideCallRecord DEF Reads
<1>4. ASSUME NEW a \in setup.readers, Summarize(a) PROVE RecordInv'
  <2>1. a \in Clients /\ a \notin Runs BY DEF BacktestAssumption, SetupInv
  <2>2. PICK op \in {"verify", "effective"} :
          call' = [call EXCEPT ![a] = NewCall(op, None)] /\ UNCHANGED <<runVars, schema, log>>
    BY <1>4 DEF Summarize, Begin
  <2> QED BY <2>1, <2>2, OutsideCallRecord DEF Reads
<1>5. ASSUME NEW c \in Clients, LedgerCall(c) PROVE RecordInv'
  BY <1>5, LedgerStepRecord DEF LedgerCall
<1> QED BY <1>1, <1>2, <1>3, <1>4, <1>5 DEF Next

LEMMA RecordBinds ==
  ASSUME RecordInv PROVE ManifestBinds
<1> SUFFICES ASSUME NEW i \in RunIds, manifests[i] # None
             PROVE  LET m == manifests[i] IN
               /\ m.rows \subseteq ToSet(m.terminal) /\ IsPrefix(m.terminal, RowsOf(log))
               /\ m.rows = {x \in Ids(log) : x.corrects = <<>> /\ x.match \in m.locks}
               /\ \A l \in m.locks :
                    \/ {SettledRow(m.by, l, p) : p \in ToSet(Props)} \subseteq m.rows
                    \/ <<l, "reconciliation">> \in m.excluded
  BY DEF ManifestBinds
<1> DEFINE m == manifests[i]
           r == m.by
<1>1. /\ r \in Runs /\ pc[r] = "done" /\ m.locks = ToSet(locked[r])
      /\ m.rows = ToSet(written[r]) /\ m.excluded = excluded[r]
      /\ Anchored(m.terminal, m.rows)
  BY DEF RecordInv, ManifestInv
<1> HIDE DEF m, r
<1>2. RunInv(r) BY <1>1 DEF RecordInv
<1>3. m.rows \subseteq {x \in Ids(log) : x.corrects = <<>> /\ x.match \in m.locks}
  BY <1>1, <1>2 DEF RunInv, WrittenInv
<1>4. ASSUME NEW x \in Ids(log), x.corrects = <<>>, x.match \in m.locks
      PROVE  x \in m.rows
  <2>1. locks[x.match] = r BY <1>1, <1>2, <1>4 DEF RunInv, LockedInv
  <2>2. Accounted(x) BY <1>4 DEF RecordInv, LogInv
  <2> QED BY <1>1, <2>1, <2>2 DEF Accounted
<1>5. ASSUME NEW l \in m.locks
      PROVE  \/ {SettledRow(r, l, p) : p \in ToSet(Props)} \subseteq m.rows
             \/ <<l, "reconciliation">> \in m.excluded
  BY <1>1, <1>2, <1>5 DEF RunInv, LockedInv, Through, RowsFor
<1>6. m.rows \subseteq ToSet(m.terminal) /\ IsPrefix(m.terminal, RowsOf(log))
  BY <1>1 DEF Anchored
<1> QED BY <1>3, <1>4, <1>5, <1>6 DEF m, r

\* Whatever fails, is killed or runs at the same time, a manifest that is
\* published names all the rows the ledger has for its locks, under a digest
\* that the ledger had and extends, and excludes every lock that lacks one.
THEOREM ManifestsAlwaysBind ==
  ASSUME BacktestAssumption PROVE Spec => []ManifestBinds
<1>1. Init => LedgerInv /\ SetupInv /\ RecordInv
  BY InitLedgerInv, InitRecordInv DEF Init, SetupInv
<1>2. LedgerInv /\ SetupInv /\ RecordInv /\ [Next]_vars
        => (LedgerInv /\ SetupInv /\ RecordInv)'
  BY LedgerUnderNext, SetupStays, RecordUnderNext
<1>3. RecordInv => ManifestBinds BY RecordBinds
<1> QED BY <1>1, <1>2, <1>3, PTL DEF Spec

\* Of two runs with one id that race to publish, one does: its manifest is
\* never replaced.
THEOREM ManifestsAlwaysFinal ==
  ASSUME BacktestAssumption PROVE Spec => ManifestsFinal
<1> DEFINE Inv == manifests = [i \in RunIds |-> manifests[i]]
<1>1. Init => Inv BY DEF Init
<1>2. Inv /\ [Next]_vars =>
        Inv' /\ \A i \in RunIds : manifests[i] # None => manifests'[i] = manifests[i]
  <2> SUFFICES ASSUME Inv, [Next]_vars
               PROVE  /\ Inv'
                      /\ \A i \in RunIds : manifests[i] # None => manifests'[i] = manifests[i]
    OBVIOUS
  <2>1. CASE UNCHANGED manifests BY <2>1 DEF RunIds
  <2>2. ASSUME NEW r \in Runs, PublishManifest(r), manifests' # manifests
        PROVE  /\ Inv'
               /\ \A i \in RunIds : manifests[i] # None => manifests'[i] = manifests[i]
    <3>1. /\ manifests[RunIdOf[r]] = None
          /\ manifests' = [manifests EXCEPT ![RunIdOf[r]] = Manifest(r)]
      BY <2>2 DEF PublishManifest
    <3> QED BY <3>1 DEF RunIds
  <2>3. ASSUME \A r \in Runs : ~ PublishManifest(r) PROVE UNCHANGED manifests
    BY <2>3 DEF Next, Run, SkipTarget, LockTarget, LockRefused, Abort, RevealOutcome,
       OutcomeUnfit, OutcomeMissing, RecordRow, RowRefused, VerifyChain, LookForManifest,
       KillRun, Correct, Summarize, LedgerCall, vars, runVars
  <2> QED BY <2>1, <2>2, <2>3
<1>3. Inv /\ Inv' /\ [Next]_vars =>
        [\A i \in RunIds : manifests[i] # None => manifests'[i] = manifests[i]]_vars
  BY <1>2
<1> HIDE DEF Inv
<1> QED BY <1>1, <1>2, <1>3, PTL DEF Spec, ManifestsFinal
-----------------------------------------------------------------------------
(* What effective_rows returns. *)

\* Numbers up to a bound can be gone through one by one.
LEMMA InductionTo ==
  ASSUME NEW n \in Nat, NEW S, 0 \in S, \A k \in 0..n : k < n /\ k \in S => k + 1 \in S
  PROVE  0..n \subseteq S
<1> DEFINE T == {k \in 0..n : k \notin S}
           R == StrictSubsetOrdering(0..n)
<1>1. SUFFICES ASSUME T # {} PROVE FALSE
  OBVIOUS
<1>2. IsWellFoundedOn(R, SUBSET (0..n))
  <2>1. IsFiniteSet(0..n)
    BY FS_Interval
  <2> QED
    BY <2>1, FS_StrictSubsetOrderingWellFounded, FS_FiniteSubsetsOfFinite
<1>3. {T \cap (0..k) : k \in T} \subseteq SUBSET (0..n) /\ {T \cap (0..k) : k \in T} # {}
  BY <1>1
<1> HIDE DEF R
<1>4. PICK A \in {T \cap (0..k) : k \in T} :
        \A B \in {T \cap (0..k) : k \in T} : <<B, A>> \notin R
  BY <1>2, <1>3, WFMin
<1>5. PICK k \in T : A = T \cap (0..k)
  BY <1>4
<1>6. k \in 1..n
  OBVIOUS
<1>7. k - 1 \in 0..n /\ k - 1 < n /\ (k - 1) + 1 = k
  BY <1>6
<1>8. k - 1 \in T
  BY <1>7
<1> DEFINE B == T \cap (0..(k - 1))
<1>9. B \in {T \cap (0..j) : j \in T}
  BY <1>8
<1>10. <<B, A>> \in R
  <2>1. B \subseteq A /\ k \in A /\ k \notin B
    BY <1>5, <1>6
  <2>2. A \in SUBSET (0..n) /\ B \in SUBSET (0..n)
    BY <1>5
  <2> QED
    BY <2>1, <2>2 DEF R, StrictSubsetOrdering
<1> QED
  BY <1>4, <1>9, <1>10

Distinct(s) == \A i, j \in 1..Len(s) : s[i].row = s[j].row => i = j

\* The original of every row: a correction comes after what it corrects.
OriginalsIn(s) ==
  CHOOSE f : f = [x \in Ids(s) |-> IF x.corrects = <<>> THEN x ELSE f[x.corrects[1]]]
LEMMA OriginalsDefined ==
  ASSUME NEW s, s \in Seq(Range(s)), Verifies(s), Distinct(s)
  PROVE  \A x \in Ids(s) :
           OriginalsIn(s)[x] = IF x.corrects = <<>> THEN x ELSE OriginalsIn(s)[x.corrects[1]]
<1> DEFINE e(f, x) == IF x.corrects = <<>> THEN x ELSE f[x.corrects[1]]
<1>1. PICK n : n = Len(s)
  OBVIOUS
<1>2. n \in Nat /\ Ids(s) = {s[i].row : i \in 1..n} /\ DOMAIN s = 1..n
  BY <1>1, IdsOfSequence
<1>3. PICK D : D = [m \in 0..n |-> {s[i].row : i \in 1..m}]
  OBVIOUS
<1>4. ASSUME NEW m \in 0..n PROVE D[m] = {s[i].row : i \in 1..m}
  BY <1>3
<1>5. PICK S : S = {m \in 0..n : \E f : f = [x \in D[m] |-> e(f, x)]}
  OBVIOUS
<1>6. 0 \in S
  <2>1. D[0] = {} /\ 0 \in 0..n
    BY <1>2, <1>4
  <2>2. PICK f : f = [x \in {} |-> x]
    OBVIOUS
  <2>3. f = [x \in D[0] |-> e(f, x)]
    BY <2>1, <2>2
  <2> QED
    BY <1>5, <2>1, <2>3
<1>7. ASSUME NEW m \in 0..n, m < n /\ m \in S PROVE m + 1 \in S
  <2>1. PICK f : f = [x \in D[m] |-> e(f, x)]
    BY <1>5, <1>7
  <2>2. m + 1 \in 1..n /\ m + 1 \in 0..n /\ m \in Nat
    BY <1>2, <1>7
  <2>3. PICK r : r = s[m + 1].row
    OBVIOUS
  <2>4. D[m + 1] = D[m] \cup {r}
    <3>1. \A i : i \in 1..(m + 1) <=> i \in 1..m \/ i = m + 1
      BY <2>2
    <3> QED
      BY <1>4, <2>2, <2>3, <3>1
  <2>5. r \notin D[m]
    <3>1. ASSUME NEW i \in 1..m, s[i].row = r PROVE FALSE
      <4>1. i \in 1..n /\ i # m + 1
        BY <1>2, <2>2
      <4> QED
        BY <1>1, <2>2, <2>3, <3>1, <4>1 DEF Distinct
    <3> QED
      BY <1>4, <3>1
  <2>6. PICK h : h = [x \in D[m + 1] |-> IF x = r THEN e(f, r) ELSE f[x]]
    OBVIOUS
  <2>7. ASSUME NEW i \in 1..(m + 1), s[i].row.corrects # <<>>
        PROVE  s[i].row.corrects[1] \in D[m]
    <3>1. i \in 1..n
      BY <1>2, <2>2
    <3>2. Follows(s, i)
      BY <1>2, <3>1 DEF Verifies
    <3>3. PICK j \in 1..(i - 1) : s[j].row = s[i].row.corrects[1]
      BY <2>7, <3>2 DEF Follows
    <3>4. j \in 1..m
      BY <2>2
    <3> QED
      BY <1>4, <3>3, <3>4
  <2>8. \A x \in D[m] : h[x] = f[x]
    BY <2>4, <2>5, <2>6
  <2>9. ASSUME NEW x \in D[m + 1] PROVE h[x] = e(h, x)
    <3>1. PICK i \in 1..(m + 1) : x = s[i].row
      BY <1>4, <2>2
    <3>2. x.corrects # <<>> => x.corrects[1] \in D[m]
      BY <2>7, <3>1
    <3>3. e(f, x) = e(h, x)
      BY <2>8, <3>2
    <3>4. CASE x = r
      BY <2>6, <3>3, <3>4
    <3>5. CASE x # r
      <4>1. x \in D[m]
        BY <2>4, <3>5
      <4>2. f[x] = e(f, x)
        BY <2>1, <4>1
      <4> QED
        BY <2>8, <3>3, <4>1, <4>2
    <3> QED
      BY <3>4, <3>5
  <2>10. h = [x \in D[m + 1] |-> e(h, x)]
    BY <2>6, <2>9
  <2> QED
    BY <1>5, <2>2, <2>10
<1>8. n \in S
  <2>1. 0..n \subseteq S
    BY <1>2, <1>6, <1>7, InductionTo
  <2> QED
    BY <1>2, <2>1
<1>9. D[n] = Ids(s)
  BY <1>2, <1>4
<1>10. \E f : f = [x \in Ids(s) |-> e(f, x)]
  BY <1>5, <1>8, <1>9
<1>11. OriginalsIn(s) = [x \in Ids(s) |-> e(OriginalsIn(s), x)]
  <2>1. OriginalsIn(s) = CHOOSE f : f = [x \in Ids(s) |-> e(f, x)]
    BY DEF OriginalsIn
  <2> QED
    BY <1>10, <2>1
<1> QED
  BY <1>11

\* The pass over the rows.
WithRow(before, row) ==
  LET root == RootOf(before.root, row)
  IN  [root |-> [r \in DOMAIN before.root \cup {row} |->
                   IF r = row THEN root ELSE before.root[r]],
       active |-> [r \in DOMAIN before.active \cup {root} |->
                     IF r = root THEN row ELSE before.active[r]]]
PassOver(s) ==
  CHOOSE f : f = [n \in 0..Len(s) |-> IF n = 0 THEN [root |-> <<>>, active |-> <<>>]
                                      ELSE WithRow(f[n - 1], s[n].row)]
LEMMA PassDefined ==
  ASSUME NEW s, s \in Seq(Range(s))
  PROVE  /\ PassOver(s)[0] = [root |-> <<>>, active |-> <<>>]
         /\ \A n \in 1..Len(s) : PassOver(s)[n] = WithRow(PassOver(s)[n - 1], s[n].row)
<1> DEFINE e(f, k) == IF k = 0 THEN [root |-> <<>>, active |-> <<>>]
                               ELSE WithRow(f[k - 1], s[k].row)
<1>1. PICK n : n = Len(s)
  OBVIOUS
<1>2. n \in Nat
  BY <1>1
<1>3. PICK S : S = {m \in 0..n : \E f : f = [k \in 0..m |-> e(f, k)]}
  OBVIOUS
<1>4. 0 \in S
  <2>1. PICK f : f = [k \in 0..0 |-> [root |-> <<>>, active |-> <<>>]]
    OBVIOUS
  <2>2. f = [k \in 0..0 |-> e(f, k)]
    BY <2>1
  <2>3. 0 \in 0..n
    BY <1>2
  <2> QED
    BY <1>3, <2>2, <2>3
<1>5. ASSUME NEW m \in 0..n, m < n /\ m \in S PROVE m + 1 \in S
  <2>1. PICK f : f = [k \in 0..m |-> e(f, k)]
    BY <1>3, <1>5
  <2>2. m + 1 \in 0..n /\ m \in Nat
    BY <1>2, <1>5
  <2>3. PICK h : h = [k \in 0..(m + 1) |-> IF k = m + 1 THEN e(f, k) ELSE f[k]]
    OBVIOUS
  <2>4. \A k \in 0..m : h[k] = f[k]
    BY <2>2, <2>3
  <2>5. ASSUME NEW k \in 0..(m + 1) PROVE h[k] = e(h, k)
    <3>1. k = 0 \/ h[k - 1] = f[k - 1]
      BY <2>2, <2>4
    <3>2. e(h, k) = e(f, k)
      BY <3>1
    <3>3. k = m + 1 \/ (k \in 0..m /\ f[k] = e(f, k))
      BY <2>1, <2>2
    <3> QED
      BY <2>3, <2>4, <3>2, <3>3
  <2>6. h = [k \in 0..(m + 1) |-> e(h, k)]
    BY <2>3, <2>5
  <2> QED
    BY <1>3, <2>2, <2>6
<1>6. n \in S
  <2>1. 0..n \subseteq S
    BY <1>2, <1>4, <1>5, InductionTo
  <2> QED
    BY <1>2, <2>1
<1>7. PassOver(s) = [k \in 0..n |-> e(PassOver(s), k)]
  <2>1. PassOver(s) = CHOOSE f : f = [k \in 0..n |-> e(f, k)]
    BY <1>1 DEF PassOver
  <2>2. \E f : f = [k \in 0..n |-> e(f, k)]
    BY <1>3, <1>6
  <2> QED
    BY <2>1, <2>2
<1> QED
  BY <1>1, <1>2, <1>7

\* After the first k rows the pass knows their originals, and the last of
\* them with each.
IsLatest(s, k, i) ==
  \A j \in (i + 1)..k : OriginalsIn(s)[s[j].row] # OriginalsIn(s)[s[i].row]
PassKnows(s, k) ==
  LET p == PassOver(s)[k]
  IN  /\ DOMAIN p.root = {s[i].row : i \in 1..k}
      /\ \A i \in 1..k : p.root[s[i].row] = OriginalsIn(s)[s[i].row]
      /\ DOMAIN p.active = {OriginalsIn(s)[s[i].row] : i \in 1..k}
      /\ \A r \in DOMAIN p.active : \E i \in 1..k :
           /\ OriginalsIn(s)[s[i].row] = r /\ p.active[r] = s[i].row
           /\ IsLatest(s, k, i)

\* One more row.
LEMMA PassGoesOn ==
  ASSUME NEW s, s \in Seq(Range(s)), Verifies(s), Distinct(s),
         NEW k \in Nat, k + 1 <= Len(s), PassKnows(s, k)
  PROVE  PassKnows(s, k + 1)
<1>1. PICK p : p = PassOver(s)[k]
  OBVIOUS
<1>2. PICK q : q = PassOver(s)[k + 1]
  OBVIOUS
<1>3. PICK row : row = s[k + 1].row
  OBVIOUS
<1>4. PICK O : O = OriginalsIn(s)
  OBVIOUS
<1>5. PICK root : root = RootOf(p.root, row)
  OBVIOUS
<1>6. k + 1 \in 1..Len(s) /\ Len(s) \in Nat /\ DOMAIN s = 1..Len(s)
  OBVIOUS
<1>7. \A i : i \in 1..(k + 1) <=> i \in 1..k \/ i = k + 1
  OBVIOUS
<1>8. q = WithRow(p, row)
  BY <1>1, <1>2, <1>3, <1>6, PassDefined
<1>9. /\ q.root = [r \in DOMAIN p.root \cup {row} |-> IF r = row THEN root ELSE p.root[r]]
      /\ q.active = [r \in DOMAIN p.active \cup {root} |-> IF r = root THEN row ELSE p.active[r]]
  BY <1>5, <1>8 DEF WithRow
<1>10. /\ DOMAIN p.root = {s[i].row : i \in 1..k}
       /\ \A i \in 1..k : p.root[s[i].row] = O[s[i].row]
       /\ DOMAIN p.active = {O[s[i].row] : i \in 1..k}
       /\ \A r \in DOMAIN p.active : \E i \in 1..k :
            O[s[i].row] = r /\ p.active[r] = s[i].row /\ IsLatest(s, k, i)
  BY <1>1, <1>4 DEF PassKnows
<1>11. \A i \in 1..k : s[i].row # row
  BY <1>3, <1>6 DEF Distinct
<1>12. root = O[row]
  <2>1. row \in Ids(s)
    BY <1>3, <1>6, IdsOfSequence
  <2>2. O[row] = IF row.corrects = <<>> THEN row ELSE O[row.corrects[1]]
    BY <1>4, <2>1, OriginalsDefined
  <2>3. CASE row.corrects # <<>>
    <3>1. PICK j \in 1..k : s[j].row = row.corrects[1]
      BY <1>3, <1>6, <2>3 DEF Verifies, Follows
    <3>2. p.root[row.corrects[1]] = O[row.corrects[1]]
      BY <1>10, <3>1
    <3> QED
      BY <1>5, <2>2, <2>3, <3>2 DEF RootOf
  <2> QED
    BY <1>5, <2>2, <2>3 DEF RootOf
<1>13. DOMAIN q.root = {s[i].row : i \in 1..(k + 1)}
  BY <1>3, <1>7, <1>9, <1>10
<1>14. ASSUME NEW i \in 1..(k + 1) PROVE q.root[s[i].row] = O[s[i].row]
  <2>1. CASE i = k + 1
    BY <1>3, <1>9, <1>12, <2>1
  <2>2. CASE i \in 1..k
    BY <1>9, <1>10, <1>11, <2>2
  <2> QED
    BY <1>7, <2>1, <2>2
<1>15. DOMAIN q.active = {O[s[i].row] : i \in 1..(k + 1)}
  BY <1>3, <1>7, <1>9, <1>10, <1>12
<1>16. ASSUME NEW r \in DOMAIN q.active
       PROVE  \E i \in 1..(k + 1) :
                O[s[i].row] = r /\ q.active[r] = s[i].row /\ IsLatest(s, k + 1, i)
  <2>1. CASE r = root
    <3>1. IsLatest(s, k + 1, k + 1)
      BY DEF IsLatest
    <3> QED
      BY <1>3, <1>7, <1>9, <1>12, <2>1, <3>1
  <2>2. CASE r # root
    <3>1. r \in DOMAIN p.active /\ q.active[r] = p.active[r]
      BY <1>9, <2>2
    <3>2. PICK i \in 1..k : O[s[i].row] = r /\ p.active[r] = s[i].row /\ IsLatest(s, k, i)
      BY <1>10, <3>1
    <3>3. IsLatest(s, k + 1, i)
      <4>1. ASSUME NEW j \in (i + 1)..(k + 1) PROVE O[s[j].row] # O[s[i].row]
        <5>1. j \in (i + 1)..k \/ j = k + 1
          OBVIOUS
        <5> QED
          BY <1>3, <1>4, <1>12, <2>2, <3>2, <5>1 DEF IsLatest
      <4> QED
        BY <1>4, <4>1 DEF IsLatest
    <3> QED
      BY <1>7, <3>1, <3>2, <3>3
  <2> QED
    BY <2>1, <2>2
<1> QED
  BY <1>2, <1>4, <1>13, <1>14, <1>15, <1>16 DEF PassKnows

\* In a log that verifies, with no row twice, it returns the latest rows.
LEMMA LatestReturned ==
  ASSUME NEW s, s \in Seq(Range(s)), Verifies(s), Distinct(s)
  PROVE  Effective(s) = {s[i].row : i \in {i \in 1..Len(s) : IsLatest(s, Len(s), i)}}
<1>1. PICK n : n = Len(s)
  OBVIOUS
<1>2. n \in Nat
  BY <1>1
<1>3. PICK S : S = {k \in 0..n : PassKnows(s, k)}
  OBVIOUS
<1>4. 0 \in S
  <2>1. PassOver(s)[0] = [root |-> <<>>, active |-> <<>>]
    BY PassDefined
  <2>2. PassKnows(s, 0)
    BY <2>1 DEF PassKnows
  <2> QED
    BY <1>2, <1>3, <2>2
<1>5. ASSUME NEW k \in 0..n, k < n /\ k \in S PROVE k + 1 \in S
  <2>1. PassKnows(s, k) /\ k \in Nat /\ k + 1 <= Len(s) /\ k + 1 \in 0..n
    BY <1>1, <1>2, <1>3, <1>5
  <2>2. PassKnows(s, k + 1)
    BY <2>1, PassGoesOn
  <2> QED
    BY <1>3, <2>1, <2>2
<1>6. PassKnows(s, n)
  <2>1. 0..n \subseteq S
    BY <1>2, <1>4, <1>5, InductionTo
  <2> QED
    BY <1>2, <1>3, <2>1
<1>7. PICK p : p = PassOver(s)[n]
  OBVIOUS
<1>8. Effective(s) = Range(p.active)
  BY <1>1, <1>7 DEF Effective, PassOver, WithRow
<1>9. PICK O : O = OriginalsIn(s)
  OBVIOUS
<1>10. /\ DOMAIN p.active = {O[s[i].row] : i \in 1..n}
       /\ \A r \in DOMAIN p.active : \E i \in 1..n :
            O[s[i].row] = r /\ p.active[r] = s[i].row /\ IsLatest(s, n, i)
  BY <1>6, <1>7, <1>9 DEF PassKnows
<1>11. ASSUME NEW x \in Range(p.active) PROVE \E i \in 1..n : x = s[i].row /\ IsLatest(s, n, i)
  BY <1>10 DEF Range
<1>12. ASSUME NEW i \in 1..n, IsLatest(s, n, i) PROVE s[i].row \in Range(p.active)
  <2>1. O[s[i].row] \in DOMAIN p.active
    BY <1>10
  <2>2. PICK j \in 1..n : /\ O[s[j].row] = O[s[i].row] /\ p.active[O[s[i].row]] = s[j].row
                          /\ IsLatest(s, n, j)
    BY <1>10, <2>1
  <2>3. ~ j \in (i + 1)..n /\ ~ i \in (j + 1)..n
    BY <1>9, <1>12, <2>2 DEF IsLatest
  <2>4. i = j
    BY <1>2, <2>3
  <2> QED
    BY <2>1, <2>2, <2>4 DEF Range
<1> QED
  BY <1>1, <1>8, <1>11, <1>12

\* append looks for the row before it inserts it.
LEMMA DistinctKept ==
  ASSUME LedgerInv, Distinct(log), [Next]_vars
  PROVE  Distinct(log)'
<1>1. CASE UNCHANGED log
  BY <1>1 DEF Distinct
<1>2. ASSUME NEW c \in Clients, InsertRow(c), call[c].row \notin Ids(log) PROVE Distinct(log)'
  <2> DEFINE e == [row |-> call[c].row, previous |-> Terminal(log)]
  <2>1. log' = Append(log, e) /\ e.row = call[c].row
    BY <1>2 DEF InsertRow
  <2>2. log \in Seq(Range(log))
    BY DEF LedgerInv
  <2> HIDE DEF e
  <2>3. /\ Len(log) \in Nat /\ Len(log') = Len(log) + 1
        /\ \A i \in 1..Len(log) : log'[i] = log[i]
        /\ log'[Len(log) + 1] = e
    BY <2>1, <2>2, Appending
  <2>4. \A i \in 1..Len(log) : log[i].row # e.row
    BY <1>2, <2>1, <2>2, IdsOfSequence
  <2>5. \A i : i \in 1..Len(log') <=> i \in 1..Len(log) \/ i = Len(log) + 1
    BY <2>3
  <2> QED
    BY <2>3, <2>4, <2>5 DEF Distinct
<1>3. ASSUME NEW c \in Clients, InsertRow(c), call[c].row \in Ids(log) PROVE UNCHANGED log
  BY <1>3 DEF InsertRow
<1> QED
  BY <1>1, <1>2, <1>3, LogUnlessInsert

\* Whatever clients append and correct, in whatever order: effective_rows
\* returns, of every lineage of corrections, the row appended last.
THEOREM EffectiveAlwaysLatest ==
  ASSUME BacktestAssumption PROVE Spec => []EffectiveIsLatest
<1>1. Init => LedgerInv /\ SetupInv /\ Distinct(log)
  BY InitLedgerInv DEF Init, SetupInv, LedgerInit, Distinct
<1>2. LedgerInv /\ SetupInv /\ Distinct(log) /\ [Next]_vars
        => (LedgerInv /\ SetupInv /\ Distinct(log))'
  BY LedgerUnderNext, SetupStays, DistinctKept
<1>3. ASSUME LedgerInv, Distinct(log) PROVE EffectiveIsLatest
  <2>1. log \in Seq(Range(log)) /\ Verifies(log) /\ DOMAIN log = 1..Len(log)
    BY <1>3 DEF LedgerInv
  <2>2. Effective(log) = {log[i].row : i \in {i \in 1..Len(log) : IsLatest(log, Len(log), i)}}
    BY <1>3, <2>1, LatestReturned
  <2> QED
    BY <2>1, <2>2 DEF EffectiveIsLatest, IsLatest, OriginalsIn
<1> QED
  BY <1>1, <1>2, <1>3, PTL DEF Spec
=============================================================================
