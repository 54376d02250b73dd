----------------------------- MODULE LockStore -----------------------------
(***************************************************************************)
(* The publication of one lock revision in locking/store.py: concurrent    *)
(* LockStore.write calls (Writers), operators that quarantine what a dead  *)
(* call left behind (Operators), crashes, I/O errors, and changes of the   *)
(* retained artifacts underneath.  Files of different revisions never      *)
(* meet, so one base_lock_id and revision is the whole store.              *)
(***************************************************************************)
EXTENDS Naturals, FiniteSets

CONSTANTS Writers,        \* calls of write for this revision
          Operators,      \* calls of quarantine_stale_publication
          ContentOf,      \* the lock content each call was given
          None,
          Crashes,        \* may a process die in the middle of a call?
          Faults,         \* may a file operation raise OSError?
          Tampering,      \* may the retained artifacts change?
          AgeIsSafe       \* is minimum_age longer than any live call takes?

Contents == {ContentOf[w] : w \in Writers}

ASSUME StoreAssumption ==
  /\ None \notin Writers /\ None \notin Contents
  /\ {Crashes, Faults, Tampering, AgeIsSafe} \subseteq BOOLEAN

VARIABLES pc,           \* where each write call is
          result,       \* what it returned or raised
          place,        \* where its directory is: absent, partial, failed, target
          files,        \* what the directory holds: nothing, payload, manifest too
          reservation,  \* the call whose token is in L{n}.reserve, or None
          intact,       \* do the retained artifacts hash as the lock says?
          qpc,          \* where each quarantine call is
          listed        \* the partial directories it still has to move

vars == <<pc, result, place, files, reservation, intact, qpc, listed>>

Steps == {"idle", "check", "reserve", "mkdtemp", "payload", "manifest", "verify",
          "rename", "unlink", "load"}
Outcomes == {"published", "exists", "conflict", "integrity", "storeError"}

Init ==
  /\ pc = [w \in Writers |-> "idle"]
  /\ result = [w \in Writers |-> "none"]
  /\ place = [w \in Writers |-> "absent"]
  /\ files = [w \in Writers |-> "nothing"]
  /\ reservation = None
  /\ intact = TRUE
  /\ qpc = [o \in Operators |-> "idle"]
  /\ listed = [o \in Operators |-> {}]

Goto(w, step) == pc' = [pc EXCEPT ![w] = step] /\ UNCHANGED result
Return(w, outcome) ==
  /\ pc' = [pc EXCEPT ![w] = "done"]
  /\ result' = [result EXCEPT ![w] = outcome]

AtTarget == {w \in Writers : place[w] = "target"}
Dead(w) == pc[w] \in {"done", "crashed"}

-----------------------------------------------------------------------------
(* LockStore.write, one action per operation on shared files. *)

VerifyArtifacts(w) ==
  /\ pc[w] = "idle"
  /\ IF intact THEN Goto(w, "check") ELSE Return(w, "integrity")
  /\ UNCHANGED <<place, files, reservation, intact, qpc, listed>>

\* target.exists() in _reserve
CheckTarget(w) ==
  /\ pc[w] = "check"
  /\ IF AtTarget = {} THEN Goto(w, "reserve") ELSE Return(w, "exists")
  /\ UNCHANGED <<place, files, reservation, intact, qpc, listed>>

\* os.open(O_CREAT | O_EXCL)
Reserve(w) ==
  /\ pc[w] = "reserve"
  /\ IF reservation = None
     THEN reservation' = w /\ Goto(w, "mkdtemp")
     ELSE Return(w, "conflict") /\ UNCHANGED reservation
  /\ UNCHANGED <<place, files, intact, qpc, listed>>

MakeTemporary(w) ==
  /\ pc[w] = "mkdtemp"
  /\ place' = [place EXCEPT ![w] = "partial"]
  /\ Goto(w, "payload")
  /\ UNCHANGED <<files, reservation, intact, qpc, listed>>

\* lock.json and card.md, then manifest.json; a directory that was moved
\* away fails the write.
WriteFiles(w, step, written, next) ==
  /\ pc[w] = step
  /\ IF place[w] = "partial"
     THEN files' = [files EXCEPT ![w] = written] /\ Goto(w, next)
     ELSE Return(w, "storeError") /\ UNCHANGED files
  /\ UNCHANGED <<place, reservation, intact, qpc, listed>>

\* Fault: the directory is published before its manifest is written.
WritePayloadLast(w) == WriteFiles(w, "payload", "payload", "rename")

WritePayload(w) == WriteFiles(w, "payload", "payload", "manifest")

WriteLockManifest(w) == WriteFiles(w, "manifest", "complete", "verify")

VerifyTemporary(w) ==
  /\ pc[w] = "verify"
  /\ IF place[w] = "partial" /\ files[w] = "complete"
     THEN Goto(w, "rename") ELSE Return(w, "integrity")
  /\ UNCHANGED <<place, files, reservation, intact, qpc, listed>>

\* Fault: the rename replaces a published revision (os.replace of a file).
RenameReplaces(w) ==
  /\ pc[w] = "rename"
  /\ IF place[w] = "partial"
     THEN /\ place' = [v \in Writers |-> IF v = w THEN "target"
                          ELSE IF place[v] = "target" THEN "absent" ELSE place[v]]
          /\ Goto(w, "unlink")
     ELSE Return(w, "storeError") /\ UNCHANGED place
  /\ UNCHANGED <<files, reservation, intact, qpc, listed>>

\* Fault: a target that is there already counts as published.
RenameForgiving(w) ==
  /\ pc[w] = "rename" /\ Goto(w, "unlink")
  /\ place' = [place EXCEPT ![w] = IF AtTarget = {} THEN "target" ELSE @]
  /\ UNCHANGED <<files, reservation, intact, qpc, listed>>

\* os.rename replaces no non-empty directory: EEXIST is FileExistsError, while
\* ENOTEMPTY, the other error POSIX allows, is a plain OSError.
Rename(w) ==
  /\ pc[w] = "rename"
  /\ CASE place[w] # "partial" -> Return(w, "storeError") /\ UNCHANGED place
       [] place[w] = "partial" /\ AtTarget = {} ->
            place' = [place EXCEPT ![w] = "target"] /\ Goto(w, "unlink")
       [] OTHER -> /\ \E error \in {"exists", "storeError"} : Return(w, error)
                   /\ UNCHANGED place
  /\ UNCHANGED <<files, reservation, intact, qpc, listed>>

\* reservation.unlink(): by path, whoever's token the file holds.
Unlink(w) ==
  /\ pc[w] = "unlink"
  /\ IF reservation # None
     THEN reservation' = None /\ Goto(w, "load")
     ELSE Return(w, "storeError") /\ UNCHANGED reservation
  /\ UNCHANGED <<place, files, intact, qpc, listed>>

\* The final load verifies the target and the retained artifacts again.
Load(w) ==
  /\ pc[w] = "load"
  /\ Return(w, IF intact THEN "published" ELSE "integrity")
  /\ UNCHANGED <<place, files, reservation, intact, qpc, listed>>

Write(w) ==
  \/ VerifyArtifacts(w) \/ CheckTarget(w) \/ Reserve(w) \/ MakeTemporary(w)
  \/ WritePayload(w) \/ WriteLockManifest(w) \/ VerifyTemporary(w) \/ Rename(w)
  \/ Unlink(w) \/ Load(w)

\* An OSError of the operation at hand, or one of write's interrupt_at points:
\* the reservation and the directory stay.
Fault(w) ==
  /\ Faults
  /\ pc[w] \in {"mkdtemp", "payload", "manifest", "rename", "unlink"}
  /\ Return(w, "storeError")
  /\ UNCHANGED <<place, files, reservation, intact, qpc, listed>>

Crash(w) ==
  /\ Crashes
  /\ pc[w] \in Steps \ {"idle"}
  /\ Goto(w, "crashed")
  /\ UNCHANGED <<place, files, reservation, intact, qpc, listed>>

\* Someone else changes a retained artifact.
Tamper ==
  /\ Tampering /\ intact
  /\ intact' = FALSE
  /\ UNCHANGED <<pc, result, place, files, reservation, qpc, listed>>

-----------------------------------------------------------------------------
(* quarantine_stale_publication *)

\* incomplete_publications lists by reservation; the age test is what keeps it
\* from a live call, if minimum_age is long enough.
ListPublication(o) ==
  /\ qpc[o] = "idle" /\ reservation # None
  /\ AgeIsSafe => Dead(reservation)
  /\ qpc' = [qpc EXCEPT ![o] = "moving"]
  /\ listed' = [listed EXCEPT ![o] = {w \in Writers : place[w] = "partial"}]
  /\ UNCHANGED <<pc, result, place, files, reservation, intact>>

StopOperator(o) ==
  /\ qpc' = [qpc EXCEPT ![o] = "idle"]
  /\ listed' = [listed EXCEPT ![o] = {}]

\* One path.rename of a listed directory; it raises when the path is gone.
MoveTemporary(o) ==
  /\ qpc[o] = "moving"
  /\ \E w \in listed[o] :
       IF place[w] = "partial"
       THEN /\ place' = [place EXCEPT ![w] = "failed"]
            /\ listed' = [listed EXCEPT ![o] = @ \ {w}]
            /\ UNCHANGED qpc
       ELSE StopOperator(o) /\ UNCHANGED place
  /\ UNCHANGED <<pc, result, files, reservation, intact>>

\* Fault: the reservation is moved before the directories it lists.
MoveReservationFirst(o) ==
  /\ qpc[o] = "moving"
  /\ reservation' = None
  /\ StopOperator(o)
  /\ UNCHANGED <<pc, result, place, files, intact>>

\* Last the reservation path, whoever's token it holds by now.
MoveReservation(o) ==
  /\ qpc[o] = "moving" /\ listed[o] = {}
  /\ reservation' = None
  /\ StopOperator(o)
  /\ UNCHANGED <<pc, result, place, files, intact>>

OperatorCrash(o) ==
  /\ Crashes /\ qpc[o] = "moving"
  /\ StopOperator(o)
  /\ UNCHANGED <<pc, result, place, files, reservation, intact>>

Quarantine(o) == ListPublication(o) \/ MoveTemporary(o) \/ MoveReservation(o)

Next ==
  \/ \E w \in Writers : Write(w) \/ Fault(w) \/ Crash(w)
  \/ \E o \in Operators : Quarantine(o) \/ OperatorCrash(o)
  \/ Tamper

Spec == Init /\ [][Next]_vars

-----------------------------------------------------------------------------
(***************************************************************************)
(* Properties.                                                             *)
(***************************************************************************)

TypeOK ==
  /\ pc \in [Writers -> Steps \union {"done", "crashed"}]
  /\ result \in [Writers -> Outcomes \union {"none"}]
  /\ place \in [Writers -> {"absent", "partial", "failed", "target"}]
  /\ files \in [Writers -> {"nothing", "payload", "complete"}]
  /\ reservation \in Writers \union {None}
  /\ intact \in BOOLEAN
  /\ qpc \in [Operators -> {"idle", "moving"}]
  /\ listed \in [Operators -> SUBSET Writers]

\* The revision directory is one call's directory, and it holds all three
\* files: a reader of L{n} never sees a partial or a mixed lock, whatever
\* crashed or was quarantined.
TargetIsWhole ==
  \A w \in AtTarget : files[w] = "complete" /\ AtTarget = {w}

\* What write returns is true: a call that returns the path published its own
\* content, and a call told that the revision exists was told so by a
\* published revision.
OutcomesTruthful ==
  \A w \in Writers :
    /\ result[w] = "published" => place[w] = "target"
    /\ result[w] = "exists" => AtTarget \ {w} # {}

\* The store as a register: a published revision is set once and for all.
Publisher == CHOOSE w \in Writers : place[w] = "target"
Published == IF AtTarget = {} THEN None ELSE ContentOf[Publisher]
Register == INSTANCE WriteOnce WITH Values <- Contents, Unset <- None,
                                    value <- Published
RegisterSpec == Register!Spec

\* Nobody loses a reservation while working under it: the reservation of a
\* live call is released by that call alone.
ReservationHeld ==
  [][\A w \in Writers :
       reservation = w /\ ~Dead(w) /\ reservation' # w => pc[w] = "unlink"]_vars

\* What a dead call left behind can be found again: as long as its partial
\* directory is there, there is a reservation under which
\* incomplete_publications lists it.
LeftoversListed ==
  (\E w \in Writers : place[w] = "partial" /\ Dead(w)) => reservation # None

\* The outcomes the concurrency test allows two calls of write to have.
ConcurrentOutcomesExpected ==
  \A w \in Writers : result[w] \in {"none", "published", "conflict", "exists"}
=============================================================================
