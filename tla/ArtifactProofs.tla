---------------------------- MODULE ArtifactProofs ----------------------------
(***************************************************************************)
(* Theorems about directories that keep artifacts. LockStore, for any      *)
(* writers, operators and crashes: PublicationInv is what keeps a          *)
(* published revision whole and final; ReservationInv is the stronger      *)
(* discipline that holds when minimum_age outlasts every live call and one *)
(* operator works at a time. RallyPosterior, for any number of updaters    *)
(* with any captures, stopped anywhere: ChainInv is about the artifacts,   *)
(* and does not depend on what updaters do at once; UpdaterInv says that   *)
(* what one is writing is its own, and that what it builds on is complete. *)
(* ModelSnapshots, for any fits, any commands stopped anywhere and any     *)
(* replacement of directories: Sound says what a snapshot refers to and    *)
(* where its identity comes from, DirectoryInv that every directory holds  *)
(* such snapshots, whatever has become of the artifacts.                   *)
(***************************************************************************)
EXTENDS LockStore, RallyPosterior, ModelSnapshots, FiniteNumbers,
        FiniteSetTheorems, TLAPS

(* The lock store *)

\* A call owns no published directory before its rename, and owns the only
\* one after it; what it renames is complete.
Publication(w) ==
  /\ pc[w] \in {"idle", "check", "reserve", "mkdtemp", "payload", "manifest",
                "verify", "rename"} => place[w] # "target"
  /\ pc[w] \in {"unlink", "load"} => place[w] = "target"
  /\ pc[w] = "rename" => files[w] = "complete"
  /\ place[w] = "target" => files[w] = "complete"
  /\ result[w] = "published" => place[w] = "target"
  /\ result[w] = "exists" => \E v \in Writers \ {w} : place[v] = "target"

AtMostOneTarget ==
  \A v, w \in Writers : place[v] = "target" /\ place[w] = "target" => v = w

PublicationInv == TypeOK /\ AtMostOneTarget /\ \A w \in Writers : Publication(w)

LEMMA InitPublication == Init => PublicationInv
  BY StoreAssumption DEF Init, PublicationInv, TypeOK, AtMostOneTarget, Publication, Steps, Outcomes

-----------------------------------------------------------------------------
\* The fields keep their types.
LEMMA TypeStep == TypeOK /\ [Next]_vars => TypeOK'
<1> SUFFICES ASSUME TypeOK, [Next]_vars PROVE TypeOK'
  OBVIOUS
<1> USE StoreAssumption DEF TypeOK, Goto, Return, Steps, Outcomes
<1>1. ASSUME NEW w \in Writers, Write(w) PROVE TypeOK'
  <2>1. CASE VerifyArtifacts(w) BY <2>1 DEF VerifyArtifacts
  <2>2. CASE CheckTarget(w) BY <2>2 DEF CheckTarget
  <2>3. CASE Reserve(w) BY <2>3 DEF Reserve
  <2>4. CASE MakeTemporary(w) BY <2>4 DEF MakeTemporary
  <2>5. CASE WritePayload(w) BY <2>5 DEF WritePayload, WriteFiles
  <2>6. CASE WriteLockManifest(w) BY <2>6 DEF WriteLockManifest, WriteFiles
  <2>7. CASE VerifyTemporary(w) BY <2>7 DEF VerifyTemporary
  <2>8. CASE Rename(w) BY <2>8 DEF Rename
  <2>9. CASE Unlink(w) BY <2>9 DEF Unlink
  <2>10. CASE Load(w) BY <2>10 DEF Load
  <2> QED
    BY <1>1, <2>1, <2>2, <2>3, <2>4, <2>5, <2>6, <2>7, <2>8, <2>9, <2>10 DEF Write
<1>2. ASSUME NEW w \in Writers, Fault(w) \/ Crash(w) PROVE TypeOK'
  BY <1>2 DEF Fault, Crash
<1>3. ASSUME NEW o \in Operators, Quarantine(o) \/ OperatorCrash(o) PROVE TypeOK'
  <2>1. CASE ListPublication(o) BY <2>1 DEF ListPublication
  <2>2. CASE MoveTemporary(o) BY <2>2 DEF MoveTemporary, StopOperator
  <2>3. CASE MoveReservation(o) BY <2>3 DEF MoveReservation, StopOperator
  <2>4. CASE OperatorCrash(o) BY <2>4 DEF OperatorCrash, StopOperator
  <2> QED BY <1>3, <2>1, <2>2, <2>3, <2>4 DEF Quarantine
<1>4. CASE Tamper BY <1>4 DEF Tamper
<1>5. CASE UNCHANGED vars BY <1>5 DEF vars
<1> QED BY <1>1, <1>2, <1>3, <1>4, <1>5 DEF Next

\* Every step keeps at most one complete published directory.
LEMMA PublicationStep == PublicationInv /\ [Next]_vars => PublicationInv'
<1> SUFFICES ASSUME PublicationInv, [Next]_vars
             PROVE AtMostOneTarget' /\ \A w \in Writers : Publication(w)'
  BY TypeStep DEF PublicationInv
<1> DEFINE Goal == AtMostOneTarget' /\ \A w \in Writers : Publication(w)'
<1> SUFFICES Goal OBVIOUS
<1> USE DEF PublicationInv, TypeOK, AtMostOneTarget, Publication, Goto, Return
<1>1. ASSUME NEW w \in Writers, Write(w) PROVE Goal
  <2>1. CASE VerifyArtifacts(w) BY <2>1 DEF VerifyArtifacts
  <2>2. CASE CheckTarget(w) BY <2>2 DEF CheckTarget, AtTarget
  <2>3. CASE Reserve(w) BY <2>3 DEF Reserve
  <2>4. CASE MakeTemporary(w) BY <2>4 DEF MakeTemporary
  <2>5. CASE WritePayload(w) BY <2>5 DEF WritePayload, WriteFiles
  <2>6. CASE WriteLockManifest(w) BY <2>6 DEF WriteLockManifest, WriteFiles
  <2>7. CASE VerifyTemporary(w) BY <2>7 DEF VerifyTemporary
  <2>8. CASE Rename(w) BY <2>8 DEF Rename, AtTarget
  <2>9. CASE Unlink(w) BY <2>9 DEF Unlink
  <2>10. CASE Load(w) BY <2>10 DEF Load
  <2> QED
    BY <1>1, <2>1, <2>2, <2>3, <2>4, <2>5, <2>6, <2>7, <2>8, <2>9, <2>10 DEF Write
<1>2. ASSUME NEW w \in Writers, Fault(w) \/ Crash(w) PROVE Goal
  BY <1>2 DEF Fault, Crash, Steps
<1>3. ASSUME NEW o \in Operators, Quarantine(o) \/ OperatorCrash(o) PROVE Goal
  <2>1. CASE ListPublication(o) BY <2>1 DEF ListPublication
  <2>2. CASE MoveTemporary(o) BY <2>2 DEF MoveTemporary, StopOperator
  <2>3. CASE MoveReservation(o) BY <2>3 DEF MoveReservation, StopOperator
  <2>4. CASE OperatorCrash(o) BY <2>4 DEF OperatorCrash, StopOperator
  <2> QED BY <1>3, <2>1, <2>2, <2>3, <2>4 DEF Quarantine
<1>4. CASE Tamper BY <1>4 DEF Tamper
<1>5. CASE UNCHANGED vars BY <1>5 DEF vars
<1> QED BY <1>1, <1>2, <1>3, <1>4, <1>5 DEF Next

LEMMA PublicationAlways == Spec => []PublicationInv
  BY InitPublication, PublicationStep, PTL DEF Spec

\* Type correctness of the store's state.
THEOREM StoreTypes == Spec => []TypeOK
<1>1. PublicationInv => TypeOK BY DEF PublicationInv
<1> QED BY <1>1, PublicationAlways, PTL

\* A reader of L{n} sees one call's whole directory, whatever crashed, failed
\* or was quarantined, and however short minimum_age is.
THEOREM TargetAlwaysWhole == Spec => []TargetIsWhole
<1>1. PublicationInv => TargetIsWhole
  BY DEF PublicationInv, AtMostOneTarget, Publication, TargetIsWhole, AtTarget
<1> QED BY <1>1, PublicationAlways, PTL

\* What a write call returns about the revision is true.
THEOREM OutcomesAlwaysTruthful == Spec => []OutcomesTruthful
<1>1. PublicationInv => OutcomesTruthful
  BY DEF PublicationInv, Publication, OutcomesTruthful, AtTarget
<1> QED BY <1>1, PublicationAlways, PTL

-----------------------------------------------------------------------------
\* Only Rename touches the published directory, and only when there is none.
LEMMA TargetsStep ==
  ASSUME PublicationInv, [Next]_vars
  PROVE AtTarget' = AtTarget
        \/ \E w \in Writers : AtTarget = {} /\ AtTarget' = {w}
<1> USE DEF AtTarget, PublicationInv, TypeOK, Goto, Return
<1>1. ASSUME NEW w \in Writers, Write(w)
      PROVE AtTarget' = AtTarget \/ (AtTarget = {} /\ AtTarget' = {w})
  <2>1. CASE MakeTemporary(w)
    BY <2>1 DEF MakeTemporary, Publication
  <2>2. CASE Rename(w)
    BY <2>2 DEF Rename
  <2> QED
    BY <1>1, <2>1, <2>2 DEF Write, VerifyArtifacts, CheckTarget, Reserve, WritePayload,
       WriteLockManifest, WriteFiles, VerifyTemporary, Unlink, Load
<1>2. ASSUME NEW w \in Writers, Fault(w) \/ Crash(w) PROVE AtTarget' = AtTarget
  BY <1>2 DEF Fault, Crash
<1>3. ASSUME NEW o \in Operators, Quarantine(o) \/ OperatorCrash(o)
      PROVE AtTarget' = AtTarget
  BY <1>3 DEF Quarantine, OperatorCrash, ListPublication, MoveTemporary, MoveReservation, StopOperator
<1>4. CASE Tamper BY <1>4 DEF Tamper
<1>5. CASE UNCHANGED vars BY <1>5 DEF vars
<1> QED BY <1>1, <1>2, <1>3, <1>4, <1>5 DEF Next

\* The store implements a write-once register: no sequence of calls, crashes
\* and quarantines replaces or withdraws a published revision.
THEOREM StoreIsWriteOnce == Spec => RegisterSpec
<1>1. Init => Register!Init
  BY DEF Init, Register!Init, Published, AtTarget
<1>2. PublicationInv /\ [Next]_vars => [Register!Next]_Published
  <2> SUFFICES ASSUME PublicationInv, [Next]_vars PROVE [Register!Next]_Published
    OBVIOUS
  <2>1. ASSUME AtTarget' = AtTarget PROVE Published' = Published
    <3>1. \A w \in Writers : (place'[w] = "target") <=> (place[w] = "target")
      BY <2>1 DEF AtTarget
    <3>2. Publisher' = Publisher BY <3>1 DEF Publisher
    <3> QED BY <2>1, <3>2 DEF Published
  <2>2. ASSUME NEW w \in Writers, AtTarget = {}, AtTarget' = {w}
        PROVE Register!Next
    <3>1. Published = None BY <2>2 DEF Published
    <3>2. \A v \in Writers : (place'[v] = "target") <=> v = w BY <2>2 DEF AtTarget
    <3>3. Publisher' = w BY <3>2 DEF Publisher
    <3>4. Published' = ContentOf[w] BY <2>2, <3>3 DEF Published
    <3> QED BY <3>1, <3>4 DEF Register!Next, Register!Publish, Contents
  <2> QED BY <2>1, <2>2, TargetsStep
<1> QED BY <1>1, <1>2, PublicationAlways, PTL DEF Spec, RegisterSpec, Register!Spec

-----------------------------------------------------------------------------
(* The reservation, when minimum_age is safe and operators take turns. *)

OneAtATime == AgeIsSafe /\ \A o, p \in Operators : o = p

\* A call works under its own reservation and leaves it with its directory;
\* an operator has listed every partial directory of a call that is dead.
ReservationInv ==
  /\ \A w \in Writers :
       /\ pc[w] \in {"mkdtemp", "payload", "manifest", "verify", "rename", "unlink"}
            => reservation = w
       /\ place[w] = "partial" => reservation = w
       /\ reservation = w => pc[w] \notin {"idle", "check", "reserve", "load"}
       /\ pc[w] \in {"idle", "check", "reserve", "mkdtemp"} => place[w] = "absent"
  /\ \A o \in Operators : qpc[o] = "moving" =>
       /\ reservation # None /\ Dead(reservation)
       /\ \A w \in Writers : place[w] = "partial" => w \in listed[o]

SafeInv == PublicationInv /\ ReservationInv

LEMMA InitReservation == Init => ReservationInv
  BY StoreAssumption DEF Init, ReservationInv

LEMMA ReservationStep ==
  ASSUME OneAtATime, SafeInv, [Next]_vars
  PROVE ReservationInv'
<1> USE StoreAssumption
        DEF OneAtATime, SafeInv, PublicationInv, TypeOK, ReservationInv, Goto, Return, Dead
<1>1. ASSUME NEW w \in Writers, Write(w) PROVE ReservationInv'
  <2>1. CASE VerifyArtifacts(w) BY <2>1 DEF VerifyArtifacts
  <2>2. CASE CheckTarget(w) BY <2>2 DEF CheckTarget
  <2>3. CASE Reserve(w) BY <2>3 DEF Reserve
  <2>4. CASE MakeTemporary(w) BY <2>4 DEF MakeTemporary
  <2>5. CASE WritePayload(w) BY <2>5 DEF WritePayload, WriteFiles
  <2>6. CASE WriteLockManifest(w) BY <2>6 DEF WriteLockManifest, WriteFiles
  <2>7. CASE VerifyTemporary(w) BY <2>7 DEF VerifyTemporary
  <2>8. CASE Rename(w) BY <2>8 DEF Rename
  <2>9. CASE Unlink(w) BY <2>9 DEF Unlink, Publication
  <2>10. CASE Load(w) BY <2>10 DEF Load
  <2> QED
    BY <1>1, <2>1, <2>2, <2>3, <2>4, <2>5, <2>6, <2>7, <2>8, <2>9, <2>10 DEF Write
<1>2. ASSUME NEW w \in Writers, Fault(w) \/ Crash(w) PROVE ReservationInv'
  BY <1>2 DEF Fault, Crash, Steps
<1>3. ASSUME NEW o \in Operators, Quarantine(o) \/ OperatorCrash(o) PROVE ReservationInv'
  <2>1. CASE ListPublication(o) BY <2>1 DEF ListPublication
  <2>2. CASE MoveTemporary(o) BY <2>2 DEF MoveTemporary, StopOperator
  <2>3. CASE MoveReservation(o) BY <2>3 DEF MoveReservation, StopOperator
  <2>4. CASE OperatorCrash(o) BY <2>4 DEF OperatorCrash, StopOperator
  <2> QED BY <1>3, <2>1, <2>2, <2>3, <2>4 DEF Quarantine
<1>4. CASE Tamper BY <1>4 DEF Tamper
<1>5. CASE UNCHANGED vars BY <1>5 DEF vars
<1> QED BY <1>1, <1>2, <1>3, <1>4, <1>5 DEF Next

LEMMA SafeAlways == ASSUME OneAtATime PROVE Spec => []SafeInv
<1>1. Init => SafeInv BY InitPublication, InitReservation DEF SafeInv
<1>2. SafeInv /\ [Next]_vars => SafeInv'
  BY PublicationStep, ReservationStep DEF SafeInv
<1> QED BY <1>1, <1>2, PTL DEF Spec

\* With a safe minimum_age and one operator at a time, every directory a dead
\* call left behind is listed by incomplete_publications.
THEOREM LeftoversAlwaysListed == ASSUME OneAtATime PROVE Spec => []LeftoversListed
<1>1. SafeInv => LeftoversListed
  BY StoreAssumption DEF SafeInv, ReservationInv, LeftoversListed
<1> QED BY <1>1, SafeAlways, PTL

\* Under the same conditions no call ever loses its reservation to another
\* call's unlink or to an operator.
THEOREM ReservationsHold == ASSUME OneAtATime PROVE Spec => ReservationHeld
<1> DEFINE Kept == \A w \in Writers :
      reservation = w /\ ~Dead(w) /\ reservation' # w => pc[w] = "unlink"
<1>1. SafeInv /\ [Next]_vars => [Kept]_vars
  <2> SUFFICES ASSUME SafeInv, Next, NEW w \in Writers,
                      reservation = w, ~Dead(w), reservation' # w
               PROVE pc[w] = "unlink"
    BY DEF vars, Dead
  <2> USE StoreAssumption DEF SafeInv, ReservationInv
  <2>1. ASSUME NEW v \in Writers, Write(v) PROVE pc[w] = "unlink"
    BY <2>1 DEF Write, VerifyArtifacts, CheckTarget, Reserve, MakeTemporary, WritePayload,
       WriteLockManifest, WriteFiles, VerifyTemporary, Rename, Unlink, Load
  <2>2. ~\E v \in Writers : Fault(v) \/ Crash(v) BY DEF Fault, Crash
  <2>3. ~\E o \in Operators : Quarantine(o) \/ OperatorCrash(o)
    BY DEF Quarantine, OperatorCrash, ListPublication, MoveTemporary, MoveReservation
  <2>4. ~Tamper BY DEF Tamper
  <2> QED BY <2>1, <2>2, <2>3, <2>4 DEF Next
<1> QED BY <1>1, SafeAlways, PTL DEF Spec, ReservationHeld

-----------------------------------------------------------------------------
(* The rally chain *)

Numbers == 1..Len(artifacts)
UpdateSteps == {"start", "next", "state", "manifest", "activate", "done", "failed", "stopped"}
Writing == {"state", "manifest"}

\* An artifact comes after its parent in number and in time, and after the
\* matches that were applied.
Follows(a, entries) ==
  /\ entries[a].parent \in 0..(a - 1)
  /\ entries[a].cutoff \in Nat
  /\ entries[a].parent # 0 => entries[entries[a].parent].cutoff < entries[a].cutoff
  /\ \A c \in entries[a].applied :
       c.available \in Nat /\ c.available < entries[a].cutoff

ChainInv ==
  /\ \E S : artifacts \in Seq(S)
  /\ \A a \in Numbers : Follows(a, artifacts)

FilesInv ==
  /\ bytes \in Seq({"directory", "state", "whole"}) /\ Len(bytes) = Len(artifacts)
  /\ \A a \in Numbers : artifacts[a].parent # 0 => bytes[artifacts[a].parent] = "whole"
  /\ pointer \in Numbers /\ bytes[pointer] = "whole"

Places(u) ==
  /\ progress[u] \in UpdateSteps
  /\ at[u] \in Nat \ {0}
  /\ current[u] \in 0..Len(artifacts) /\ child[u] \in 0..Len(artifacts)
  /\ progress[u] \in {"next"} \cup Writing \cup {"activate"} => current[u] # 0
  /\ current[u] # 0 => bytes[current[u]] = "whole"
  /\ progress[u] \in Writing => child[u] # 0 /\ bytes[child[u]] # "whole"
  /\ progress[u] = "activate" => child[u] # 0 /\ bytes[child[u]] = "whole"

UpdaterInv ==
  /\ captures \in CaptureChoices
  /\ progress = [u \in Updaters |-> progress[u]]
  /\ at = [u \in Updaters |-> at[u]]
  /\ current = [u \in Updaters |-> current[u]]
  /\ child = [u \in Updaters |-> child[u]]
  /\ \A u \in Updaters : Places(u)
  /\ \A u, v \in Updaters :
       u # v /\ progress[u] \in Writing /\ progress[v] \in Writing => child[u] # child[v]

RallyInv == ChainInv /\ FilesInv /\ UpdaterInv

-----------------------------------------------------------------------------
LEMMA CutoffOfChild ==
  ASSUME NEW available \in Nat, NEW cutoff \in Nat
  PROVE  /\ ChildCutoff(available, cutoff) \in Nat
         /\ available < ChildCutoff(available, cutoff)
         /\ cutoff < ChildCutoff(available, cutoff)
<1> DEFINE S == {available + 1, cutoff + 1}
<1>1. \E x \in S : \A y \in S : x >= y OBVIOUS
<1>2. Max(S) \in S /\ \A y \in S : Max(S) >= y BY <1>1 DEF Max
<1> QED BY <1>2 DEF ChildCutoff

LEMMA Rewriting ==
  ASSUME NEW S, NEW s \in Seq(S), NEW i \in 1..Len(s), NEW x \in S
  PROVE  LET t == [s EXCEPT ![i] = x]
         IN  /\ t \in Seq(S) /\ Len(t) = Len(s) /\ t[i] = x
             /\ \A j \in 1..Len(s) : j # i => t[j] = s[j]
  OBVIOUS

LEMMA InitRally == ASSUME RallyAssumption, RallyInit PROVE RallyInv
<1> DEFINE a == [parent |-> 0, seen |-> FirstSeen, applied |-> {}, cutoff |-> FirstCutoff]
<1>1. artifacts = <<a>> /\ bytes = <<"whole">> /\ pointer = 1 BY DEF RallyInit
<1>2. a.parent = 0 /\ a.cutoff = FirstCutoff /\ a.applied = {} OBVIOUS
<1> HIDE DEF a
<1>3. artifacts \in Seq({a}) /\ Len(artifacts) = 1 /\ artifacts[1] = a BY <1>1
<1>4. ChainInv BY <1>2, <1>3 DEF ChainInv, Follows, Numbers, RallyAssumption
<1>5. FilesInv BY <1>1, <1>2, <1>3 DEF FilesInv, Numbers
<1>6. UpdaterInv
  BY <1>3 DEF RallyInit, UpdaterInv, Places, UpdateSteps, Writing
<1> QED BY <1>4, <1>5, <1>6 DEF RallyInv

\* Steps that write nothing: one updater moves on.
LEMMA Moves ==
  ASSUME RallyInv, NEW u \in Updaters,
         UNCHANGED <<captures, artifacts, bytes, child>>,
         progress' = [progress EXCEPT ![u] = progress'[u]], progress'[u] \in UpdateSteps \ Writing,
         at' = [at EXCEPT ![u] = at'[u]], at'[u] \in Nat \ {0},
         current' = [current EXCEPT ![u] = current'[u]],
         \/ current'[u] = current[u]
         \/ current'[u] \in Numbers /\ bytes[current'[u]] = "whole",
         progress'[u] = "next" => current'[u] # 0,
         progress'[u] # "activate",
         pointer' \in Numbers, bytes[pointer'] = "whole"
  PROVE  RallyInv'
<1>1. ChainInv' BY DEF RallyInv, ChainInv, Numbers, Follows
<1>2. FilesInv' BY DEF RallyInv, FilesInv, Numbers
<1>3. UpdaterInv'
  <2>1. /\ captures' \in CaptureChoices
        /\ progress' = [v \in Updaters |-> progress'[v]] /\ at' = [v \in Updaters |-> at'[v]]
        /\ current' = [v \in Updaters |-> current'[v]]
        /\ child' = [v \in Updaters |-> child'[v]]
    BY DEF RallyInv, UpdaterInv
  <2>2. ASSUME NEW v \in Updaters PROVE Places(v)'
    <3>1. Places(v) BY DEF RallyInv, UpdaterInv
    <3>2. CASE v = u
      <4>1. current'[u] \in 0..Len(artifacts)
        BY <3>1, <3>2 DEF Places, Numbers, RallyInv, ChainInv
      <4> QED BY <3>1, <3>2, <4>1 DEF Places, Writing
    <3>3. CASE v # u
      <4>1. /\ progress'[v] = progress[v] /\ at'[v] = at[v] /\ current'[v] = current[v]
            /\ child'[v] = child[v]
        BY <3>3 DEF RallyInv, UpdaterInv
      <4> QED BY <3>1, <4>1 DEF Places
    <3> QED BY <3>2, <3>3
  <2>3. ASSUME NEW v \in Updaters, NEW w \in Updaters, v # w,
               progress'[v] \in Writing, progress'[w] \in Writing
        PROVE  child'[v] # child'[w]
    BY <2>3 DEF RallyInv, UpdaterInv
  <2> QED BY <2>1, <2>2, <2>3 DEF UpdaterInv
<1> QED BY <1>1, <1>2, <1>3 DEF RallyInv

\* An updater writes a file of its own child.
LEMMA Writes ==
  ASSUME RallyInv, NEW u \in Updaters, progress[u] \in Writing,
         UNCHANGED <<captures, artifacts, pointer, at, current, child>>,
         \/ /\ bytes' = [bytes EXCEPT ![child[u]] = "state"]
            /\ progress' = [progress EXCEPT ![u] = "manifest"]
         \/ /\ bytes' = [bytes EXCEPT ![child[u]] = "whole"]
            /\ progress' = [progress EXCEPT ![u] = "activate"]
  PROVE  RallyInv'
<1>0. child[u] \in Numbers /\ bytes[child[u]] # "whole" /\ Len(artifacts) \in Nat
  BY DEF RallyInv, UpdaterInv, ChainInv, Places, Numbers
<1>f. /\ bytes' \in Seq({"directory", "state", "whole"}) /\ Len(bytes') = Len(bytes)
      /\ \A a \in Numbers : a # child[u] => bytes'[a] = bytes[a]
      /\ \A a \in Numbers : bytes[a] = "whole" => bytes'[a] = "whole"
      /\ \/ progress'[u] = "manifest" /\ bytes'[child[u]] = "state"
         \/ progress'[u] = "activate" /\ bytes'[child[u]] = "whole"
  <2>1. bytes \in Seq({"directory", "state", "whole"}) /\ child[u] \in 1..Len(bytes)
        /\ Numbers = 1..Len(bytes)
    BY <1>0 DEF RallyInv, FilesInv, Numbers
  <2>2. \A step : progress' = [progress EXCEPT ![u] = step] => progress'[u] = step
    BY DEF RallyInv, UpdaterInv
  <2>3. \A x \in {"state", "whole"} :
          LET f == [bytes EXCEPT ![child[u]] = x]
          IN  /\ f \in Seq({"directory", "state", "whole"}) /\ Len(f) = Len(bytes)
              /\ f[child[u]] = x /\ \A a \in Numbers : a # child[u] => f[a] = bytes[a]
    BY <2>1, Rewriting
  <2>4. CASE bytes' = [bytes EXCEPT ![child[u]] = "state"] /\ progress' = [progress EXCEPT ![u] = "manifest"]
    BY <1>0, <2>2, <2>4, <2>3
  <2>5. CASE bytes' = [bytes EXCEPT ![child[u]] = "whole"] /\ progress' = [progress EXCEPT ![u] = "activate"]
    BY <1>0, <2>2, <2>5, <2>3
  <2> QED BY <2>4, <2>5
<1>1. ChainInv' BY DEF RallyInv, ChainInv, Numbers, Follows
<1>2. FilesInv'
  <2>1. \A a \in Numbers : artifacts[a].parent # 0 => artifacts[a].parent \in Numbers
    BY <1>0 DEF RallyInv, ChainInv, Follows, Numbers
  <2> QED BY <1>f, <2>1 DEF RallyInv, FilesInv, Numbers
<1>3. UpdaterInv'
  <2>1. /\ captures' \in CaptureChoices
        /\ progress' = [v \in Updaters |-> progress'[v]] /\ at' = [v \in Updaters |-> at'[v]]
        /\ current' = [v \in Updaters |-> current'[v]]
        /\ child' = [v \in Updaters |-> child'[v]]
    BY DEF RallyInv, UpdaterInv
  <2>2. ASSUME NEW v \in Updaters PROVE Places(v)'
    <3>1. Places(v) BY DEF RallyInv, UpdaterInv
    <3>2. current[v] # 0 => bytes'[current[v]] = "whole"
      BY <1>0, <1>f, <3>1 DEF Places, Numbers
    <3>3. CASE v = u
      <4>1. current[u] # 0 /\ child[u] # 0 BY <3>1, <3>3 DEF Places
      <4> QED BY <1>f, <3>1, <3>2, <3>3, <4>1 DEF Places, Writing, UpdateSteps
    <3>4. CASE v # u
      <4>1. progress'[v] = progress[v] BY <3>4 DEF RallyInv, UpdaterInv
      <4>2. progress[v] \in Writing => child[v] # child[u] /\ child[v] \in Numbers
        BY <1>0, <3>1, <3>4 DEF RallyInv, UpdaterInv, Places, Numbers
      <4>3. progress[v] = "activate" => child[v] \in Numbers BY <1>0, <3>1 DEF Places, Numbers
      <4> QED BY <1>f, <3>1, <3>2, <4>1, <4>2, <4>3 DEF Places
    <3> QED BY <3>3, <3>4
  <2>3. ASSUME NEW v \in Updaters, NEW w \in Updaters, v # w,
               progress'[v] \in Writing, progress'[w] \in Writing
        PROVE  child'[v] # child'[w]
    BY <2>3 DEF RallyInv, UpdaterInv, Writing
  <2> QED BY <2>1, <2>2, <2>3 DEF UpdaterInv
<1> QED BY <1>1, <1>2, <1>3 DEF RallyInv

LEMMA Makes ==
  ASSUME RallyInv, RallyAssumption, NEW u \in Updaters, MakeChild(u)
  PROVE  RallyInv'
<1> DEFINE n == Len(artifacts)
           c == Candidate(u)
           cutoff == ChildCutoff(c.available, Active(u).cutoff)
           e == artifacts'[n + 1]
<1>0. /\ progress[u] = "next" /\ n \in Nat /\ Places(u)
      /\ current[u] \in Numbers /\ bytes[current[u]] = "whole"
  BY DEF MakeChild, AtCandidate, RallyInv, UpdaterInv, ChainInv, Places, Numbers
<1>1. c \in Candidates
  <2>1. captures[u].candidates \in Seq(Candidates)
    BY DEF RallyInv, UpdaterInv, RallyAssumption
  <2>2. at[u] \in 1..Len(captures[u].candidates)
    BY <1>0, <2>1 DEF MakeChild, AtCandidate, Places
  <2> QED BY <2>1, <2>2 DEF Candidate
<1>2. c.available \in Nat /\ Active(u).cutoff \in Nat /\ Follows(current[u], artifacts)
  BY <1>0, <1>1 DEF RallyAssumption, RallyInv, ChainInv, Follows, Active
<1>3. cutoff \in Nat /\ c.available < cutoff /\ Active(u).cutoff < cutoff
  BY <1>2, CutoffOfChild
<1>4. /\ \E S : artifacts' \in Seq(S)
      /\ Len(artifacts') = n + 1
      /\ \A a \in 1..n : artifacts'[a] = artifacts[a]
      /\ e.parent = current[u] /\ e.cutoff = cutoff
      /\ e.applied = Active(u).applied \cup {c}
  <2>1. PICK S : artifacts \in Seq(S) BY DEF RallyInv, ChainInv
  <2>2. PICK seen : artifacts' = Append(artifacts,
          [parent |-> current[u], seen |-> seen,
           applied |-> Active(u).applied \cup {c}, cutoff |-> cutoff])
    BY DEF MakeChild
  <2> DEFINE r == [parent |-> current[u], seen |-> seen,
                   applied |-> Active(u).applied \cup {c}, cutoff |-> cutoff]
  <2>3. /\ r.parent = current[u] /\ r.cutoff = cutoff
        /\ r.applied = Active(u).applied \cup {c}
    OBVIOUS
  <2>4. artifacts' = Append(artifacts, r) BY <2>2
  <2> HIDE DEF r, c, cutoff
  <2>5. artifacts' \in Seq(S \cup {r}) BY <2>1, <2>4
  <2>6. Len(artifacts') = n + 1 /\ artifacts'[n + 1] = r
        /\ \A a \in 1..n : artifacts'[a] = artifacts[a]
    BY <2>1, <2>4
  <2> QED BY <2>3, <2>5, <2>6
<1>5. /\ bytes' \in Seq({"directory", "state", "whole"}) /\ Len(bytes') = n + 1
      /\ \A a \in 1..n : bytes'[a] = bytes[a]
      /\ bytes'[n + 1] = "directory"
  BY DEF MakeChild, RallyInv, FilesInv
<1>6. /\ progress' = [progress EXCEPT ![u] = "state"] /\ child' = [child EXCEPT ![u] = n + 1]
      /\ UNCHANGED <<captures, pointer, at, current>>
  BY DEF MakeChild, RunTo
<1> HIDE DEF n, c, cutoff, e
<1>n. Numbers = 1..n /\ Numbers' = 1..(n + 1) BY <1>4 DEF Numbers, n
<1>7. ChainInv'
  <2>1. ASSUME NEW a \in 1..n PROVE Follows(a, artifacts')
    <3>1. Follows(a, artifacts) BY <1>n DEF RallyInv, ChainInv
    <3>2. artifacts[a].parent # 0 => artifacts[a].parent \in 1..n BY <1>0, <3>1 DEF Follows, n
    <3> QED BY <1>4, <3>1, <3>2 DEF Follows
  <2>2. Follows(n + 1, artifacts')
    <3>1. artifacts'[current[u]] = Active(u) BY <1>0, <1>4, <1>n DEF Active
    <3>2. \A d \in Active(u).applied : d.available \in Nat /\ d.available < cutoff
      <4>1. \A d \in Active(u).applied :
              d.available \in Nat /\ d.available < Active(u).cutoff
        BY <1>2 DEF Follows, Active
      <4>2. ASSUME NEW d \in Active(u).applied
            PROVE  d.available \in Nat /\ d.available < cutoff
        BY <1>2, <1>3, <4>1
      <4> QED BY <4>2
    <3>3. e.parent \in 0..((n + 1) - 1) /\ e.cutoff \in Nat
      BY <1>0, <1>3, <1>4, <1>n DEF n
    <3>4. artifacts'[e.parent].cutoff < e.cutoff BY <1>3, <1>4, <3>1
    <3>5. \A d \in e.applied : d.available \in Nat /\ d.available < e.cutoff
      BY <1>2, <1>3, <1>4, <3>2
    <3> QED BY <3>3, <3>4, <3>5 DEF Follows, e
  <2>3. \A a \in 1..(n + 1) : a \in 1..n \/ a = n + 1 BY <1>0 DEF n
  <2>4. \A a \in Numbers' : Follows(a, artifacts') BY <1>n, <2>1, <2>2, <2>3
  <2> QED BY <1>4, <2>4 DEF ChainInv
<1>8. FilesInv'
  <2>1. ASSUME NEW a \in 1..(n + 1), artifacts'[a].parent # 0
        PROVE  bytes'[artifacts'[a].parent] = "whole"
    <3>1. CASE a \in 1..n
      <4>1. artifacts[a].parent \in 1..n /\ bytes[artifacts[a].parent] = "whole"
        BY <1>0, <1>4, <1>n, <2>1, <3>1 DEF RallyInv, ChainInv, FilesInv, Follows, n
      <4> QED BY <1>4, <1>5, <3>1, <4>1
    <3>2. CASE a = n + 1 BY <1>0, <1>4, <1>5, <1>n, <3>2 DEF e
    <3> QED BY <1>0, <3>1, <3>2 DEF n
  <2>2. pointer' \in 1..n /\ bytes'[pointer'] = "whole"
    BY <1>5, <1>6, <1>n DEF RallyInv, FilesInv
  <2> QED BY <1>0, <1>4, <1>5, <1>n, <2>1, <2>2 DEF FilesInv, n
<1>9. UpdaterInv'
  <2>1. /\ captures' \in CaptureChoices
        /\ progress' = [v \in Updaters |-> progress'[v]] /\ at' = [v \in Updaters |-> at'[v]]
        /\ current' = [v \in Updaters |-> current'[v]]
        /\ child' = [v \in Updaters |-> child'[v]]
    BY <1>6 DEF RallyInv, UpdaterInv
  <2>2. ASSUME NEW v \in Updaters
        PROVE  Places(v)' /\ (v # u => progress'[v] = progress[v] /\ child'[v] = child[v])
    <3>1. Places(v) BY DEF RallyInv, UpdaterInv
    <3>2. /\ current'[v] = current[v] /\ at'[v] = at[v]
          /\ current[v] # 0 => current[v] \in 1..n
          /\ child[v] # 0 => child[v] \in 1..n
      BY <1>0, <1>6, <3>1 DEF Places, n
    <3>3. CASE v = u
      <4>1. progress'[u] = "state" /\ child'[u] = n + 1 BY <1>6 DEF RallyInv, UpdaterInv
      <4> QED BY <1>0, <1>4, <1>5, <3>1, <3>2, <3>3, <4>1 DEF Places, Writing, UpdateSteps, n
    <3>4. CASE v # u
      <4>1. progress'[v] = progress[v] /\ child'[v] = child[v] BY <1>6, <3>4 DEF RallyInv, UpdaterInv
      <4> QED BY <1>0, <1>4, <1>5, <3>1, <3>2, <3>4, <4>1 DEF Places, Writing, n
    <3> QED BY <3>3, <3>4
  <2>3. ASSUME NEW v \in Updaters, NEW w \in Updaters, v # w,
               progress'[v] \in Writing, progress'[w] \in Writing
        PROVE  child'[v] # child'[w]
    <3>1. \A x \in Updaters : child[x] \in 0..n BY DEF RallyInv, UpdaterInv, Places, n
    <3>2. child'[u] = n + 1 BY <1>6 DEF RallyInv, UpdaterInv
    <3>3. CASE v = u BY <1>0, <2>2, <2>3, <3>1, <3>2, <3>3 DEF n
    <3>4. CASE w = u BY <1>0, <2>2, <2>3, <3>1, <3>2, <3>4 DEF n
    <3>5. CASE v # u /\ w # u BY <2>2, <2>3, <3>5 DEF RallyInv, UpdaterInv
    <3> QED BY <3>3, <3>4, <3>5
  <2> QED BY <2>1, <2>2, <2>3 DEF UpdaterInv
<1> QED BY <1>7, <1>8, <1>9 DEF RallyInv

LEMMA RallyStep ==
  ASSUME RallyInv, RallyAssumption, [RallyNext]_rallyVars
  PROVE  RallyInv'
<1>1. CASE UNCHANGED rallyVars
  BY <1>1 DEF rallyVars, RallyInv, ChainInv, FilesInv, UpdaterInv, Numbers, Follows, Places
<1>2. ASSUME NEW u \in Updaters, Update(u) PROVE RallyInv'
  <2> USE DEF RunTo
  <2>0. /\ Places(u) /\ pointer \in Numbers /\ bytes[pointer] = "whole"
        /\ at[u] \in Nat \ {0} /\ at[u] + 1 \in Nat \ {0} /\ pointer # 0
    BY DEF RallyInv, FilesInv, UpdaterInv, Places, Numbers
  <2>f. /\ \A x : progress' = [progress EXCEPT ![u] = x] => progress'[u] = x
        /\ \A x : at' = [at EXCEPT ![u] = x] => at'[u] = x
        /\ \A x : current' = [current EXCEPT ![u] = x] => current'[u] = x
        /\ at' = at => at' = [at EXCEPT ![u] = at'[u]]
        /\ current' = current => current' = [current EXCEPT ![u] = current'[u]]
    BY DEF RallyInv, UpdaterInv
  <2>1. CASE LoadActive(u)
    <3>1. progress' = [progress EXCEPT ![u] = "next"] /\ current' = [current EXCEPT ![u] = pointer]
      BY <2>0, <2>1 DEF LoadActive
    <3> QED BY <2>0, <2>f, <2>1, <3>1, Moves DEF LoadActive, UpdateSteps, Writing
  <2>2. CASE SkipSeen(u)
    <3>1. current[u] # 0 BY <2>0, <2>2 DEF SkipSeen, AtCandidate, Places
    <3>2. progress' = [progress EXCEPT ![u] = "next"] /\ at' = [at EXCEPT ![u] = at[u] + 1]
      BY <2>2 DEF SkipSeen, NextCandidate
    <3> QED BY <2>0, <2>f, <2>2, <3>1, <3>2, Moves DEF SkipSeen, UpdateSteps, Writing
  <2>3. CASE RefuseChanged(u)
    BY <2>0, <2>f, <2>3, Moves DEF RefuseChanged, UpdateSteps, Writing
  <2>4. CASE MakeChild(u) BY <2>4, Makes
  <2>5. CASE MoveState(u) BY <2>5, Writes DEF MoveState, Writing
  <2>6. CASE WriteManifest(u) BY <2>6, Writes DEF WriteManifest, Writing
  <2>7. CASE Activate(u)
    <3>1. child[u] \in Numbers /\ child[u] # 0 /\ bytes[child[u]] = "whole"
      BY <2>0, <2>7 DEF Activate, Places, Numbers, RallyInv, ChainInv
    <3>2. /\ progress' = [progress EXCEPT ![u] = "next"] /\ at' = [at EXCEPT ![u] = at[u] + 1]
          /\ current' = [current EXCEPT ![u] = child[u]] /\ pointer' = child[u]
      BY <2>7 DEF Activate, NextCandidate
    <3> QED BY <2>0, <2>f, <2>7, <3>1, <3>2, Moves DEF Activate, UpdateSteps, Writing
  <2>8. CASE FinishUpdate(u) BY <2>0, <2>f, <2>8, Moves DEF FinishUpdate, UpdateSteps, Writing
  <2>9. CASE Stop(u) BY <2>0, <2>f, <2>9, Moves DEF Stop, UpdateSteps, Writing
  <2> QED BY <1>2, <2>1, <2>2, <2>3, <2>4, <2>5, <2>6, <2>7, <2>8, <2>9 DEF Update
<1> QED BY <1>1, <1>2 DEF RallyNext

LEMMA RallyAlways == ASSUME RallyAssumption PROVE RallySpec => []RallyInv
<1>1. RallyInit => RallyInv BY InitRally
<1>2. RallyInv /\ [RallyNext]_rallyVars => RallyInv' BY RallyStep
<1> QED BY <1>1, <1>2, PTL DEF RallySpec

\* The active posterior and every one it was built on can be loaded, with
\* any number of updaters at once, each stopped between any two of its steps.
THEOREM ActiveAlwaysReadable ==
  ASSUME RallyAssumption PROVE RallySpec => []ActiveReadable
<1>1. RallyInv => ActiveReadable
  BY DEF RallyInv, ChainInv, FilesInv, ActiveReadable, Numbers
<1> QED BY <1>1, RallyAlways, PTL

\* Every artifact ends after its parent and after every match applied to it,
\* in whatever order the captures hold them: so the first artifact on the way
\* back that ends before a cutoff is the newest one, and has seen no match
\* from after it.
CutoffsOrdered ==
  \A a \in DOMAIN artifacts :
    /\ artifacts[a].parent # 0 =>
         /\ artifacts[a].parent < a
         /\ artifacts[artifacts[a].parent].cutoff < artifacts[a].cutoff
    /\ \A c \in artifacts[a].applied : c.available < artifacts[a].cutoff
THEOREM CutoffsAlwaysOrdered ==
  ASSUME RallyAssumption PROVE RallySpec => []CutoffsOrdered
<1>1. RallyInv => CutoffsOrdered
  BY DEF RallyInv, ChainInv, Follows, CutoffsOrdered, Numbers
<1> QED BY <1>1, RallyAlways, PTL

-----------------------------------------------------------------------------
(* What a forecast uses *)

\* A function on 0..m whose value at a comes from the one at par[a], from v on.
IsWalk(g, m, par, V, v, F) ==
  /\ g \in [0..m -> V] /\ g[0] = v
  /\ \A a \in 1..m : g[a] = F[<<a, g[par[a]]>>]

LEMMA WalkGrows ==
  ASSUME NEW m \in Nat, NEW par, \A a \in 1..(m + 1) : par[a] \in 0..(a - 1), NEW V, NEW v,
         NEW F, \A a \in 1..(m + 1), x \in V : F[<<a, x>>] \in V,
         NEW g, IsWalk(g, m, par, V, v, F)
  PROVE  \E h : IsWalk(h, m + 1, par, V, v, F)
<1>1. PICK q : q = par[m + 1]
  OBVIOUS
<1>2. q \in 0..m
  BY <1>1
<1>3. PICK w : w = F[<<m + 1, g[q]>>]
  OBVIOUS
<1>4. w \in V
  BY <1>2, <1>3 DEF IsWalk
<1>5. PICK h : h = [a \in 0..(m + 1) |-> IF a = m + 1 THEN w ELSE g[a]]
  OBVIOUS
<1>6. h \in [0..(m + 1) -> V]
  BY <1>4, <1>5 DEF IsWalk
<1>7. h[m + 1] = w /\ \A a \in 0..m : h[a] = g[a]
  BY <1>5
<1>8. ASSUME NEW a \in 1..(m + 1) PROVE h[a] = F[<<a, h[par[a]]>>]
  <2>1. CASE a = m + 1
    BY <1>1, <1>2, <1>3, <1>7, <2>1
  <2>2. CASE a \in 1..m
    <3>1. PICK b : b = par[a]
      OBVIOUS
    <3>2. b \in 0..(a - 1)
      BY <3>1
    <3>3. b \in 0..m /\ a \in 0..m
      BY <2>2, <3>2
    <3>4. g[a] = F[<<a, g[b]>>]
      BY <2>2, <3>1 DEF IsWalk
    <3> QED
      BY <1>7, <3>1, <3>3, <3>4
  <2> QED
    BY <2>1, <2>2
<1>9. h[0] = v
  BY <1>7 DEF IsWalk
<1> QED
  BY <1>6, <1>8, <1>9 DEF IsWalk

\* Such a function exists on any range.
LEMMA WalkDefined ==
  ASSUME NEW n \in Nat, NEW par, \A a \in 1..n : par[a] \in 0..(a - 1), NEW V, NEW v \in V,
         NEW F, \A a \in 1..n, x \in V : F[<<a, x>>] \in V
  PROVE  \E g : IsWalk(g, n, par, V, v, F)
<1>1. PICK S : S = {m \in 0..n : \E g : IsWalk(g, m, par, V, v, F)}
  OBVIOUS
<1>2. 0 \in S
  <2>1. PICK g : g = [a \in 0..0 |-> v]
    OBVIOUS
  <2>2. IsWalk(g, 0, par, V, v, F)
    BY <2>1 DEF IsWalk
  <2>3. 0 \in 0..n
    OBVIOUS
  <2> QED
    BY <1>1, <2>2, <2>3
<1>3. ASSUME NEW m \in 0..n, m < n /\ m \in S PROVE m + 1 \in S
  <2>1. PICK g : IsWalk(g, m, par, V, v, F)
    BY <1>1, <1>3
  <2>2. m \in Nat /\ m + 1 \in 0..n /\ \A a \in 1..(m + 1) : a \in 1..n
    BY <1>3
  <2>3. \E h : IsWalk(h, m + 1, par, V, v, F)
    BY <2>1, <2>2, WalkGrows
  <2> QED
    BY <1>1, <2>2, <2>3
<1>4. 0..n \subseteq S
  BY <1>2, <1>3, InductionTo
<1>5. n \in 0..n
  OBVIOUS
<1> QED
  BY <1>1, <1>4, <1>5

\* The parent of an artifact is before it, and can be loaded.
LEMMA ParentsAreWhole ==
  ASSUME RallyInv
  PROVE  /\ Len(artifacts) \in Nat /\ pointer \in 1..Len(artifacts)
         /\ \A a \in 1..Len(artifacts) :
              Parent(a) = artifacts[a].parent /\ Parent(a) \in 0..(a - 1)
BY DEF RallyInv, ChainInv, FilesInv, Numbers, Follows, Parent

\* The way back is a function: parents come before their children.
Back(cutoff) ==
  CHOOSE f : f = [a \in 0..Len(artifacts) |->
                    IF a = 0 \/ artifacts[a].cutoff < cutoff THEN a ELSE f[Parent(a)]]
LEMMA BackDefined ==
  ASSUME RallyInv, NEW cutoff
  PROVE  /\ Back(cutoff)[0] = 0
         /\ \A a \in 1..Len(artifacts) :
              Back(cutoff)[a] = IF artifacts[a].cutoff < cutoff THEN a
                                                               ELSE Back(cutoff)[Parent(a)]
<1> DEFINE e(f, a) == IF a = 0 \/ artifacts[a].cutoff < cutoff THEN a ELSE f[Parent(a)]
<1>0. PICK n : n = Len(artifacts)
  OBVIOUS
<1>1. PICK par : par = [a \in 1..n |-> Parent(a)]
  OBVIOUS
<1>2. n \in Nat /\ \A a \in 1..n : par[a] = Parent(a) /\ par[a] \in 0..(a - 1)
  BY <1>0, <1>1, ParentsAreWhole
<1>3. PICK F : /\ \A a \in 1..n, x \in 0..n :
                    F[<<a, x>>] = IF artifacts[a].cutoff < cutoff THEN a ELSE x
  <2>1. PICK F : F = [p \in (0..n) \X (0..n) |->
                        IF artifacts[p[1]].cutoff < cutoff THEN p[1] ELSE p[2]]
    OBVIOUS
  <2>2. ASSUME NEW a \in 1..n, NEW x \in 0..n
        PROVE  F[<<a, x>>] = IF artifacts[a].cutoff < cutoff THEN a ELSE x
    BY <2>1
  <2> QED
    BY <2>2
<1>4. ASSUME NEW a \in 1..n, NEW x \in 0..n PROVE F[<<a, x>>] \in 0..n
  <2>1. F[<<a, x>>] = a \/ F[<<a, x>>] = x
    BY <1>3
  <2> QED
    BY <1>2, <2>1
<1>5. PICK V : V = 0..n
  OBVIOUS
<1>6. PICK g : IsWalk(g, n, par, V, 0, F)
  <2>1. 0 \in V /\ \A a \in 1..n, x \in V : F[<<a, x>>] \in V
    BY <1>2, <1>4, <1>5
  <2>2. \A a \in 1..n : par[a] \in 0..(a - 1)
    BY <1>2
  <2> QED
    BY <1>2, <2>1, <2>2, WalkDefined
<1>7. /\ g \in [0..n -> 0..n] /\ g[0] = 0
      /\ \A a \in 1..n : g[a] = F[<<a, g[par[a]]>>]
  BY <1>5, <1>6 DEF IsWalk
<1>8. ASSUME NEW a \in 0..n PROVE g[a] = e(g, a)
  <2>1. CASE a = 0
    BY <1>7, <2>1
  <2>2. CASE a \in 1..n
    <3>1. par[a] = Parent(a) /\ par[a] \in 0..n
      BY <1>2, <2>2
    <3>2. g[a] = F[<<a, g[par[a]]>>] /\ g[par[a]] \in 0..n
      BY <1>7, <2>2, <3>1
    <3> QED
      BY <1>3, <2>2, <3>1, <3>2
  <2> QED
    BY <1>2, <2>1, <2>2
<1>9. g = [a \in 0..n |-> e(g, a)]
  BY <1>7, <1>8
<1>10. Back(cutoff) = [a \in 0..n |-> e(Back(cutoff), a)]
  <2>1. \E f : f = [a \in 0..n |-> e(f, a)]
    BY <1>9
  <2>2. Back(cutoff) = CHOOSE f : f = [a \in 0..n |-> e(f, a)]
    BY <1>0 DEF Back
  <2> QED
    BY <2>1, <2>2
<1> QED
  BY <1>0, <1>2, <1>10

\* And so is the chain an artifact ends.
Chain ==
  CHOOSE f : f = [a \in 0..Len(artifacts) |->
                    IF a = 0 THEN {} ELSE {a} \cup f[artifacts[a].parent]]
LEMMA ChainDefined ==
  ASSUME RallyInv
  PROVE  /\ Chain[0] = {}
         /\ \A a \in 1..Len(artifacts) : Chain[a] = {a} \cup Chain[Parent(a)]
<1> DEFINE e(f, a) == IF a = 0 THEN {} ELSE {a} \cup f[artifacts[a].parent]
<1>0. PICK n : n = Len(artifacts)
  OBVIOUS
<1>1. PICK par : par = [a \in 1..n |-> Parent(a)]
  OBVIOUS
<1>2. n \in Nat /\ \A a \in 1..n : /\ par[a] = artifacts[a].parent /\ par[a] \in 0..(a - 1)
                                   /\ par[a] = Parent(a)
  BY <1>0, <1>1, ParentsAreWhole
<1>5. PICK V : V = SUBSET (0..n)
  OBVIOUS
<1>3. PICK F : \A a \in 1..n, x \in V : F[<<a, x>>] = {a} \cup x
  <2>1. PICK F : F = [p \in (1..n) \X V |-> {p[1]} \cup p[2]]
    OBVIOUS
  <2>2. ASSUME NEW a \in 1..n, NEW x \in V PROVE F[<<a, x>>] = {a} \cup x
    BY <2>1
  <2> QED
    BY <2>2
<1>4. ASSUME NEW a \in 1..n, NEW x \in V PROVE F[<<a, x>>] \in V
  <2>1. {a} \cup x \in V
    BY <1>2, <1>5
  <2> QED
    BY <1>3, <2>1
<1>6. PICK g : IsWalk(g, n, par, V, {}, F)
  <2>1. {} \in V /\ \A a \in 1..n, x \in V : F[<<a, x>>] \in V
    BY <1>4, <1>5
  <2>2. \A a \in 1..n : par[a] \in 0..(a - 1)
    BY <1>2
  <2> QED
    BY <1>2, <2>1, <2>2, WalkDefined
<1>7. /\ g \in [0..n -> V] /\ g[0] = {}
      /\ \A a \in 1..n : g[a] = F[<<a, g[par[a]]>>]
  BY <1>6 DEF IsWalk
<1>8. ASSUME NEW a \in 0..n PROVE g[a] = e(g, a)
  <2>1. CASE a = 0
    BY <1>7, <2>1
  <2>2. CASE a \in 1..n
    <3>1. par[a] = artifacts[a].parent /\ par[a] \in 0..n
      BY <1>2, <2>2
    <3>2. g[a] = F[<<a, g[par[a]]>>] /\ g[par[a]] \in V
      BY <1>7, <2>2, <3>1
    <3>3. F[<<a, g[par[a]]>>] = {a} \cup g[par[a]]
      BY <1>3, <2>2, <3>2
    <3> QED
      BY <1>2, <2>2, <3>1, <3>2, <3>3
  <2> QED
    BY <1>2, <2>1, <2>2
<1>9. g = [a \in 0..n |-> e(g, a)]
  BY <1>7, <1>8
<1>10. Chain = [a \in 0..n |-> e(Chain, a)]
  <2>1. \E f : f = [a \in 0..n |-> e(f, a)]
    BY <1>9
  <2>2. Chain = CHOOSE f : f = [a \in 0..n |-> e(f, a)]
    BY <1>0 DEF Chain
  <2> QED
    BY <2>1, <2>2
<1> QED
  BY <1>0, <1>2, <1>10

\* What the way back from an artifact finds.
FindsNewest(a, cutoff) ==
  LET used == Back(cutoff)[a]
  IN  /\ \A b \in Chain[a] :
           /\ b \in 1..Len(artifacts) /\ artifacts[b].cutoff <= artifacts[a].cutoff
           /\ artifacts[b].cutoff < cutoff =>
                used # 0 /\ artifacts[b].cutoff <= artifacts[used].cutoff
      /\ used # 0 => used \in 1..Len(artifacts) /\ artifacts[used].cutoff < cutoff

LEMMA BackFindsNewest ==
  ASSUME RallyInv, NEW cutoff \in Nat
  PROVE  \A a \in 0..Len(artifacts) : FindsNewest(a, cutoff)
<1> DEFINE n == Len(artifacts)
           S == {k \in 0..n : \A a \in 0..k : FindsNewest(a, cutoff)}
<1>0. /\ n \in Nat
      /\ \A a \in 1..n :
           /\ Parent(a) = artifacts[a].parent /\ Parent(a) \in 0..(a - 1)
           /\ artifacts[a].cutoff \in Nat
           /\ Parent(a) # 0 => artifacts[Parent(a)].cutoff < artifacts[a].cutoff
  <2>1. \A a \in 1..n : Follows(a, artifacts)
    BY DEF RallyInv, ChainInv, Numbers
  <2> QED
    BY <2>1, ParentsAreWhole DEF Follows
<1>1. 0 \in S
  <2>1. Chain[0] = {} /\ Back(cutoff)[0] = 0
    BY ChainDefined, BackDefined
  <2>2. FindsNewest(0, cutoff)
    BY <2>1 DEF FindsNewest
  <2> QED
    BY <1>0, <2>2
<1>2. ASSUME NEW k \in 0..n, k < n, k \in S PROVE k + 1 \in S
  <2> DEFINE a == k + 1
             p == Parent(a)
  <2>1. a \in 1..n /\ p \in 0..k
    BY <1>0, <1>2
  <2>2. FindsNewest(p, cutoff)
    BY <1>2, <2>1
  <2>3. /\ Chain[a] = {a} \cup Chain[p]
        /\ Back(cutoff)[a] = IF artifacts[a].cutoff < cutoff THEN a ELSE Back(cutoff)[p]
    BY <2>1, ChainDefined, BackDefined
  <2>4. /\ artifacts[a].cutoff \in Nat
        /\ p # 0 => p \in 1..n /\ artifacts[p].cutoff \in Nat
                    /\ artifacts[p].cutoff < artifacts[a].cutoff
    BY <1>0, <2>1
  <2>5. p = 0 => Chain[p] = {}
    BY ChainDefined
  <2> HIDE DEF a, p
  <2>6. ASSUME NEW b \in Chain[p]
        PROVE  /\ b \in 1..n /\ artifacts[b].cutoff \in Nat
               /\ artifacts[b].cutoff <= artifacts[a].cutoff
               /\ artifacts[b].cutoff < cutoff => Back(cutoff)[p] # 0
                    /\ artifacts[b].cutoff <= artifacts[Back(cutoff)[p]].cutoff
    <3>1. b \in 1..n /\ artifacts[b].cutoff <= artifacts[p].cutoff /\ p # 0
      BY <2>2, <2>5 DEF FindsNewest
    <3>2. artifacts[b].cutoff \in Nat
      BY <1>0, <3>1
    <3>3. artifacts[b].cutoff <= artifacts[a].cutoff
      BY <2>4, <3>1, <3>2
    <3> QED
      BY <2>2, <3>1, <3>2, <3>3 DEF FindsNewest
  <2>7. FindsNewest(a, cutoff)
    <3>1. CASE artifacts[a].cutoff < cutoff
      <4>1. Back(cutoff)[a] = a /\ a # 0
        BY <2>1, <2>3, <3>1
      <4> QED
        BY <2>1, <2>3, <2>4, <2>6, <3>1, <4>1 DEF FindsNewest
    <3>2. CASE ~ artifacts[a].cutoff < cutoff
      <4>1. Back(cutoff)[a] = Back(cutoff)[p]
        BY <2>3, <3>2
      <4>2. Back(cutoff)[p] # 0 =>
              Back(cutoff)[p] \in 1..n /\ artifacts[Back(cutoff)[p]].cutoff < cutoff
        BY <2>2 DEF FindsNewest
      <4> QED
        BY <2>1, <2>3, <2>4, <2>6, <3>2, <4>1, <4>2 DEF FindsNewest
    <3> QED
      BY <3>1, <3>2
  <2>8. \A b \in 0..a : b \in 0..k \/ b = a
    BY <1>2 DEF a
  <2>9. \A b \in 0..a : FindsNewest(b, cutoff)
    BY <1>2, <2>7, <2>8
  <2> QED
    BY <2>1, <2>9 DEF a
<1> HIDE DEF S
<1>3. ASSUME NEW m, m = n PROVE 0..m \subseteq S
  <2>1. m \in Nat /\ \A k \in 0..m : k < m /\ k \in S => k + 1 \in S
    BY <1>0, <1>2, <1>3
  <2> HIDE DEF n
  <2> QED
    BY <1>1, <2>1, InductionTo
<1>4. n \in S
  BY <1>0, <1>3
<1> QED
  BY <1>4 DEF S

\* For any captures and any number of updaters, stopped anywhere: a forecast
\* uses the newest artifact of the active chain from before its cutoff, and no
\* match in it came after.
THEOREM ForecastsAlwaysUseThePast ==
  ASSUME RallyAssumption PROVE RallySpec => []ForecastsUseThePast
<1>1. ASSUME RallyInv PROVE ForecastsUseThePast
  <2>1. \A a \in 1..Len(artifacts) : Follows(a, artifacts)
    BY <1>1 DEF RallyInv, ChainInv, Numbers
  <2>2. pointer \in 0..Len(artifacts)
    BY <1>1, ParentsAreWhole
  <2>3. ASSUME NEW cutoff \in Cutoffs
        PROVE  LET used == Back(cutoff)[pointer]
               IN  /\ \A a \in Chain[pointer] : artifacts[a].cutoff < cutoff =>
                        used # 0 /\ artifacts[a].cutoff <= artifacts[used].cutoff
                   /\ used # 0 => \A c \in artifacts[used].applied : c.available < cutoff
    <3>1. cutoff \in Nat
      BY RallyAssumption DEF RallyAssumption
    <3>2. FindsNewest(pointer, cutoff)
      BY <1>1, <2>2, <3>1, BackFindsNewest
    <3>3. ASSUME NEW used, used = Back(cutoff)[pointer], used # 0, NEW c \in artifacts[used].applied
          PROVE  c.available < cutoff
      <4>1. used \in 1..Len(artifacts) /\ artifacts[used].cutoff < cutoff
        BY <3>2, <3>3 DEF FindsNewest
      <4>2. c.available \in Nat /\ c.available < artifacts[used].cutoff
            /\ artifacts[used].cutoff \in Nat
        BY <2>1, <3>3, <4>1 DEF Follows
      <4> QED
        BY <3>1, <4>1, <4>2
    <3> QED
      BY <3>2, <3>3 DEF FindsNewest
  <2>4. \A cutoff : Prepared(cutoff) = Back(cutoff)[pointer]
    BY DEF Prepared, Back
  <2> QED
    BY <2>3, <2>4 DEF ForecastsUseThePast, Chain
<1> QED
  BY <1>1, RallyAlways, PTL

-----------------------------------------------------------------------------
(* Snapshots one by one *)

SnapshotFields == {"schema", "framework", "tour", "cutoff", "run", "serve", "retirement",
                   "duration", "base", "config", "anchor", "integration"}
RefersTo(reference, kind, tour) ==
  /\ DOMAIN reference = {"id", "place"}
  /\ reference.id \in Fits /\ reference.id.kind = kind /\ reference.id.tour = tour

\* What a snapshot refers to is of its tour and, but for the strength
\* artifacts, of its cutoff.
FrozenFits(s) ==
  /\ s.cutoff \in Nat
  /\ \A c \in Serve : RefersTo(s.serve[c], c, s.tour) /\ s.serve[c].id.cutoff = s.cutoff
  /\ s.retirement # Missing =>
       RefersTo(s.retirement, "retirement", s.tour) /\ s.retirement.id.cutoff = s.cutoff
  /\ s.duration # Missing =>
       RefersTo(s.duration, "duration", s.tour) /\ s.duration.id.cutoff = s.cutoff
StrengthFits(s) ==
  /\ s.anchor # Missing =>
       /\ RefersTo(s.anchor, "anchor", s.tour)
       /\ IF s.framework \in Live THEN s.anchor.id.cutoff >= s.cutoff
                                  ELSE s.anchor.id.cutoff = s.cutoff
  /\ s.integration # Missing =>
       RefersTo(s.integration, "integration", s.tour) /\ s.integration.id.cutoff <= s.cutoff

\* The snapshots an identity comes from, one framework after the other.
After(id) ==
  /\ id.base # Missing /\ Frozen(id.base) = Frozen(id)
  /\ id.anchor.cutoff \in Nat
  /\ id.base.anchor # Missing =>
       id.base.anchor.cutoff \in Nat /\ id.base.anchor.cutoff <= id.anchor.cutoff
OfV10(id) == id.framework = "v1.0" /\ id.base = Missing /\ id.anchor = Missing
OfV11(id) == id.framework = "v1.1" /\ After(id) /\ OfV10(id.base)
OfV12(id) == id.framework = "v1.2" /\ After(id) /\ OfV11(id.base)
OfV13(id) == id.framework = "v1.3" /\ After(id) /\ OfV12(id.base)
Lineage(id) == OfV10(id) \/ OfV11(id) \/ OfV12(id) \/ OfV13(id)

Sound(s) ==
  /\ DOMAIN s = SnapshotFields /\ FrozenFits(s) /\ StrengthFits(s)
  /\ s.framework # "v1.0" => s.schema = 4 /\ s.anchor # Missing
  /\ Lineage(SnapshotId(s))

\* The fields of an identity.
LEMMA IdFields ==
  ASSUME NEW s
  PROVE  LET id == SnapshotId(s) IN
         /\ id.framework = s.framework /\ id.base = s.base /\ id.anchor = IdOf(s.anchor)
         /\ id.integration = IdOf(s.integration) /\ id.retirement = IdOf(s.retirement)
         /\ id.duration = IdOf(s.duration) /\ id.serve = [c \in Serve |-> s.serve[c].id]
         /\ Frozen(id) = [tour |-> s.tour, cutoff |-> s.cutoff, run |-> s.run,
                          serve |-> [c \in Serve |-> s.serve[c].id],
                          retirement |-> IdOf(s.retirement), duration |-> IdOf(s.duration)]
BY DEF SnapshotId, Frozen

LEMMA SameFrozen ==
  ASSUME NEW n, NEW s, n.tour = s.tour, n.cutoff = s.cutoff, n.run = s.run,
         n.serve = s.serve, n.retirement = s.retirement, n.duration = s.duration
  PROVE  Frozen(SnapshotId(n)) = Frozen(SnapshotId(s))
<1> DEFINE ids(x) == [c \in Serve |-> x.serve[c].id]
<1>1. ids(n) = ids(s)
  OBVIOUS
<1>2. \A x : Frozen(SnapshotId(x)) =
               [tour |-> x.tour, cutoff |-> x.cutoff, run |-> x.run, serve |-> ids(x),
                retirement |-> IdOf(x.retirement), duration |-> IdOf(x.duration)]
  BY IdFields
<1> HIDE DEF ids
<1> QED
  BY <1>1, <1>2

LEMMA PersistedRefers ==
  ASSUME NEW kind, NEW r \in Persisted(kind)
  PROVE  /\ DOMAIN r = {"id", "place"} /\ r.id \in Fits /\ r.id.kind = kind
         /\ r # Missing
<1>1. PICK x \in OfKind(kind) : r = Reference("shared", x)
  BY DEF Persisted
<1>2. x \in Fits /\ x.kind = kind
  BY <1>1 DEF OfKind
<1>3. r # Missing
  BY <1>1, <1>2, ReferenceAssumption DEF Roots
<1> QED
  BY <1>1, <1>2, <1>3 DEF Reference

\* create_model_snapshot, for fits that are there.
LEMMA CreatedIsSound ==
  ASSUME NEW serve, NEW retirement, NEW duration,
         \A c \in Serve : DOMAIN serve[c] = {"id", "place"} /\ serve[c].id \in Fits,
         retirement # Missing =>
           DOMAIN retirement = {"id", "place"} /\ retirement.id \in Fits
           /\ retirement.id.kind = "retirement",
         duration # Missing =>
           DOMAIN duration = {"id", "place"} /\ duration.id \in Fits
           /\ duration.id.kind = "duration",
         CanCreate(serve, retirement, duration)
  PROVE  LET s == CreateModelSnapshot(serve, retirement, duration)
         IN  /\ Sound(s) /\ \A c \in Serve : s.tour = serve[c].id.tour
             /\ s.duration = duration
<1> DEFINE s == CreateModelSnapshot(serve, retirement, duration)
           one == serve[CHOOSE c \in Serve : TRUE].id
<1>1. /\ DOMAIN s = SnapshotFields /\ s.serve = serve /\ s.retirement = retirement
      /\ s.duration = duration /\ s.framework = "v1.0" /\ s.base = Missing
      /\ s.anchor = Missing /\ s.integration = Missing
      /\ s.tour = one.tour /\ s.cutoff = one.cutoff
  BY DEF CreateModelSnapshot, SnapshotFields
<1>2. /\ FitsOfOneRun([c \in Serve |-> serve[c].id])
      /\ retirement # Missing => FitsIn(s, retirement)
      /\ duration # Missing => FitsIn(s, duration)
  BY DEF CanCreate
<1>3. \A c \in Serve : /\ serve[c].id.kind = c /\ serve[c].id.tour = one.tour
                       /\ serve[c].id.cutoff = one.cutoff
  BY <1>2, FitKindAssumption DEF FitsOfOneRun
<1>4. one.cutoff \in Nat
  BY FitKindAssumption
<1> HIDE DEF s, one
<1>5. FrozenFits(s)
  BY <1>1, <1>2, <1>3, <1>4 DEF FrozenFits, RefersTo, FitsIn
<1>6. StrengthFits(s)
  BY <1>1 DEF StrengthFits
<1>7. OfV10(SnapshotId(s))
  BY <1>1, IdFields DEF OfV10, IdOf
<1> QED
  BY <1>1, <1>3, <1>5, <1>6, <1>7 DEF Sound, Lineage, s

\* Where a duration fit will be is no part of what it is.
LEMMA PlacedIsSound ==
  ASSUME NEW s, Sound(s), NEW spot, s.duration # Missing,
         NEW n, n = [s EXCEPT !.duration.place = spot], n.duration # Missing
  PROVE  Sound(n) /\ n.tour = s.tour /\ n.framework = s.framework
<1>1. /\ DOMAIN n = SnapshotFields /\ n.serve = s.serve /\ n.retirement = s.retirement
      /\ n.framework = s.framework /\ n.base = s.base /\ n.anchor = s.anchor
      /\ n.integration = s.integration /\ n.tour = s.tour /\ n.cutoff = s.cutoff
      /\ n.run = s.run /\ n.schema = s.schema /\ n.config = s.config
      /\ DOMAIN n.duration = {"id", "place"} /\ n.duration.id = s.duration.id
  BY DEF Sound, FrozenFits, RefersTo, SnapshotFields
<1>2. FrozenFits(n) /\ StrengthFits(n)
  BY <1>1 DEF Sound, FrozenFits, StrengthFits, RefersTo
<1>3. SnapshotId(n) = SnapshotId(s)
  BY <1>1 DEF SnapshotId, IdOf
<1> QED
  BY <1>1, <1>2, <1>3 DEF Sound

LEMMA StrengthIsSound ==
  ASSUME NEW s, Sound(s), NEW anchor, NEW integration, NEW config,
         DOMAIN anchor = {"id", "place"}, anchor.id \in Fits, anchor.id.kind = "anchor",
         DOMAIN integration = {"id", "place"}, integration.id \in Fits,
         integration.id.kind = "integration",
         CanAddStrength(s, anchor, integration),
         NEW n, n = StrengthAdded(s, anchor, integration, config), WellFormed(n)
  PROVE  Sound(n) /\ n.tour = s.tour
<1>1. /\ n.schema = 4 /\ n.framework = "v1.1" /\ n.base = SnapshotId(s)
      /\ n.anchor = anchor /\ n.integration = integration /\ n.tour = s.tour
      /\ n.cutoff = s.cutoff /\ n.run = s.run /\ n.serve = s.serve
      /\ n.retirement = s.retirement /\ n.duration = s.duration
      /\ DOMAIN n = SnapshotFields
  BY DEF StrengthAdded, SnapshotFields, Sound
<1>2. FrozenFits(n)
  BY <1>1 DEF Sound, FrozenFits
<1>3. /\ s.framework = "v1.0" /\ anchor.id.tour = s.tour /\ integration.id.tour = s.tour
      /\ anchor.id.cutoff = s.cutoff /\ integration.id.cutoff <= s.cutoff
  BY DEF CanAddStrength
<1>4. StrengthFits(n)
  BY <1>1, <1>3 DEF StrengthFits, RefersTo, Live
<1>5. n.base # Missing /\ n.anchor # Missing
  BY <1>1 DEF WellFormed
<1>6. OfV10(SnapshotId(s))
  BY <1>3, IdFields DEF Sound, Lineage, OfV11, OfV12, OfV13
<1>7. Frozen(SnapshotId(n)) = Frozen(SnapshotId(s))
  BY <1>1, SameFrozen
<1>8. SnapshotId(n).anchor = anchor.id /\ anchor.id.cutoff \in Nat
  BY <1>1, <1>5, IdFields, FitKindAssumption DEF IdOf
<1>9. SnapshotId(n).framework = "v1.1" /\ SnapshotId(n).base = SnapshotId(s)
  BY <1>1, IdFields
<1>10. OfV11(SnapshotId(n))
  BY <1>1, <1>5, <1>6, <1>7, <1>8, <1>9 DEF OfV11, After, OfV10
<1> QED
  BY <1>1, <1>2, <1>4, <1>5, <1>10 DEF Sound, Lineage

LEMMA InheritedIsSound ==
  ASSUME NEW s, Sound(s), NEW framework \in Live, NEW config, CanInherit(s, framework),
         NEW n, n = Inherit(s, framework, config), WellFormed(n)
  PROVE  Sound(n) /\ n.tour = s.tour /\ n.framework = framework
<1>0. s.framework # "v1.0"
  BY DEF CanInherit, Before, Live
<1>1. /\ n.schema = 4 /\ n.framework = framework /\ n.base = SnapshotId(s)
      /\ n.anchor = s.anchor /\ n.integration = s.integration /\ n.tour = s.tour
      /\ n.cutoff = s.cutoff /\ n.run = s.run /\ n.serve = s.serve
      /\ n.retirement = s.retirement /\ n.duration = s.duration
      /\ DOMAIN n = SnapshotFields
  BY <1>0 DEF Inherit, SnapshotFields, Sound
<1>2. FrozenFits(n)
  BY <1>1 DEF Sound, FrozenFits
<1>3. n.base # Missing /\ n.anchor # Missing
  BY <1>1 DEF WellFormed
<1>4. s.framework = IF framework = "v1.2" THEN "v1.1" ELSE "v1.2"
  BY DEF CanInherit, Before
<1>5. s.anchor.id.cutoff \in Nat /\ s.cutoff \in Nat /\ s.anchor.id.cutoff >= s.cutoff
      /\ RefersTo(s.anchor, "anchor", s.tour)
  <2>1. RefersTo(s.anchor, "anchor", s.tour)
    BY <1>1, <1>3 DEF Sound, StrengthFits
  <2>2. s.anchor.id.cutoff \in Nat /\ s.cutoff \in Nat
    BY <2>1, FitKindAssumption DEF Sound, FrozenFits, RefersTo
  <2> QED
    BY <1>1, <1>3, <2>1, <2>2 DEF Sound, StrengthFits
<1>6. StrengthFits(n)
  BY <1>1, <1>5 DEF Sound, StrengthFits
<1> DEFINE id == SnapshotId(n)
           old == SnapshotId(s)
<1>7. /\ id.framework = framework /\ id.base = old /\ old # Missing
      /\ id.anchor = s.anchor.id /\ old.anchor = s.anchor.id
      /\ old.framework = s.framework /\ Frozen(id) = Frozen(old)
  <2>1. Frozen(id) = Frozen(old)
    BY <1>1, SameFrozen
  <2>2. /\ id.framework = n.framework /\ id.base = n.base /\ id.anchor = IdOf(n.anchor)
        /\ old.anchor = IdOf(s.anchor) /\ old.framework = s.framework
    BY IdFields
  <2> QED
    BY <1>1, <1>3, <2>1, <2>2 DEF IdOf
<1>8. Lineage(old)
  BY DEF Sound
<1> HIDE DEF id, old
<1>9. After(id)
  BY <1>5, <1>7 DEF After
<1>10. Lineage(id)
  <2>1. CASE framework = "v1.2"
    BY <1>4, <1>7, <1>8, <1>9, <2>1 DEF Lineage, OfV10, OfV11, OfV12, OfV13
  <2>2. CASE framework = "v1.3"
    BY <1>4, <1>7, <1>8, <1>9, <2>2 DEF Lineage, OfV10, OfV11, OfV12, OfV13
  <2> QED
    BY <2>1, <2>2 DEF Live
<1> QED
  BY <1>1, <1>2, <1>3, <1>6, <1>10 DEF Sound, id

LEMMA RevisedIsSound ==
  ASSUME NEW s, Sound(s), NEW anchor, DOMAIN anchor = {"id", "place"}, anchor.id \in Fits,
         anchor.id.kind = "anchor", CanRevise(s, anchor),
         NEW n, n = Revise(s, anchor), WellFormed(n)
  PROVE  Sound(n) /\ n.tour = s.tour /\ n.framework \in Live
<1>1. /\ n.schema = s.schema /\ n.framework = s.framework /\ n.base = s.base
      /\ n.anchor = anchor /\ n.integration = s.integration /\ n.tour = s.tour
      /\ n.cutoff = s.cutoff /\ n.run = s.run /\ n.serve = s.serve
      /\ n.retirement = s.retirement /\ n.duration = s.duration
      /\ DOMAIN n = SnapshotFields
  BY DEF Revise, SnapshotFields, Sound
<1>2. /\ s.framework \in Live /\ anchor.id.tour = s.tour
      /\ anchor.id.cutoff > s.anchor.id.cutoff
  BY DEF CanRevise
<1>3. s.schema = 4
  BY <1>2 DEF Sound, Live
<1>4. n.anchor # Missing
  BY <1>1, <1>3 DEF WellFormed
<1> DEFINE id == SnapshotId(n)
           old == SnapshotId(s)
<1>5. /\ id.framework = n.framework /\ id.base = n.base /\ id.anchor = IdOf(n.anchor)
      /\ old.framework = s.framework /\ old.base = s.base /\ old.anchor = IdOf(s.anchor)
      /\ Frozen(id) = Frozen(old)
  BY <1>1, IdFields, SameFrozen
<1>6. Lineage(old)
  BY DEF Sound
<1>7. After(old) /\ s.anchor # Missing
  BY <1>2, <1>5, <1>6 DEF Lineage, OfV10, OfV11, OfV12, OfV13, Live, Sound
<1>8. /\ RefersTo(s.anchor, "anchor", s.tour) /\ s.anchor.id.cutoff \in Nat
      /\ s.cutoff \in Nat /\ s.anchor.id.cutoff >= s.cutoff /\ anchor.id.cutoff \in Nat
  <2>1. RefersTo(s.anchor, "anchor", s.tour) /\ s.anchor.id.cutoff >= s.cutoff
    BY <1>2, <1>7 DEF Sound, StrengthFits
  <2> QED
    BY <2>1, FitKindAssumption DEF RefersTo, Sound, FrozenFits
<1>9. FrozenFits(n)
  BY <1>1 DEF Sound, FrozenFits
<1>10. StrengthFits(n)
  <2>1. RefersTo(n.anchor, "anchor", n.tour) /\ n.anchor.id.cutoff >= n.cutoff
    BY <1>1, <1>2, <1>8 DEF RefersTo
  <2>2. n.integration # Missing =>
          RefersTo(n.integration, "integration", n.tour) /\ n.integration.id.cutoff <= n.cutoff
    BY <1>1 DEF Sound, StrengthFits
  <2> QED
    BY <1>1, <1>2, <2>1, <2>2 DEF StrengthFits
<1> DEFINE older == old.anchor.cutoff
           newer == id.anchor.cutoff
           oldest == id.base.anchor.cutoff
<1>11. /\ older = s.anchor.id.cutoff /\ newer = anchor.id.cutoff
       /\ older \in Nat /\ newer \in Nat /\ older <= newer
  BY <1>1, <1>2, <1>4, <1>5, <1>7, <1>8 DEF IdOf
<1>12. id.base = old.base /\ id.framework = old.framework
  BY <1>1, <1>5
<1>13. Frozen(id) = Frozen(old)
  BY <1>5
<1>14. /\ old.base # Missing /\ Frozen(old.base) = Frozen(old)
       /\ old.base.anchor # Missing =>
            old.base.anchor.cutoff \in Nat /\ old.base.anchor.cutoff <= older
  BY <1>7 DEF After
<1> HIDE DEF id, old
<1>15. After(id)
  <2>1. id.base.anchor # Missing => oldest \in Nat /\ oldest <= newer
    <3>1. id.base.anchor # Missing => oldest \in Nat /\ oldest <= older
      BY <1>12, <1>14
    <3> HIDE DEF older, newer, oldest
    <3> QED
      BY <1>11, <3>1
  <2> QED
    BY <1>11, <1>12, <1>13, <1>14, <2>1 DEF After
<1>16. Lineage(id)
  <2>1. old.framework \in Live
    BY <1>2, <1>5
  <2> QED
    BY <1>6, <1>12, <1>15, <2>1 DEF Lineage, OfV10, OfV11, OfV12, OfV13, Live
<1> QED
  BY <1>1, <1>2, <1>3, <1>4, <1>9, <1>10, <1>16 DEF Sound, id

\* The copy of an integration artifact is the same fit.
LEMMA ReboundIsSound ==
  ASSUME NEW s, Sound(s), NEW spot, s.integration # Missing,
         NEW n, n = [s EXCEPT !.integration.place = spot]
  PROVE  Sound(n) /\ n.tour = s.tour /\ n.framework = s.framework
<1>1. /\ DOMAIN n = SnapshotFields /\ n.serve = s.serve /\ n.retirement = s.retirement
      /\ n.framework = s.framework /\ n.base = s.base /\ n.anchor = s.anchor
      /\ n.duration = s.duration /\ n.tour = s.tour /\ n.cutoff = s.cutoff
      /\ n.run = s.run /\ n.schema = s.schema /\ n.config = s.config
      /\ DOMAIN n.integration = {"id", "place"} /\ n.integration.id = s.integration.id
  BY DEF Sound, StrengthFits, RefersTo, SnapshotFields
<1>2. FrozenFits(n) /\ StrengthFits(n)
  BY <1>1 DEF Sound, FrozenFits, StrengthFits, RefersTo
<1>3. Lineage(SnapshotId(n))
  <2>1. /\ SnapshotId(n).framework = SnapshotId(s).framework
        /\ SnapshotId(n).base = SnapshotId(s).base
        /\ SnapshotId(n).anchor = SnapshotId(s).anchor
        /\ Frozen(SnapshotId(n)) = Frozen(SnapshotId(s))
    <3>1. /\ SnapshotId(n).framework = n.framework /\ SnapshotId(n).base = n.base
          /\ SnapshotId(n).anchor = IdOf(n.anchor)
      BY IdFields
    <3>2. /\ SnapshotId(s).framework = s.framework /\ SnapshotId(s).base = s.base
          /\ SnapshotId(s).anchor = IdOf(s.anchor)
      BY IdFields
    <3>3. Frozen(SnapshotId(n)) = Frozen(SnapshotId(s))
      BY <1>1, SameFrozen
    <3> QED
      BY <1>1, <3>1, <3>2, <3>3
  <2>2. Lineage(SnapshotId(s))
    BY DEF Sound
  <2> QED
    BY <2>1, <2>2 DEF Lineage, OfV10, OfV11, OfV12, OfV13, After
<1> QED
  BY <1>1, <1>2, <1>3 DEF Sound

-----------------------------------------------------------------------------
(* Directories of snapshots, and the command under way *)

\* A directory holds, for a tour, nothing or a snapshot of that tour, made by
\* the command it is named for.
Directory(b) ==
  /\ DOMAIN b = {"stage", "found", "made", "reported"}
  /\ DOMAIN b.found = SnapshotTours /\ DOMAIN b.made = SnapshotTours
  /\ \A t \in SnapshotTours :
       /\ b.found[t] # Missing => Sound(b.found[t]) /\ b.found[t].tour = t
       /\ b.made[t] # Missing =>
            /\ Sound(b.made[t]) /\ b.made[t].tour = t
            /\ b.stage \in Live => b.made[t].framework = b.stage
            /\ b.stage = "r64" => b.made[t].framework \in Live
Finished(b) == \A t \in SnapshotTours : b.made[t] # Missing

DirectoryInv ==
  /\ \A b \in bundles : Directory(b) /\ (b.reported => Finished(b))
  /\ command # Missing => Directory(command) /\ command.reported = FALSE

LEMMA MadeInDirectory ==
  ASSUME NEW b, Directory(b), NEW t \in SnapshotTours, NEW s, Sound(s),
         s.tour = t, b.stage \in Live => s.framework = b.stage,
         b.stage = "r64" => s.framework \in Live,
         NEW n, DOMAIN n = {"stage", "found", "made", "reported"}, n.stage = b.stage,
         n.found = b.found, n.made = [b.made EXCEPT ![t] = s]
  PROVE  Directory(n)
<1>1. /\ DOMAIN n = {"stage", "found", "made", "reported"} /\ n.stage = b.stage
      /\ n.found = b.found /\ n.made = [b.made EXCEPT ![t] = s]
  OBVIOUS
<1>2. /\ DOMAIN n.made = SnapshotTours /\ n.made[t] = s
      /\ \A u \in SnapshotTours : u # t => n.made[u] = b.made[u]
  BY <1>1 DEF Directory
<1>3. ASSUME NEW u \in SnapshotTours
      PROVE  /\ n.found[u] # Missing => Sound(n.found[u]) /\ n.found[u].tour = u
             /\ n.made[u] # Missing =>
                  /\ Sound(n.made[u]) /\ n.made[u].tour = u
                  /\ n.stage \in Live => n.made[u].framework = n.stage
                  /\ n.stage = "r64" => n.made[u].framework \in Live
  <2>1. CASE u = t
    BY <1>1, <1>2, <2>1 DEF Directory
  <2>2. CASE u # t
    BY <1>1, <1>2, <2>2 DEF Directory
  <2> QED
    BY <2>1, <2>2
<1> QED
  BY <1>1, <1>2, <1>3 DEF Directory

\* A step that makes the snapshot of a tour.
LEMMA MakesOne ==
  ASSUME DirectoryInv, UNCHANGED bundles, NEW stage, NEW t \in SnapshotTours, Turn(stage, t),
         NEW s, Make(t, s), Sound(s), s.tour = t, stage \in Live => s.framework = stage,
         stage = "r64" => s.framework \in Live
  PROVE  DirectoryInv'
<1>1. /\ command # Missing /\ command.stage = stage
      /\ command' = [command EXCEPT !.made[t] = s]
  BY DEF Turn, Make
<1>2. Directory(command) /\ command.reported = FALSE
  BY <1>1 DEF DirectoryInv
<1>3. Directory(command') /\ command'.reported = FALSE
  <2>1. PICK b : b = command
    OBVIOUS
  <2>2. PICK n : n = command'
    OBVIOUS
  <2>3. n = [b EXCEPT !.made[t] = s] /\ Directory(b) /\ b.reported = FALSE /\ b.stage = stage
    BY <1>1, <1>2, <2>1, <2>2
  <2>4. /\ DOMAIN n = {"stage", "found", "made", "reported"} /\ n.stage = b.stage
        /\ n.found = b.found /\ n.reported = FALSE /\ n.made = [b.made EXCEPT ![t] = s]
    BY <2>3 DEF Directory
  <2>5. Directory(n)
    <3>1. /\ b.stage \in Live => s.framework = b.stage
          /\ b.stage = "r64" => s.framework \in Live
      BY <2>3
    <3>2. Directory(b)
      BY <2>3
    <3>3. /\ DOMAIN n = {"stage", "found", "made", "reported"} /\ n.stage = b.stage
          /\ n.found = b.found /\ n.made = [b.made EXCEPT ![t] = s]
      BY <2>4
    <3> QED
      BY <3>1, <3>2, <3>3, MadeInDirectory
  <2> QED
    BY <2>2, <2>4, <2>5
<1> QED
  BY <1>3 DEF DirectoryInv

LEMMA FoundIsSound ==
  ASSUME DirectoryInv, NEW stage, NEW t \in SnapshotTours, Turn(stage, t),
         command.found[t] # Missing
  PROVE  Sound(command.found[t]) /\ command.found[t].tour = t
BY DEF DirectoryInv, Turn, Directory

LEMMA BuildCurrentKeeps ==
  ASSUME DirectoryInv, NEW t \in SnapshotTours, BuildCurrent(t)
  PROVE  DirectoryInv'
<1>1. PICK serve \in [Serve -> UNION {Persisted(c) : c \in Serve}],
           r \in Persisted("retirement") :
        /\ CanCreate(serve, r, Missing) /\ CreateModelSnapshot(serve, r, Missing).tour = t
        /\ Make(t, CreateModelSnapshot(serve, r, Missing))
  BY DEF BuildCurrent
<1>2. \A c \in Serve : DOMAIN serve[c] = {"id", "place"} /\ serve[c].id \in Fits
  BY PersistedRefers
<1>3. DOMAIN r = {"id", "place"} /\ r.id \in Fits /\ r.id.kind = "retirement"
  BY PersistedRefers
<1>4. Sound(CreateModelSnapshot(serve, r, Missing))
  BY <1>1, <1>2, <1>3, CreatedIsSound
<1>5. Turn("current", t) /\ UNCHANGED bundles
  BY DEF BuildCurrent
<1> QED
  BY <1>1, <1>4, <1>5, MakesOne DEF Live

LEMMA UpgradeKeeps ==
  ASSUME DirectoryInv, NEW t \in SnapshotTours, UpgradeSnapshot(t)
  PROVE  DirectoryInv'
<1>1. Turn("duration", t) /\ UNCHANGED bundles /\ command.found[t] # Missing
  BY DEF UpgradeSnapshot
<1>2. PICK s : s = command.found[t]
  OBVIOUS
<1>3. Sound(s) /\ s.tour = t
  BY <1>1, <1>2, FoundIsSound
<1>4. PICK d \in Persisted("duration") :
        /\ CanCreate(s.serve, s.retirement, d)
        /\ Make(t, [CreateModelSnapshot(s.serve, s.retirement, d) EXCEPT
                      !.duration.place = Place("duration build", d.id)])
  BY <1>2 DEF UpgradeSnapshot
<1>5. PICK n : n = CreateModelSnapshot(s.serve, s.retirement, d)
  OBVIOUS
<1>6. DOMAIN d = {"id", "place"} /\ d.id \in Fits /\ d.id.kind = "duration" /\ d # Missing
  BY PersistedRefers
<1>7. Sound(n) /\ n.duration = d /\ n.tour = t
  <2>1. /\ \A c \in Serve : RefersTo(s.serve[c], c, s.tour)
        /\ s.retirement # Missing => RefersTo(s.retirement, "retirement", s.tour)
    BY <1>3 DEF Sound, FrozenFits
  <2>2. PICK serve, retirement : serve = s.serve /\ retirement = s.retirement
    OBVIOUS
  <2>3. /\ \A c \in Serve : DOMAIN serve[c] = {"id", "place"} /\ serve[c].id \in Fits
        /\ retirement # Missing =>
             /\ DOMAIN retirement = {"id", "place"} /\ retirement.id \in Fits
             /\ retirement.id.kind = "retirement"
    BY <2>1, <2>2 DEF RefersTo
  <2>4. CanCreate(serve, retirement, d) /\ n = CreateModelSnapshot(serve, retirement, d)
    BY <1>4, <1>5, <2>2
  <2>5. Sound(n) /\ n.duration = d /\ \A c \in Serve : n.tour = serve[c].id.tour
    BY <1>6, <2>3, <2>4, CreatedIsSound
  <2> QED
    BY <1>3, <2>1, <2>2, <2>5, FitKindAssumption DEF RefersTo
<1>8. PICK placed : placed = [n EXCEPT !.duration.place = Place("duration build", d.id)]
  OBVIOUS
<1>9. Sound(placed) /\ placed.tour = t
  <2>1. placed.duration = [d EXCEPT !.place = Place("duration build", d.id)]
    BY <1>7, <1>8 DEF Sound, SnapshotFields
  <2>2. placed.duration = Reference("duration build", d.id)
    BY <1>6, <2>1 DEF Reference
  <2>3. placed.duration # Missing
    BY <1>6, <2>2, ReferenceAssumption DEF Roots
  <2> QED
    BY <1>6, <1>7, <1>8, <2>3, PlacedIsSound
<1>10. Make(t, placed)
  BY <1>4, <1>5, <1>8
<1> QED
  BY <1>1, <1>9, <1>10, MakesOne DEF Live

LEMMA AddStrengthKeeps ==
  ASSUME DirectoryInv, NEW t \in SnapshotTours, AddStrength(t)
  PROVE  DirectoryInv'
<1>1. Turn("v1.1", t) /\ UNCHANGED bundles /\ command.found[t] # Missing
  BY DEF AddStrength
<1>2. PICK s : s = command.found[t]
  OBVIOUS
<1>3. Sound(s) /\ s.tour = t
  BY <1>1, <1>2, FoundIsSound
<1>4. PICK a \in Persisted("anchor"), i \in Persisted("integration"), c \in Configs :
        /\ CanAddStrength(s, a, i) /\ WellFormed(StrengthAdded(s, a, i, c))
        /\ Make(t, StrengthAdded(s, a, i, c))
  BY <1>2 DEF AddStrength
<1>5. /\ DOMAIN a = {"id", "place"} /\ a.id \in Fits /\ a.id.kind = "anchor"
      /\ DOMAIN i = {"id", "place"} /\ i.id \in Fits /\ i.id.kind = "integration"
  BY PersistedRefers
<1>6. Sound(StrengthAdded(s, a, i, c)) /\ StrengthAdded(s, a, i, c).tour = t
  BY <1>3, <1>4, <1>5, StrengthIsSound
<1> QED
  BY <1>1, <1>4, <1>6, MakesOne DEF Live

LEMMA ActivateV12Keeps ==
  ASSUME DirectoryInv, NEW t \in SnapshotTours, ActivateV12(t)
  PROVE  DirectoryInv'
<1>1. /\ Turn("v1.2", t) /\ UNCHANGED bundles /\ command.found[t] # Missing
      /\ CanInherit(command.found[t], "v1.2")
  BY DEF ActivateV12
<1>2. PICK s : s = command.found[t]
  OBVIOUS
<1>3. Sound(s) /\ s.tour = t
  BY <1>1, <1>2, FoundIsSound
<1>4. PICK c \in Configs : WellFormed(Inherit(s, "v1.2", c)) /\ Make(t, Inherit(s, "v1.2", c))
  BY <1>2 DEF ActivateV12
<1>5. /\ Sound(Inherit(s, "v1.2", c)) /\ Inherit(s, "v1.2", c).tour = t
      /\ Inherit(s, "v1.2", c).framework = "v1.2"
  BY <1>1, <1>2, <1>3, <1>4, InheritedIsSound DEF Live
<1> QED
  BY <1>1, <1>4, <1>5, MakesOne

LEMMA AdvanceKeeps ==
  ASSUME DirectoryInv, NEW t \in SnapshotTours, AdvanceAnchor(t)
  PROVE  DirectoryInv'
<1>1. Turn("r64", t) /\ UNCHANGED bundles /\ command.found[t] # Missing
  BY DEF AdvanceAnchor
<1>2. PICK s : s = command.found[t]
  OBVIOUS
<1>3. Sound(s) /\ s.tour = t
  BY <1>1, <1>2, FoundIsSound
<1>4. PICK a \in Persisted("anchor") :
        CanRevise(s, a) /\ WellFormed(Revise(s, a)) /\ Make(t, Revise(s, a))
  BY <1>2 DEF AdvanceAnchor
<1>5. DOMAIN a = {"id", "place"} /\ a.id \in Fits /\ a.id.kind = "anchor"
  BY PersistedRefers
<1>6. Sound(Revise(s, a)) /\ Revise(s, a).tour = t /\ Revise(s, a).framework \in Live
  BY <1>3, <1>4, <1>5, RevisedIsSound
<1> QED
  BY <1>1, <1>4, <1>6, MakesOne DEF Live

LEMMA ActivateV13Keeps ==
  ASSUME DirectoryInv, NEW t \in SnapshotTours, ActivateV13(t)
  PROVE  DirectoryInv'
<1>1. Turn("v1.3", t) /\ UNCHANGED bundles /\ command.found[t] # Missing
  BY DEF ActivateV13
<1>2. PICK s : s = command.found[t]
  OBVIOUS
<1>3. Sound(s) /\ s.tour = t
  BY <1>1, <1>2, FoundIsSound
<1>4. PICK rebound : rebound = [s EXCEPT !.integration.place = Place("v1.3", s.integration.id)]
  OBVIOUS
<1>5. /\ s.integration # Missing /\ CanInherit(rebound, "v1.3")
      /\ \E c \in Configs : WellFormed(Inherit(rebound, "v1.3", c))
                           /\ Make(t, Inherit(rebound, "v1.3", c))
  BY <1>2, <1>4 DEF ActivateV13
<1>6. Sound(rebound) /\ rebound.tour = t
  BY <1>3, <1>4, <1>5, ReboundIsSound
<1>7. PICK c \in Configs : WellFormed(Inherit(rebound, "v1.3", c))
                           /\ Make(t, Inherit(rebound, "v1.3", c))
  BY <1>5
<1>8. /\ Sound(Inherit(rebound, "v1.3", c)) /\ Inherit(rebound, "v1.3", c).tour = t
      /\ Inherit(rebound, "v1.3", c).framework = "v1.3"
  BY <1>5, <1>6, <1>7, InheritedIsSound DEF Live
<1> QED
  BY <1>1, <1>7, <1>8, MakesOne

\* A directory that is begun from another one.
LEMMA BegunIsDirectory ==
  ASSUME NEW stage, NEW found, DOMAIN found = SnapshotTours,
         \A t \in SnapshotTours : found[t] # Missing => Sound(found[t]) /\ found[t].tour = t
  PROVE  Directory(Bundle(stage, found, NoSnapshots, FALSE))
<1> DEFINE b == Bundle(stage, found, NoSnapshots, FALSE)
<1>1. /\ DOMAIN b = {"stage", "found", "made", "reported"} /\ b.found = found
      /\ b.made = NoSnapshots
  BY DEF Bundle
<1>2. DOMAIN NoSnapshots = SnapshotTours /\ \A t \in SnapshotTours : NoSnapshots[t] = Missing
  BY DEF NoSnapshots
<1> HIDE DEF b
<1>3. Directory(b)
  BY <1>1, <1>2 DEF Directory
<1> QED
  BY <1>3 DEF b

\* What a directory of snapshots holds.
LEMMA HeldIsSound ==
  ASSUME NEW b, Directory(b), NEW t \in SnapshotTours, SnapshotsIn(b)[t] # Missing
  PROVE  Sound(SnapshotsIn(b)[t]) /\ SnapshotsIn(b)[t].tour = t
<1>1. SnapshotsIn(b)[t] \in {b.found[t], b.made[t]}
  BY DEF SnapshotsIn
<1> QED
  BY <1>1 DEF Directory

LEMMA BeginKeeps ==
  ASSUME DirectoryInv, NEW stage, NEW found, Begin(stage, found), DOMAIN found = SnapshotTours,
         \A t \in SnapshotTours : found[t] # Missing => Sound(found[t]) /\ found[t].tour = t
  PROVE  DirectoryInv'
<1>1. command' = Bundle(stage, found, NoSnapshots, FALSE) /\ bundles' = bundles
  BY DEF Begin
<1>2. Directory(command')
  BY <1>1, BegunIsDirectory
<1>3. command'.reported = FALSE
  BY <1>1 DEF Bundle
<1> QED
  BY <1>1, <1>2, <1>3 DEF DirectoryInv

LEMMA FinishKeeps ==
  ASSUME DirectoryInv, FinishCommand
  PROVE  DirectoryInv'
<1>1. PICK n : n = [command EXCEPT !.reported = command.stage # "v1.1"]
  OBVIOUS
<1>2. bundles' = bundles \cup {n} /\ command' = Missing /\ command # Missing
  BY <1>1 DEF FinishCommand
<1>3. Directory(command) /\ \A t \in SnapshotTours : command.made[t] # Missing
  BY <1>2 DEF DirectoryInv, FinishCommand
<1>4. /\ DOMAIN n = {"stage", "found", "made", "reported"} /\ n.stage = command.stage
      /\ n.found = command.found /\ n.made = command.made
  BY <1>1, <1>3 DEF Directory
<1>5. Directory(n)
  BY <1>3, <1>4 DEF Directory
<1>6. Finished(n)
  BY <1>3, <1>4 DEF Finished
<1>7. \A b \in bundles : Directory(b) /\ (b.reported => Finished(b))
  BY DEF DirectoryInv
<1> QED
  BY <1>2, <1>5, <1>6, <1>7 DEF DirectoryInv

LEMMA StopKeeps ==
  ASSUME DirectoryInv, StopCommand
  PROVE  DirectoryInv'
<1>1. /\ command # Missing /\ command' = Missing
      /\ bundles' = bundles \/ \E b \in Left : bundles' = bundles \cup {b}
  BY DEF StopCommand
<1>2. Directory(command) /\ command.reported = FALSE
  BY <1>1 DEF DirectoryInv
<1>3. \A b \in bundles : Directory(b) /\ (b.reported => Finished(b))
  BY DEF DirectoryInv
<1>4. ASSUME NEW tours PROVE Directory(Copied(tours)) /\ Copied(tours).reported = FALSE
  <2>1. PICK found : found = [t \in SnapshotTours |-> IF t \in tours THEN command.found[t]
                                                                     ELSE Missing]
    OBVIOUS
  <2>2. PICK b : b = Copied(tours)
    OBVIOUS
  <2>3. b = [command EXCEPT !.found = found]
    BY <2>1, <2>2 DEF Copied
  <2>4. /\ DOMAIN b = {"stage", "found", "made", "reported"} /\ b.found = found
        /\ b.made = command.made /\ b.stage = command.stage /\ b.reported = FALSE
    BY <1>2, <2>3 DEF Directory
  <2>5. /\ DOMAIN found = SnapshotTours
        /\ \A t \in SnapshotTours : found[t] # Missing => found[t] = command.found[t]
    BY <2>1
  <2>6. Directory(b)
    BY <1>2, <2>4, <2>5 DEF Directory
  <2> QED
    BY <2>2, <2>4, <2>6
<1>5. ASSUME NEW b \in Left PROVE Directory(b) /\ b.reported = FALSE
  BY <1>2, <1>4, <1>5 DEF Left
<1> QED
  BY <1>1, <1>3, <1>5 DEF DirectoryInv

\* Snapshots, and the directories they are in, are sound whatever becomes of
\* the artifacts.
LEMMA DirectoriesAreSound == SnapshotSpec => []DirectoryInv
<1>1. SnapshotInit => DirectoryInv
  BY DEF SnapshotInit, DirectoryInv
<1>2. DirectoryInv /\ [SnapshotNext]_snapshotVars => DirectoryInv'
  <2> SUFFICES ASSUME DirectoryInv, [SnapshotNext]_snapshotVars PROVE DirectoryInv'
    OBVIOUS
  <2>0. UNCHANGED <<bundles, command>> => DirectoryInv'
    BY DEF DirectoryInv
  <2>1. ASSUME NEW x \in LaterFits, PublishAnchor(x) \/ PublishIntegration(x)
        PROVE  DirectoryInv'
    BY <2>0, <2>1 DEF PublishAnchor, PublishIntegration
  <2>2. ASSUME NEW spot, NEW contents, Replace(spot, contents) PROVE DirectoryInv'
    BY <2>0, <2>2 DEF Replace
  <2>3. CASE Begin("current", NoSnapshots)
    <3>1. /\ DOMAIN NoSnapshots = SnapshotTours
          /\ \A t \in SnapshotTours : NoSnapshots[t] = Missing
      BY DEF NoSnapshots
    <3> QED
      BY <2>3, <3>1, BeginKeeps
  <2>4. ASSUME NEW stage \in CommandStages, NEW b \in bundles, Begin(stage, SnapshotsIn(b))
        PROVE  DirectoryInv'
    <3>1. Directory(b)
      BY DEF DirectoryInv
    <3>2. PICK held1 : held1 = SnapshotsIn(b)
      OBVIOUS
    <3>3. DOMAIN held1 = SnapshotTours
      BY <3>2 DEF SnapshotsIn
    <3>4. \A t \in SnapshotTours : held1[t] # Missing => Sound(held1[t]) /\ held1[t].tour = t
      BY <3>1, <3>2, HeldIsSound
    <3> QED
      BY <2>4, <3>2, <3>3, <3>4, BeginKeeps
  <2>5. ASSUME NEW t \in SnapshotTours, WriteFits(t) PROVE DirectoryInv'
    BY <2>0, <2>5 DEF WriteFits
  <2>6. ASSUME NEW t \in SnapshotTours,
               \/ BuildCurrent(t) \/ UpgradeSnapshot(t) \/ AddStrength(t)
               \/ ActivateV12(t) \/ AdvanceAnchor(t) \/ ActivateV13(t)
        PROVE  DirectoryInv'
    BY <2>6, BuildCurrentKeeps, UpgradeKeeps, AddStrengthKeeps, ActivateV12Keeps,
       AdvanceKeeps, ActivateV13Keeps
  <2>7. CASE FinishCommand
    BY <2>7, FinishKeeps
  <2>8. CASE StopCommand
    BY <2>8, StopKeeps
  <2>9. CASE UNCHANGED snapshotVars
    BY <2>0, <2>9 DEF snapshotVars
  <2> QED
    BY <2>1, <2>2, <2>3, <2>4, <2>5, <2>6, <2>7, <2>8, <2>9 DEF SnapshotNext
<1> QED
  BY <1>1, <1>2, PTL DEF SnapshotSpec

-----------------------------------------------------------------------------
(* What an identity tells *)

\* A reader that gets the artifacts gets the fits the snapshot refers to.
LEMMA ModelOfReferences ==
  ASSUME NEW s, Loads(s)
  PROVE  Model(s) = {r.id : r \in References(s)}
BY DEF Model, Loads, Verified

LEMMA ReferencesOf ==
  ASSUME NEW s, Sound(s), NEW r \in References(s)
  PROVE  /\ r.id \in Fits /\ r.id.tour = s.tour
         /\ \/ r.id.kind \in Serve \cup {"retirement", "duration"} /\ r.id.cutoff = s.cutoff
            \/ /\ r.id.kind = "anchor"
               /\ IF s.framework \in Live THEN r.id.cutoff >= s.cutoff
                                          ELSE r.id.cutoff = s.cutoff
            \/ r.id.kind = "integration" /\ r.id.cutoff <= s.cutoff
<1>1. FrozenFits(s) /\ StrengthFits(s)
  BY DEF Sound
<1>2. CASE \E c \in Serve : r = s.serve[c]
  BY <1>1, <1>2 DEF FrozenFits, RefersTo
<1>3. CASE r \in {s.retirement, s.duration} /\ r # Missing
  BY <1>1, <1>3 DEF FrozenFits, RefersTo
<1>4. CASE r = s.anchor /\ r # Missing
  BY <1>1, <1>4 DEF StrengthFits, RefersTo
<1>5. CASE r = s.integration /\ r # Missing
  BY <1>1, <1>5 DEF StrengthFits, RefersTo
<1> QED
  BY <1>2, <1>3, <1>4, <1>5 DEF References

\* The fits that are referred to are those in the identity.
FitsNamed(id) ==
  {id.serve[c] : c \in Serve} \cup
  ({id.retirement, id.duration, id.anchor, id.integration} \ {Missing})
LEMMA IdentityNamesTheFits ==
  ASSUME NEW s, Sound(s)
  PROVE  {r.id : r \in References(s)} = FitsNamed(SnapshotId(s))
<1> DEFINE id == SnapshotId(s)
<1>1. /\ \A c \in Serve : id.serve[c] = s.serve[c].id
      /\ id.retirement = IdOf(s.retirement) /\ id.duration = IdOf(s.duration)
      /\ id.anchor = IdOf(s.anchor) /\ id.integration = IdOf(s.integration)
  <2>1. id.serve = [c \in Serve |-> s.serve[c].id]
    BY IdFields
  <2> QED
    BY <2>1, IdFields
<1>2. \A r \in {s.retirement, s.duration, s.anchor, s.integration} :
        r # Missing => r.id \in Fits /\ r.id # Missing
  BY FitKindAssumption DEF Sound, FrozenFits, StrengthFits, RefersTo
<1> HIDE DEF id
<1>3. \A r \in {s.retirement, s.duration, s.anchor, s.integration} :
        IdOf(r) = Missing <=> r = Missing
  BY <1>2 DEF IdOf
<1>4. \A r : r # Missing => IdOf(r) = r.id
  BY DEF IdOf
<1>5. ASSUME NEW r \in References(s) PROVE r.id \in FitsNamed(id)
  <2>1. CASE \E c \in Serve : r = s.serve[c]
    BY <1>1, <2>1 DEF FitsNamed
  <2>2. CASE r \in {s.retirement, s.duration, s.anchor, s.integration} /\ r # Missing
    BY <1>1, <1>3, <1>4, <2>2 DEF FitsNamed
  <2> QED
    BY <2>1, <2>2 DEF References
<1>6. ASSUME NEW x \in FitsNamed(id) PROVE \E r \in References(s) : x = r.id
  <2>1. CASE \E c \in Serve : x = id.serve[c]
    BY <1>1, <2>1 DEF References
  <2>2. CASE x \in {id.retirement, id.duration, id.anchor, id.integration} /\ x # Missing
    BY <1>1, <1>3, <1>4, <2>2 DEF References
  <2> QED
    BY <2>1, <2>2 DEF FitsNamed
<1>7. {r.id : r \in References(s)} = FitsNamed(id)
  BY <1>5, <1>6
<1> QED
  BY <1>7 DEF id

LEMMA KeptIsSound ==
  ASSUME DirectoryInv, NEW s \in KeptSnapshots
  PROVE  Sound(s)
<1> DEFINE contents(b) == {SnapshotsIn(b)[t] : t \in SnapshotTours}
<1>1. s \in UNION {contents(b) : b \in bundles} /\ s # Missing
  BY DEF KeptSnapshots
<1>2. PICK b \in bundles : s \in contents(b)
  BY <1>1
<1>3. PICK t \in SnapshotTours : s = SnapshotsIn(b)[t]
  BY <1>2
<1> QED
  BY <1>1, <1>3, HeldIsSound DEF DirectoryInv

LEMMA KeptNameTheirModel == DirectoryInv => SnapshotsNameTheirModel
<1> SUFFICES ASSUME DirectoryInv PROVE SnapshotsNameTheirModel
  OBVIOUS
<1> DEFINE loaded == {s \in KeptSnapshots : Loads(s)}
           models == {<<SnapshotId(s), Model(s)>> : s \in loaded}
<1>1. ASSUME NEW s \in loaded, NEW x \in Model(s)
      PROVE  /\ x.tour = s.tour
             /\ CASE x.kind = "integration" -> x.cutoff <= s.cutoff
                  [] x.kind = "anchor" /\ s.framework \in Live -> x.cutoff >= s.cutoff
                  [] OTHER -> x.cutoff = s.cutoff
  <2>1. Sound(s) /\ Loads(s)
    BY KeptIsSound
  <2>2. PICK r \in References(s) : x = r.id
    BY <2>1, ModelOfReferences
  <2>3. /\ x.tour = s.tour
        /\ \/ x.kind \in Serve \cup {"retirement", "duration"} /\ x.cutoff = s.cutoff
           \/ /\ x.kind = "anchor"
              /\ IF s.framework \in Live THEN x.cutoff >= s.cutoff
                                         ELSE x.cutoff = s.cutoff
           \/ x.kind = "integration" /\ x.cutoff <= s.cutoff
    BY <2>1, <2>2, ReferencesOf
  <2>4. \A k \in Serve \cup {"retirement", "duration"} : k # "integration" /\ k # "anchor"
    BY FitKindAssumption
  <2>5. CASE x.kind \in Serve \cup {"retirement", "duration"} /\ x.cutoff = s.cutoff
    BY <2>3, <2>4, <2>5
  <2>6. CASE x.kind = "anchor" /\ s.framework \in Live /\ x.cutoff >= s.cutoff
    BY <2>3, <2>6
  <2>7. CASE x.kind = "anchor" /\ s.framework \notin Live /\ x.cutoff = s.cutoff
    BY <2>3, <2>7
  <2>8. CASE x.kind = "integration" /\ x.cutoff <= s.cutoff
    BY <2>3, <2>8
  <2> QED
    BY <2>3, <2>5, <2>6, <2>7, <2>8
<1>2. ASSUME NEW s \in loaded PROVE Model(s) = FitsNamed(SnapshotId(s))
  <2>1. Sound(s) /\ Loads(s)
    BY KeptIsSound
  <2> QED
    BY <2>1, ModelOfReferences, IdentityNamesTheFits
<1>3. ASSUME NEW p \in models, NEW q \in models, p[1] = q[1] PROVE p = q
  <2>1. PICK s \in loaded : p = <<SnapshotId(s), Model(s)>>
    OBVIOUS
  <2>2. PICK u \in loaded : q = <<SnapshotId(u), Model(u)>>
    OBVIOUS
  <2>3. Model(s) = FitsNamed(SnapshotId(s)) /\ Model(u) = FitsNamed(SnapshotId(u))
    BY <1>2
  <2>4. SnapshotId(s) = SnapshotId(u)
    BY <1>3, <2>1, <2>2
  <2> QED
    BY <2>1, <2>2, <2>3, <2>4
<1> QED
  BY <1>1, <1>3 DEF SnapshotsNameTheirModel

\* For any fits, whatever commands stop and whatever becomes of the artifacts:
\* a snapshot that loads gives the fits of its tour and cutoff, and an identity
\* gives one model.
THEOREM IdentitiesNameModels == SnapshotSpec => []SnapshotsNameTheirModel
BY DirectoriesAreSound, KeptNameTheirModel, PTL

-----------------------------------------------------------------------------
(* The way a live snapshot has come *)

LEMMA LiveHaveComeTheWay ==
  ASSUME NEW s, Sound(s), s.framework \in Live
  PROVE  ComeTheWholeWay(s)
<1> DEFINE id == SnapshotId(s)
           one == s.base
           two == BaseOf(one)
           three == BaseOf(two)
           line == Line(s)
           past == {n \in 0..3 : n > 0 => line[n] # Missing}
<1>1. line[0] = id /\ line[1] = one /\ line[2] = two /\ line[3] = three
  BY DEF Line
<1>2. id.framework = s.framework /\ id.base = one
  BY IdFields
<1>3. OfV12(id) \/ OfV13(id)
  BY <1>2 DEF Sound, Lineage, OfV10, OfV11, OfV12, OfV13, Live
<1> HIDE DEF id, line
<1>4. one # Missing /\ two = one.base /\ Frozen(one) = Frozen(id)
      /\ (one.anchor # Missing => one.anchor.cutoff <= id.anchor.cutoff)
  BY <1>2, <1>3 DEF OfV12, OfV13, After, BaseOf
<1>5. OfV11(one) \/ OfV12(one)
  BY <1>2, <1>3 DEF OfV12, OfV13
<1>6. two # Missing /\ three = two.base /\ Frozen(two) = Frozen(one)
      /\ (two.anchor # Missing => two.anchor.cutoff <= one.anchor.cutoff)
  BY <1>4, <1>5 DEF OfV11, OfV12, After, BaseOf
<1> HIDE DEF two, three
<1>7. CASE s.framework = "v1.2"
  <2>1. OfV12(id) /\ OfV11(one) /\ OfV10(two)
    BY <1>2, <1>3, <1>4, <1>7 DEF OfV11, OfV12, OfV13
  <2>2. three = Missing
    BY <1>6, <2>1 DEF OfV10
  <2>3. past = {0, 1, 2}
    BY <1>1, <1>4, <1>6, <2>2
  <2>4. id.framework = "v1.2" /\ one.framework = "v1.1" /\ two.framework = "v1.0"
    BY <2>1 DEF OfV10, OfV11, OfV12
  <2> HIDE DEF past
  <2>5. {line[n].framework : n \in past} = {"v1.0", "v1.1", "v1.2"}
    BY <1>1, <2>3, <2>4
  <2>6. \A n \in past : n > 0 /\ line[n].anchor # Missing =>
          line[n].anchor.cutoff <= line[n - 1].anchor.cutoff
    BY <1>1, <1>4, <1>6, <2>3
  <2>7. \A n \in past : Frozen(line[n]) = Frozen(line[0])
    BY <1>1, <1>4, <1>6, <2>3
  <2> QED
    BY <1>7, <2>5, <2>6, <2>7 DEF ComeTheWholeWay, past, line
<1>8. CASE s.framework = "v1.3"
  <2>1. OfV13(id) /\ OfV12(one) /\ OfV11(two) /\ OfV10(two.base)
    BY <1>2, <1>3, <1>4, <1>8 DEF OfV11, OfV12, OfV13
  <2>2. three # Missing /\ three = two.base /\ Frozen(three) = Frozen(two)
        /\ (three.anchor # Missing => three.anchor.cutoff <= two.anchor.cutoff)
    BY <1>6, <2>1 DEF OfV11, After
  <2>3. past = 0..3
    BY <1>1, <1>4, <1>6, <2>2
  <2>4. /\ id.framework = "v1.3" /\ one.framework = "v1.2" /\ two.framework = "v1.1"
        /\ three.framework = "v1.0"
    BY <2>1, <2>2 DEF OfV10, OfV11, OfV12, OfV13
  <2> HIDE DEF past
  <2>5. {line[n].framework : n \in past} = {"v1.0", "v1.1", "v1.2", "v1.3"}
    BY <1>1, <2>3, <2>4
  <2>6. \A n \in past : n > 0 /\ line[n].anchor # Missing =>
          line[n].anchor.cutoff <= line[n - 1].anchor.cutoff
    BY <1>1, <1>4, <1>6, <2>2, <2>3
  <2>7. \A n \in past : Frozen(line[n]) = Frozen(line[0])
    BY <1>1, <1>4, <1>6, <2>2, <2>3
  <2> QED
    BY <1>8, <2>5, <2>6, <2>7 DEF ComeTheWholeWay, past, line
<1> QED
  BY <1>7, <1>8 DEF Live

LEMMA DirectoriesAgree == DirectoryInv => ReportedBundlesAgree
<1> SUFFICES ASSUME DirectoryInv, NEW b \in bundles, b.reported
             PROVE  /\ \A t \in SnapshotTours : b.made[t].tour = t
                    /\ b.stage \in Live => \A t \in SnapshotTours : b.made[t].framework = b.stage
                    /\ b.stage \in Live \cup {"r64"} =>
                         \A t \in SnapshotTours : ComeTheWholeWay(b.made[t])
  BY DEF ReportedBundlesAgree
<1>1. ASSUME NEW t \in SnapshotTours
      PROVE  /\ Sound(b.made[t]) /\ b.made[t].tour = t
             /\ b.stage \in Live => b.made[t].framework = b.stage
             /\ b.stage \in Live \cup {"r64"} => b.made[t].framework \in Live
  BY DEF DirectoryInv, Finished, Directory
<1>2. ASSUME NEW t \in SnapshotTours, b.stage \in Live \cup {"r64"}
      PROVE  ComeTheWholeWay(b.made[t])
  BY <1>1, <1>2, LiveHaveComeTheWay
<1> QED
  BY <1>1, <1>2

\* And a directory with a report is what it says: each tour has come through
\* every framework before its own, with its frozen fits and a later anchor only.
THEOREM ReportedHaveComeTheWay == SnapshotSpec => []ReportedBundlesAgree
BY DirectoriesAreSound, DirectoriesAgree, PTL
=============================================================================
