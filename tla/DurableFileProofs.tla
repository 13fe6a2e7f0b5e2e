------------------------- MODULE DurableFileProofs -------------------------
(***************************************************************************)
(* Theorems about DurableFile for any documents, any migration that leaves *)
(* no legacy document, and any number of saves, kills and power cuts.      *)
(***************************************************************************)
EXTENDS DurableFile, TLAPS

LEMMA TypeInit == Init => TypeOK
  <1> SUFFICES ASSUME Init PROVE TypeOK
    OBVIOUS
  <1>1. path \in Contents /\ after \in SUBSET Contents /\ tmp \in Contents
    BY DEF Init, Contents
  <1>2. saves \in 0 .. MaxSaves
    BY DocumentAssumption DEF Init
  <1>3. kept \in Contents /\ previous \in Contents
    BY DEF Init, Contents
  <1> QED
    BY <1>1, <1>2, <1>3, DocumentAssumption DEF Init, TypeOK

LEMMA TypeStep == TypeOK /\ [Next]_vars => TypeOK'
  <1> SUFFICES ASSUME TypeOK, [Next]_vars PROVE TypeOK'
    OBVIOUS
  <1> USE DEF TypeOK, disk, process, Calls, Contents
  <1>1. CASE Load
    <2>1. commanded' \in Documents \ Legacy /\ draft' \in Documents \ Legacy
      BY <1>1, DocumentAssumption DEF Load
    <2> QED
      BY <1>1, <2>1 DEF Load
  <1>2. CASE LoadNothing \/ LoadFails
    BY <1>2, DocumentAssumption DEF LoadNothing, LoadFails
  <1>3. CASE Command
    BY <1>3, DocumentAssumption DEF Command
  <1>4. CASE Create \/ Write \/ Sync \/ Rename
    BY <1>4 DEF Create, Write, Sync, Rename
  <1>5. CASE Commit \/ Fail
    BY <1>5 DEF Commit, Fail
  <1>6. CASE WriteBack \/ Kill
    BY <1>6 DEF WriteBack, Kill
  <1>7. CASE PowerCut
    BY <1>7 DEF PowerCut
  <1>8. CASE UNCHANGED vars
    BY <1>8 DEF vars
  <1> QED
    BY <1>1, <1>2, <1>3, <1>4, <1>5, <1>6, <1>7, <1>8 DEF Next

\* The variables keep their types: no legacy document is in use or saved.
THEOREM TypeCorrect == Spec => []TypeOK
  BY TypeInit, TypeStep, PTL DEF Spec

-----------------------------------------------------------------------------
\* What a save relies on at each of its calls: the temporary file is whole
\* before it is synced, and everything is on the disk before the rename.
SaveInv ==
  /\ KillLosesNothing
  /\ PowerCutOneBack
  /\ kept \in (Documents \ Legacy) \cup {Missing}
  /\ pc \in {"sync", "rename"} => tmp = draft
  /\ pc = "rename" => synced /\ after = {path}
  /\ pc = "commit" => kept = draft
  /\ pc \in Calls /\ kept # Missing => commanded = kept

LEMMA SaveInit == Init => SaveInv
  BY DEF Init, SaveInv, KillLosesNothing, PowerCutOneBack, Calls

LEMMA SaveStep == TypeOK /\ SaveInv /\ [Next]_vars => SaveInv'
  <1> SUFFICES ASSUME TypeOK, SaveInv, [Next]_vars PROVE SaveInv'
    OBVIOUS
  <1> USE DEF TypeOK, SaveInv, KillLosesNothing, PowerCutOneBack, disk, process, Calls
  <1>1. CASE Load
    <2>1. kept # Missing => path = kept /\ path \notin Legacy /\ Migrate[path] = path
      BY <1>1 DEF Legacy, Load
    <2> QED
      BY <1>1, <2>1 DEF Load
  <1>2. CASE LoadNothing
    <2>1. kept = Missing
      BY <1>2 DEF LoadNothing
    <2> QED
      BY <1>2, <2>1 DEF LoadNothing
  <1>3. CASE LoadFails
    BY <1>3 DEF LoadFails
  <1>4. CASE Command
    BY <1>4 DEF Command
  <1>5. CASE Create \/ Write \/ Sync
    BY <1>5 DEF Create, Write, Sync
  <1>6. CASE Rename
    BY <1>6 DEF Rename
  <1>7. CASE Commit \/ Fail
    BY <1>7 DEF Commit, Fail
  <1>8. CASE WriteBack \/ Kill
    BY <1>8 DEF WriteBack, Kill
  <1>9. CASE PowerCut
    BY <1>9 DEF PowerCut
  <1>10. CASE UNCHANGED vars
    BY <1>10 DEF vars
  <1> QED
    BY <1>1, <1>2, <1>3, <1>4, <1>5, <1>6, <1>7, <1>8, <1>9, <1>10 DEF Next

LEMMA SaveAlways == Spec => [](TypeOK /\ SaveInv)
  BY SaveInit, SaveStep, TypeCorrect, PTL DEF Spec

\* What was saved last is in the file after any kill and any failed call, and
\* in the memory of the process that runs then.
THEOREM KillTheorem == Spec => []KillLosesNothing
  <1>1. SaveInv => KillLosesNothing
    BY DEF SaveInv
  <1> QED
    BY <1>1, SaveAlways, PTL

\* A power cut undoes at most the last save.
THEOREM PowerCutTheorem == Spec => []PowerCutOneBack
  <1>1. SaveInv => PowerCutOneBack
    BY DEF SaveInv
  <1> QED
    BY <1>1, SaveAlways, PTL

-----------------------------------------------------------------------------
\* Every step replaces the document whole, settles it, takes it back to one
\* that was offered, or leaves it alone.
LEMMA AtomicStep ==
  TypeOK /\ SaveInv /\ [Next]_vars => [Atomic!Next]_<<path, after>>
  <1> SUFFICES ASSUME TypeOK, SaveInv, [Next]_vars, ~UNCHANGED <<path, after>>
               PROVE  Atomic!Next
    OBVIOUS
  <1> USE DEF disk, process
  <1>1. CASE Sync \/ WriteBack
    <2>1. Atomic!Settle
      BY <1>1 DEF Sync, WriteBack, Atomic!Settle
    <2> QED
      BY <2>1 DEF Atomic!Next
  <1>2. CASE Rename
    <2>1. tmp = draft /\ synced /\ draft \in Documents
      BY <1>2 DEF Rename, SaveInv, TypeOK
    <2>2. Atomic!Replace
      BY <1>2, <2>1 DEF Rename, Atomic!Replace
    <2> QED
      BY <2>2 DEF Atomic!Next
  <1>3. CASE PowerCut
    <2>1. Atomic!PowerCut
      BY <1>3 DEF PowerCut, Atomic!PowerCut
    <2> QED
      BY <2>1 DEF Atomic!Next
  <1>4. CASE Load \/ LoadNothing \/ LoadFails \/ Command \/ Create \/ Write \/ Commit
             \/ Fail \/ Kill
    BY <1>4 DEF Load, LoadNothing, LoadFails, Command, Create, Write, Commit, Fail, Kill
  <1>5. CASE UNCHANGED vars
    BY <1>5 DEF vars
  <1> QED
    BY <1>1, <1>2, <1>3, <1>4, <1>5 DEF Next

\* The file implements the atomic document: no reader, and no power cut, ever
\* finds it half written.
THEOREM AtomicTheorem == Spec => ImplementsAtomic
  <1>1. Init => Atomic!Init
    BY DEF Init, Atomic!Init
  <1> QED
    BY <1>1, AtomicStep, SaveAlways, PTL DEF Spec, ImplementsAtomic, Atomic!Spec

=============================================================================
