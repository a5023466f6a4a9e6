--------------------------- MODULE ReadWaitProofs ---------------------------
(* Theorems about the blocking read, for any set of readers.               *)
EXTENDS ReadWait, TLAPS

(* A step of the protocol keeps the types.                                 *)
LEMMA ReadTypeStep ==
  ASSUME ReadTypeOK, [ReadNext]_readVars
  PROVE  ReadTypeOK'
<1> USE DEF ReadTypeOK, ReaderPlaces, Kinds
<1>1. ASSUME NEW kind \in Kinds, Unlock(kind) PROVE ReadTypeOK'
  BY <1>1 DEF Unlock, Wake
<1>2. ASSUME NEW r \in Readers, ReaderStep(r) PROVE ReadTypeOK'
  <2>1. CASE ReadCheck(r) BY <2>1 DEF ReadCheck, Goto
  <2>2. CASE ReadSignal(r) BY <2>2 DEF ReadSignal, Goto
  <2>3. CASE ReadSleep(r) BY <2>3 DEF ReadSleep, Goto
  <2>4. CASE ReadResume(r) BY <2>4 DEF ReadResume, Goto
  <2>5. CASE ReadTake(r) BY <2>5 DEF ReadTake, Goto
  <2>6. CASE ReadEmpty(r) BY <2>6 DEF ReadEmpty, Goto
  <2>7. CASE ReadCopy(r) BY <2>7 DEF ReadCopy, Goto
  <2>8. CASE ReadReset(r) BY <2>8 DEF ReadReset, Goto
  <2> QED
    BY <1>2, <2>1, <2>2, <2>3, <2>4, <2>5, <2>6, <2>7, <2>8
    DEF ReaderStep, ReadProgress
<1>3. CASE UNCHANGED readVars
  BY <1>3 DEF readVars
<1> QED
  BY <1>1, <1>2, <1>3 DEF ReadNext

(* The type invariant of the read protocol.                                *)
THEOREM ReadTypeCorrect == ReadSpec => []ReadTypeOK
<1>1. ReadInit => ReadTypeOK
  BY DEF ReadInit, ReadTypeOK, ReaderPlaces, Kinds
<1>2. ReadTypeOK /\ [ReadNext]_readVars => ReadTypeOK'
  BY ReadTypeStep
<1> QED
  BY <1>1, <1>2, PTL DEF ReadSpec

(* A step of the protocol strands no event: the flag is cleared only by a  *)
(* reader that goes on to test the kind, and that reader leaves only when  *)
(* the kind is 0.                                                          *)
LEMMA StrandedStep ==
  ASSUME ReadTypeOK, NoStrandedEvent, [ReadNext]_readVars
  PROVE  NoStrandedEvent'
<1> USE DEF ReadTypeOK, ReaderPlaces, NoStrandedEvent
<1>1. ASSUME NEW kind \in Kinds, Unlock(kind) PROVE NoStrandedEvent'
  BY <1>1 DEF Unlock
<1>2. ASSUME NEW r \in Readers, ReaderStep(r) PROVE NoStrandedEvent'
  <2>1. CASE ReadCheck(r) BY <2>1 DEF ReadCheck, Goto
  <2>2. CASE ReadSignal(r) BY <2>2 DEF ReadSignal, Goto
  <2>3. CASE ReadSleep(r) BY <2>3 DEF ReadSleep, Goto
  <2>4. CASE ReadResume(r) BY <2>4 DEF ReadResume, Goto
  <2>5. CASE ReadTake(r) BY <2>5 DEF ReadTake, Goto
  <2>6. CASE ReadEmpty(r) BY <2>6 DEF ReadEmpty, Goto
  <2>7. CASE ReadCopy(r) BY <2>7 DEF ReadCopy, Goto
  <2>8. CASE ReadReset(r) BY <2>8 DEF ReadReset, Goto
  <2> QED
    BY <1>2, <2>1, <2>2, <2>3, <2>4, <2>5, <2>6, <2>7, <2>8
    DEF ReaderStep, ReadProgress
<1>3. CASE UNCHANGED readVars
  BY <1>3 DEF readVars
<1> QED
  BY <1>1, <1>2, <1>3 DEF ReadNext

(* No event is left behind, however reads and interrupts interleave.       *)
THEOREM ReadNoStrandedEvent == ReadSpec => []NoStrandedEvent
<1>1. ReadInit => NoStrandedEvent
  BY DEF ReadInit, NoStrandedEvent
<1>2. ReadTypeOK /\ NoStrandedEvent /\ [ReadNext]_readVars => NoStrandedEvent'
  BY StrandedStep
<1> QED
  BY <1>1, <1>2, ReadTypeCorrect, PTL DEF ReadSpec

(* With one reader no event is reported twice: a kind that is recorded     *)
(* while the reader is not about to clear it has not been copied, because  *)
(* the reader goes from the copy to the place where it clears it.          *)
THEOREM OneReaderReportsOnce ==
  ASSUME \A r, s \in Readers : r = s
  PROVE  ReadSpec => []ReportedOnce
<1> DEFINE Fresh == \A r \in Readers : readKind # 0 /\ pc[r] # "reset" => unreported
<1>1. ReadInit => Fresh
  BY DEF ReadInit
<1>2. ReadTypeOK /\ Fresh /\ [ReadNext]_readVars => Fresh'
  <2> SUFFICES ASSUME ReadTypeOK, Fresh, [ReadNext]_readVars PROVE Fresh'
    OBVIOUS
  <2> USE DEF ReadTypeOK, ReaderPlaces
  <2>1. ASSUME NEW kind \in Kinds, Unlock(kind) PROVE Fresh'
    BY <2>1 DEF Unlock
  <2>2. ASSUME NEW r \in Readers, ReaderStep(r) PROVE Fresh'
    <3>1. CASE ReadCheck(r) BY <3>1 DEF ReadCheck, Goto
    <3>2. CASE ReadSignal(r) BY <3>2 DEF ReadSignal, Goto
    <3>3. CASE ReadSleep(r) BY <3>3 DEF ReadSleep, Goto
    <3>4. CASE ReadResume(r) BY <3>4 DEF ReadResume, Goto
    <3>5. CASE ReadTake(r) BY <3>5 DEF ReadTake, Goto
    <3>6. CASE ReadEmpty(r) BY <3>6 DEF ReadEmpty, Goto
    <3>7. CASE ReadCopy(r) BY <3>7 DEF ReadCopy, Goto
    <3>8. CASE ReadReset(r) BY <3>8 DEF ReadReset, Goto
    <3> QED
      BY <2>2, <3>1, <3>2, <3>3, <3>4, <3>5, <3>6, <3>7, <3>8
      DEF ReaderStep, ReadProgress
  <2>3. CASE UNCHANGED readVars
    BY <2>3 DEF readVars
  <2> QED
    BY <2>1, <2>2, <2>3 DEF ReadNext
<1>3. Fresh => ReportedOnce
  BY DEF ReportedOnce
<1> QED
  BY <1>1, <1>2, <1>3, ReadTypeCorrect, PTL DEF ReadSpec

(* No event arrives while a read is between taking the flag and clearing   *)
(* the kind.                                                               *)
QuietReads ==
  [][\A kind \in Kinds :
       Unlock(kind) => \A r \in Readers : pc[r] \notin {"kind", "reset"}]_readVars

(* How far "send back the reason of why the read has been unlocked" is     *)
(* true: a read finds the reason if it is the only reader's and no event   *)
(* falls between its test of m_bReadDone and its reset of m_uiReadKind.    *)
(* TLC refutes it when either of the two is dropped.                       *)
THEOREM ReasonForQuietReader ==
  ASSUME \A r, s \in Readers : r = s
  PROVE  ReadSpec /\ QuietReads => []ReadGivesReason
<1> DEFINE Reason ==
             /\ readDone => readKind # 0
             /\ \A r \in Readers :
                  /\ pc[r] \in {"woken", "take", "kind"} => readKind # 0
                  /\ pc[r] \in {"kind", "reset"} => ~readDone
           Quiet == \A kind \in Kinds :
                      Unlock(kind) => \A r \in Readers : pc[r] \notin {"kind", "reset"}
<1>1. ReadInit => Reason
  BY DEF ReadInit
<1>2. ReadTypeOK /\ Reason /\ [ReadNext]_readVars /\ [Quiet]_readVars => Reason'
  <2> SUFFICES ASSUME ReadTypeOK, Reason, [ReadNext]_readVars, [Quiet]_readVars
               PROVE  Reason'
    OBVIOUS
  <2> USE DEF ReadTypeOK, ReaderPlaces
  <2>1. CASE UNCHANGED readVars
    BY <2>1 DEF readVars
  <2>2. ASSUME NEW kind \in Kinds, Unlock(kind), Quiet PROVE Reason'
    <3>1. \A r \in Readers : pc[r] \notin {"kind", "reset"}
      BY <2>2
    <3>2. kind # 0
      BY DEF Kinds
    <3> QED
      BY <2>2, <3>1, <3>2 DEF Unlock, Wake
  <2>3. ASSUME NEW r \in Readers, ReaderStep(r) PROVE Reason'
    <3>1. CASE ReadCheck(r) BY <3>1 DEF ReadCheck, Goto
    <3>2. CASE ReadSignal(r) BY <3>2 DEF ReadSignal, Goto
    <3>3. CASE ReadSleep(r) BY <3>3 DEF ReadSleep, Goto
    <3>4. CASE ReadResume(r) BY <3>4 DEF ReadResume, Goto
    <3>5. CASE ReadTake(r) BY <3>5 DEF ReadTake, Goto
    <3>6. CASE ReadEmpty(r) BY <3>6 DEF ReadEmpty, Goto
    <3>7. CASE ReadCopy(r) BY <3>7 DEF ReadCopy, Goto
    <3>8. CASE ReadReset(r) BY <3>8 DEF ReadReset, Goto
    <3> QED
      BY <2>3, <3>1, <3>2, <3>3, <3>4, <3>5, <3>6, <3>7, <3>8
      DEF ReaderStep, ReadProgress
  <2> QED
    BY <2>1, <2>2, <2>3 DEF ReadNext
<1>3. Reason => ReadGivesReason
  BY DEF ReadGivesReason
<1> QED
  BY <1>1, <1>2, <1>3, ReadTypeCorrect, PTL DEF ReadSpec, QuietReads
=============================================================================
