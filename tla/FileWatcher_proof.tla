------------------------- MODULE FileWatcher_proof -------------------------
(***************************************************************************)
(* The safety properties of FileWatcher, for any number of saves and of    *)
(* other writes, any buffer, with and without failing calls.               *)
(***************************************************************************)
EXTENDS FileWatcher, TLAPS

-----------------------------------------------------------------------------
(* Types.                                                                  *)

USE BoundsAssumption DEF Torn, Defaults

LEMMA EmptyRecords == <<>> \in Seq(Record) /\ Len(<<>>) = 0
    OBVIOUS

LEMMA InitTypes == Init => TypeOK
<1> SUFFICES ASSUME Init PROVE TypeOK
    OBVIOUS
<1>1. /\ disk = 0 /\ ini = Defaults /\ loaded = Defaults /\ data = Defaults
      /\ notes = <<>> /\ batch = <<>>
      /\ editor = "rest" /\ saves = 0 /\ noise = 0 /\ init = "read"
      /\ watcher = "none" /\ late = 0
      /\ ~armed /\ ~pending /\ ~overflow /\ ~stopping /\ ~requested /\ ~missed
    BY DEF Init
<1>2. /\ armed \in BOOLEAN /\ pending \in BOOLEAN /\ overflow \in BOOLEAN
      /\ stopping \in BOOLEAN /\ requested \in BOOLEAN /\ missed \in BOOLEAN
    BY Zenon DEF Init
<1>3. /\ notes \in Seq(Record) /\ batch \in Seq(Record)
      /\ Len(notes) <= BufferCap
    BY <1>1, EmptyRecords
<1>4. /\ disk \in Content /\ ini \in Content
      /\ loaded \in Content /\ data \in Content
    BY <1>1 DEF Content
<1> QED BY <1>1, <1>2, <1>3, <1>4 DEF TypeOK, WatcherPC

\* What a change note leaves of the kernel's state.
LEMMA NoteTypes ==
    ASSUME TypeOK, NEW r \in Record, Note(r)
    PROVE  /\ notes' \in Seq(Record) /\ Len(notes') <= BufferCap
           /\ overflow' \in BOOLEAN /\ batch' \in Seq(Record)
           /\ armed' \in BOOLEAN /\ pending' = pending
<1>1. CASE ~armed \/ overflow
    BY <1>1 DEF Note, TypeOK
<1>2. CASE ~(~armed \/ overflow) /\ Len(notes) < BufferCap
    <2>1. notes' = Append(notes, r) /\ UNCHANGED <<overflow, armed, pending, batch>>
        BY <1>2 DEF Note
    <2>2. Append(notes, r) \in Seq(Record) /\ Len(Append(notes, r)) = Len(notes) + 1
        BY DEF TypeOK
    <2>3. Len(notes) \in Nat
        BY DEF TypeOK
    <2> QED BY <1>2, <2>1, <2>2, <2>3 DEF TypeOK
<1>3. CASE ~(~armed \/ overflow) /\ ~(Len(notes) < BufferCap)
    <2>1. notes' = <<>> /\ overflow' = TRUE /\ UNCHANGED <<armed, pending, batch>>
        BY <1>3 DEF Note
    <2> QED BY <2>1, EmptyRecords DEF TypeOK
<1> QED BY <1>1, <1>2, <1>3

\* The watcher is created once, by the init thread's last step; before that the
\* kernel keeps no records.
Created ==
    /\ watcher = "none" <=> init # "done"
    /\ armed => init = "done"
    /\ requested => stopping
    /\ stopping => init = "done"

LEMMA StepCreated == TypeOK /\ Created /\ [Next]_vars => Created'
<1> USE DEF Created, WatcherPC, outsideVars, initVars, kernelVars, stopVars,
            worldVars, Goto, GiveUp, Note, OurChange
<1> QED BY DEF TypeOK, Next, EditorStep, InitStep, WatcherStep, vars, Truncate,
      Write, Close, Replace, OtherWrite, Complete, ReadIni, InstallAll,
      InstallThrows, CreateWatcher, OpenDirectory, IssueRead, LeaveLoop,
      WaitReturns, TakeResult, Scan, Debounce, CheckStopping, CallbackReads,
      Reload, SetStopping, RequestStop

LEMMA StepTypes == TypeOK /\ Created /\ [Next]_vars => TypeOK'
<1> SUFFICES ASSUME TypeOK, Created, [Next]_vars PROVE TypeOK'
    OBVIOUS
<1> USE DEF Content, WatcherPC, outsideVars, initVars, kernelVars, stopVars,
            worldVars, Goto, GiveUp
<1>1. CASE Truncate
    BY <1>1, NoteTypes DEF Truncate, OurChange, TypeOK, Record
<1>2. CASE Write
    BY <1>2, NoteTypes DEF Write, OurChange, TypeOK, Record
<1>3. CASE Close
    BY <1>3 DEF Close, TypeOK
<1>4. CASE Replace
    BY <1>4, NoteTypes DEF Replace, TypeOK, Record
<1>5. CASE OtherWrite
    BY <1>5, NoteTypes DEF OtherWrite, TypeOK, Record
<1>6. CASE Complete
    <2>1. /\ notes' = <<>> /\ batch' = notes /\ ~pending'
          /\ pending' \in BOOLEAN /\ overflow' \in BOOLEAN
          /\ UNCHANGED <<armed, outsideVars, initVars, loaded, watcher, data,
                         stopVars, missed, late>>
        BY <1>6 DEF Complete
    <2>2. notes' \in Seq(Record) /\ Len(notes') <= BufferCap
        BY <2>1, EmptyRecords
    <2> QED BY <2>1, <2>2 DEF TypeOK
<1>7. CASE ReadIni
    <2>1. missed' \in BOOLEAN
        BY <1>7, Zenon DEF ReadIni, TypeOK
    <2> QED BY <1>7, <2>1 DEF ReadIni, TypeOK
<1>8. CASE InstallAll
    BY <1>8 DEF InstallAll, TypeOK
<1>9. CASE InstallThrows
    BY <1>9 DEF InstallThrows, TypeOK
<1>10. CASE CreateWatcher
    BY <1>10 DEF CreateWatcher, TypeOK, Created
<1>11. CASE OpenDirectory
    <2>1. missed' \in BOOLEAN
        BY <1>11, Zenon DEF OpenDirectory, TypeOK
    <2>2. armed' \in BOOLEAN /\ pending' \in BOOLEAN
        BY <1>11, Zenon DEF OpenDirectory, TypeOK
    <2> QED BY <1>11, <2>1, <2>2 DEF OpenDirectory, TypeOK
<1>12. CASE IssueRead
    <2>1. missed' \in BOOLEAN
        BY <1>12, Zenon DEF IssueRead, TypeOK
    <2>2. armed' \in BOOLEAN /\ pending' \in BOOLEAN
        BY <1>12, Zenon DEF IssueRead, TypeOK
    <2> QED BY <1>12, <2>1, <2>2 DEF IssueRead, TypeOK
<1>13. CASE LeaveLoop
    BY <1>13 DEF LeaveLoop, TypeOK
<1>14. CASE WaitReturns
    <2>1. missed' \in BOOLEAN
        BY <1>14, Zenon DEF WaitReturns, TypeOK
    <2>2. armed' \in BOOLEAN /\ pending' \in BOOLEAN
        BY <1>14, Zenon DEF WaitReturns, TypeOK
    <2> QED BY <1>14, <2>1, <2>2 DEF WaitReturns, TypeOK
<1>15. CASE TakeResult
    BY <1>15 DEF TakeResult, TypeOK
<1>16. CASE Scan
    BY <1>16 DEF Scan, TypeOK
<1>17. CASE Debounce
    BY <1>17 DEF Debounce, TypeOK
<1>18. CASE CheckStopping
    BY <1>18 DEF CheckStopping, TypeOK
<1>19. CASE CallbackReads
    <2>1. missed' \in BOOLEAN
        BY <1>19, Zenon DEF CallbackReads, TypeOK
    <2>2. armed' \in BOOLEAN /\ pending' \in BOOLEAN
        BY <1>19, Zenon DEF CallbackReads, TypeOK
    <2> QED BY <1>19, <2>1, <2>2 DEF CallbackReads, TypeOK
<1>20. CASE Reload
    BY <1>20 DEF Reload, TypeOK
<1>21. CASE SetStopping
    BY <1>21 DEF SetStopping, TypeOK
<1>22. CASE RequestStop
    BY <1>22 DEF RequestStop, TypeOK
<1>23. CASE UNCHANGED vars
    BY <1>23 DEF vars, TypeOK
<1> QED BY <1>1, <1>2, <1>3, <1>4, <1>5, <1>6, <1>7, <1>8, <1>9, <1>10,
          <1>11, <1>12, <1>13, <1>14, <1>15, <1>16, <1>17, <1>18, <1>19,
          <1>20, <1>21, <1>22, <1>23
    DEF Next, EditorStep, InitStep, WatcherStep

\* Every variable keeps its type; at most one read is outstanding, and only
\* while the thread waits for it or has ended.
THEOREM WatcherTypeCorrect == Spec => []TypeOK
<1>1. Init => TypeOK /\ Created
    BY InitTypes DEF Init, Created
<1>2. TypeOK /\ Created /\ [Next]_vars => (TypeOK /\ Created)'
    BY StepTypes, StepCreated
<1> QED BY <1>1, <1>2, PTL DEF Spec

-----------------------------------------------------------------------------
(* Stopping.                                                               *)

\* The callback that was already past the check when m_stopping was set is the
\* only one that can be late, and it has begun then.
LateInv ==
    /\ ~stopping => late = 0
    /\ late <= 1
    /\ late >= 1 => watcher # "callback"

LEMMA StepLate ==
    TypeOK /\ Created /\ LateInv /\ [Next]_vars => LateInv'
<1> SUFFICES ASSUME TypeOK, Created, LateInv, [Next]_vars PROVE LateInv'
    OBVIOUS
<1> USE DEF LateInv, outsideVars, initVars, kernelVars, stopVars, worldVars,
            Goto, GiveUp, TypeOK
<1>1. CASE CheckStopping
    BY <1>1 DEF CheckStopping
<1>2. CASE CallbackReads
    BY <1>2 DEF CallbackReads
<1>3. CASE SetStopping
    BY <1>3 DEF SetStopping
<1>4. CASE EditorStep \/ Complete \/ InitStep \/ RequestStop \/ UNCHANGED vars
    BY <1>4 DEF EditorStep, InitStep, Truncate, Write, Close, Replace,
        OtherWrite, Complete, ReadIni, InstallAll, InstallThrows,
        CreateWatcher, RequestStop, vars
<1>5. CASE OpenDirectory \/ IssueRead \/ LeaveLoop \/ WaitReturns \/ TakeResult
           \/ Scan \/ Debounce \/ Reload
    BY <1>5 DEF OpenDirectory, IssueRead, LeaveLoop, WaitReturns, TakeResult,
        Scan, Debounce, Reload
<1> QED BY <1>1, <1>2, <1>3, <1>4, <1>5 DEF Next, WatcherStep

\* After stop() has set m_stopping at most one callback still begins.
THEOREM StopIsHeard == Spec => []AtMostOneLateCallback
<1>1. Init => TypeOK /\ Created /\ LateInv
    BY InitTypes DEF Init, Created, LateInv
<1>2. TypeOK /\ Created /\ LateInv /\ [Next]_vars
        => (TypeOK /\ Created /\ LateInv)'
    BY StepTypes, StepCreated, StepLate
<1>3. LateInv => AtMostOneLateCallback
    BY DEF LateInv, AtMostOneLateCallback
<1> QED BY <1>1, <1>2, <1>3, PTL DEF Spec

-----------------------------------------------------------------------------
(* Nothing noticed is lost.                                                *)

\* A record of ours is on its way to the scan.
Noticed ==
    \/ Contains(notes, "ours")
    \/ /\ Contains(batch, "ours")
       /\ watcher \in {"result", "scan"} \/ (watcher = "wait" /\ ~pending)

\* The file is going to be read again, or what was read is what it holds.
Coming ==
    \/ Noticed
    \/ watcher \in {"debounce", "check", "callback", "done"}
    \/ watcher = "reload" /\ data = disk

Settled == ~missed /\ editor # "truncated"

\* Until the file has been loaded once, nothing of it is noticed, so that the
\* content read is the content on disk; from then on a difference between the
\* registry and the disk is on its way.
CurrentInv ==
    /\ init = "install" /\ Settled => ini = disk
    /\ init \in {"create", "done"} /\ Settled /\ ~Coming => loaded = disk
    /\ watcher = "reload" /\ data # disk /\ Settled => Noticed

LEMMA EmptyHasNothing == ASSUME NEW e PROVE ~Contains(<<>>, e)
    BY DEF Contains

\* Appending keeps and adds.
LEMMA ContainsFacts ==
    ASSUME NEW S, NEW q \in Seq(S), NEW r \in S, NEW e
    PROVE  /\ Contains(q, e) => Contains(Append(q, r), e)
           /\ Contains(Append(q, r), r)
<1>1. Contains(q, e) => Contains(Append(q, r), e)
    BY DEF Contains
<1>2. Contains(Append(q, r), r)
    <2>1. Len(Append(q, r)) = Len(q) + 1 /\ Append(q, r)[Len(q) + 1] = r
        OBVIOUS
    <2> QED BY <2>1 DEF Contains
<1> QED BY <1>1, <1>2

\* A change note for our file reaches the kernel's records unless the change is
\* counted as missed.
LEMMA OurChangeIsNoted ==
    ASSUME TypeOK, Created, OurChange, ~missed', init # "read"
    PROVE  Contains(notes', "ours") /\ init = "done" /\ ~missed
<1>1. ~missed /\ armed /\ ~overflow /\ Len(notes) # BufferCap
    BY DEF OurChange, Dropped
<1>2. Len(notes) < BufferCap
    BY <1>1 DEF TypeOK
<1>3. notes' = Append(notes, "ours")
    BY <1>1, <1>2 DEF OurChange, Note
<1>4. notes \in Seq(Record) /\ "ours" \in Record
    BY DEF TypeOK, Record
<1> QED BY <1>1, <1>3, <1>4, ContainsFacts DEF Created

LEMMA OtherNoteKeeps ==
    ASSUME TypeOK, NEW r \in Record, Note(r), Contains(notes, "ours"),
           ~(armed /\ Len(notes) = BufferCap /\ Contains(notes, "ours"))
    PROVE  Contains(notes', "ours")
<1>1. CASE ~armed \/ overflow
    BY <1>1 DEF Note
<1>2. CASE ~(~armed \/ overflow)
    <2>1. Len(notes) < BufferCap
        BY <1>2 DEF TypeOK
    <2>2. notes' = Append(notes, r)
        BY <1>2, <2>1 DEF Note
    <2> QED BY <2>2, ContainsFacts DEF TypeOK
<1> QED BY <1>1, <1>2

LEMMA StepCurrent ==
    TypeOK /\ Created /\ CurrentInv /\ [Next]_vars => CurrentInv'
<1> SUFFICES ASSUME TypeOK, Created, CurrentInv, [Next]_vars
             PROVE  CurrentInv'
    OBVIOUS
<1> USE DEF outsideVars, initVars, kernelVars, stopVars, worldVars, Goto,
            GiveUp, CurrentInv, Settled, Coming, Noticed
<1>1. CASE Truncate
    BY <1>1 DEF Truncate
<1>2. CASE Write
    <2>1. CASE init = "read"
        BY <1>2, <2>1 DEF Write, Created, TypeOK
    <2>2. CASE init # "read" /\ ~missed'
        BY <1>2, <2>2, OurChangeIsNoted DEF Write
    <2> QED BY <1>2, <2>1, <2>2 DEF Write
<1>3. CASE Close
    BY <1>3 DEF Close
<1>4. CASE Replace
    <2>1. CASE init = "read"
        BY <1>4, <2>1 DEF Replace, Created, TypeOK
    <2> QED BY <1>4, <2>1 DEF Replace
<1>5. CASE OtherWrite
    <2>1. PICK r \in {"other", "bad"} : Note(r)
        BY <1>5 DEF OtherWrite
    <2>2. Contains(notes, "ours") /\ ~missed' => Contains(notes', "ours")
        BY <1>5, <2>1, OtherNoteKeeps DEF OtherWrite, Record
    <2>3. batch' = batch /\ pending' = pending /\ (~missed' => ~missed)
        BY <1>5, <2>1 DEF OtherWrite, Note
    <2> QED BY <1>5, <2>2, <2>3 DEF OtherWrite
<1>6. CASE Complete
    <2>1. /\ watcher \in {"wait", "done"} /\ watcher' = watcher
          /\ batch' = notes /\ ~pending'
        BY <1>6 DEF Complete, TypeOK
    <2>2. ~Coming' => ~Coming
        BY <1>6, <2>1 DEF Complete
    <2> QED BY <1>6, <2>1, <2>2 DEF Complete
<1>7. CASE ReadIni
    BY <1>7 DEF ReadIni, Created, TypeOK
<1>8. CASE InstallAll
    BY <1>8 DEF InstallAll, Created
<1>9. CASE InstallThrows
    BY <1>9 DEF InstallThrows
<1>10. CASE CreateWatcher
    BY <1>10 DEF CreateWatcher, Created
<1>11. CASE OpenDirectory
    BY <1>11 DEF OpenDirectory
<1>12. CASE IssueRead
    BY <1>12 DEF IssueRead
<1>13. CASE LeaveLoop
    BY <1>13 DEF LeaveLoop
<1>14. CASE WaitReturns
    BY <1>14 DEF WaitReturns
<1>15. CASE TakeResult
    <2>1. batch = <<>> => ~Contains(batch, "ours")
        BY EmptyHasNothing
    <2> QED BY <1>15, <2>1 DEF TakeResult
<1>16. CASE Scan
    BY <1>16 DEF Scan
<1>17. CASE Debounce
    BY <1>17 DEF Debounce
<1>18. CASE CheckStopping
    BY <1>18 DEF CheckStopping
<1>19. CASE CallbackReads
    BY <1>19 DEF CallbackReads, TypeOK
<1>20. CASE Reload
    BY <1>20 DEF Reload, Created
<1>21. CASE SetStopping \/ RequestStop \/ UNCHANGED vars
    BY <1>21 DEF SetStopping, RequestStop, vars
<1> QED BY <1>1, <1>2, <1>3, <1>4, <1>5, <1>6, <1>7, <1>8, <1>9, <1>10,
          <1>11, <1>12, <1>13, <1>14, <1>15, <1>16, <1>17, <1>18, <1>19,
          <1>20, <1>21
    DEF Next, EditorStep, InitStep, WatcherStep

\* A watcher that waits with nothing to report has given the registry what is
\* on disk, unless a change went by unnoticed.
THEOREM QuietMeansCurrent == Spec => []WaitingMeansCurrent
<1>1. Init => TypeOK /\ Created /\ CurrentInv
    BY InitTypes DEF Init, Created, CurrentInv
<1>2. TypeOK /\ Created /\ CurrentInv /\ [Next]_vars
        => (TypeOK /\ Created /\ CurrentInv)'
    BY StepTypes, StepCreated, StepCurrent
<1>3. TypeOK /\ Created /\ CurrentInv => WaitingMeansCurrent
    <2>1. notes = <<>> => ~Contains(notes, "ours")
        BY EmptyHasNothing
    <2> QED BY <2>1 DEF WaitingMeansCurrent, Created, CurrentInv, Settled,
                        Coming, Noticed
<1> QED BY <1>1, <1>2, <1>3, PTL DEF Spec
=============================================================================
