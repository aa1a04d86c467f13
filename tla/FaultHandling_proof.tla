------------------------ MODULE FaultHandling_proof -------------------------
(***************************************************************************)
(* Proofs about FaultHandling: its safety properties, for any threads and  *)
(* callbacks, any number of faults and any limit of foreign ones.          *)
(***************************************************************************)
EXTENDS FaultHandling, TLAPS

\* Reports of the vectored handler nest only as far as tl_in_veh lets them.
VehOnce ==
    \A t \in Thread :
        /\ frames[t].veh \in {0, 1}
        /\ frames[t].veh = 1 => t \in inVeh
        /\ at[t] = "veh" => frames[t].veh = 1

\* Those of the filter, whose flag is cleared just before its handler runs.
FilterOnce ==
    \A t \in Thread :
        /\ frames[t].filter \in {0, 1}
        /\ frames[t].filter = 1 => t \in inFilter \/ at[t] = "handled"

ForeignOnce == foreignLogs <= foreign /\ foreignLogs <= MaxForeign

FilterPlace == {"header", "symbols", "init", "lookup", "trace", "dump"}

\* The flag of the filter outlives a report only if the report has faulted.
FlagExplained ==
    \A t \in inFilter : t \in broken \/ at[t] \in FilterPlace

\* The filter is that of a __try.
FilterGuards == \A t \in Thread : at[t] \in FilterPlace => guard[t] \in Guard

\* Who is in DbgHelp's symbol functions.
SymbolsOwned ==
    \A t \in Thread :
        /\ at[t] = "init" => symInit = t
        /\ at[t] = "lookup" => symInit = "ready" /\ dbghelp = t

HandledExplained ==
    /\ \A t \in Thread : at[t] = "handled" => guard[t] \in explained
    /\ DisabledIsExplained

FaultInv ==
    /\ TypeOK
    /\ VehOnce /\ FilterOnce /\ ForeignOnce
    /\ FilterGuards /\ FlagExplained
    /\ FaultsContained
    /\ SymbolsOwned
    /\ HandledExplained

LEMMA FaultInvInit == Init => FaultInv
<1> SUFFICES ASSUME Init PROVE FaultInv
  OBVIOUS
<1> USE FaultConstants DEF Init
<1>1. TypeOK
  BY DEF TypeOK, Place, Reporting, Exception, Lock, Owner, FaultAssumption, Guard
<1>2. VehOnce /\ FilterOnce /\ SymbolsOwned
  BY DEF VehOnce, FilterOnce, SymbolsOwned
<1>3. ForeignOnce /\ FilterGuards /\ FlagExplained
  BY DEF ForeignOnce, FilterGuards, FilterPlace, FlagExplained, FaultAssumption
<1>4. FaultsContained /\ HandledExplained
  BY DEF FaultsContained, HandledExplained, DisabledIsExplained
<1> QED
  BY <1>1, <1>2, <1>3, <1>4 DEF FaultInv

LEMMA EnterKeeps == \A t \in Thread, g \in Guard : FaultInv /\ Enter(t, g) => FaultInv'
<1> SUFFICES ASSUME NEW t \in Thread, NEW g \in Guard, FaultInv, Enter(t, g)
             PROVE  FaultInv'
  OBVIOUS
<1> USE DEF FaultInv, Enter, flags, counts, symbols, outcome
<1>1. TypeOK'
  BY DEF TypeOK
<1>2. VehOnce' /\ FilterOnce' /\ ForeignOnce'
  BY DEF VehOnce, FilterOnce, ForeignOnce
<1>3. FilterGuards' /\ FlagExplained' /\ FaultsContained' /\ SymbolsOwned'
  BY DEF FilterGuards, FilterPlace, FlagExplained, FaultsContained, SymbolsOwned,
         Alive, TypeOK
<1>4. HandledExplained'
  BY DEF HandledExplained, DisabledIsExplained, TypeOK
<1> QED
  BY <1>1, <1>2, <1>3, <1>4

LEMMA RaiseKeeps ==
    ASSUME NEW t \in Thread, NEW e \in Exception, FaultInv, Raise(t, e)
    PROVE  FaultInv'
<1> USE DEF FaultInv, Raise, Moves, flags, counts, symbols, outcome
<1>1. TypeOK'
  <2>1. raised' \in 0 .. MaxFaults
    BY FaultConstants DEF TypeOK, FaultAssumption
  <2>2. broken' \subseteq Thread
    BY DEF TypeOK
  <2>3. held' \in [Lock -> Owner]
    BY DEF TypeOK, LocksAround, Lock, Owner
  <2>4. at' \in [Thread -> Place] /\ exc' \in [Thread -> Exception]
    BY DEF TypeOK, Place
  <2> QED
    BY <2>1, <2>2, <2>3, <2>4 DEF TypeOK
<1>2. VehOnce' /\ FilterOnce' /\ ForeignOnce'
  BY DEF VehOnce, FilterOnce, ForeignOnce, TypeOK, Reporting
<1>3. FilterGuards' /\ FlagExplained'
  BY DEF FilterGuards, FlagExplained, FilterPlace, TypeOK
<1>4. FaultsContained' /\ SymbolsOwned'
  BY DEF FaultsContained, SymbolsOwned, TypeOK, Alive
<1>5. HandledExplained'
  BY DEF HandledExplained, DisabledIsExplained, TypeOK
<1> QED
  BY <1>1, <1>2, <1>3, <1>4, <1>5

LEMMA LeaveKeeps ==
    ASSUME NEW t \in Thread, FaultInv, Leave(t)
    PROVE  FaultInv'
<1> USE DEF FaultInv, Leave, flags, counts, symbols, outcome
<1>1. TypeOK'
  BY FaultConstants DEF TypeOK
<1>2. VehOnce' /\ FilterOnce' /\ ForeignOnce'
  BY FaultConstants DEF VehOnce, FilterOnce, ForeignOnce, TypeOK, FaultAssumption
<1>3. FilterGuards' /\ FlagExplained' /\ FaultsContained'
  BY FaultConstants DEF FilterGuards, FlagExplained, FilterPlace, FaultsContained,
     TypeOK, Alive, Guard, FaultAssumption
<1>4. SymbolsOwned' /\ HandledExplained'
  BY FaultConstants DEF SymbolsOwned, HandledExplained, DisabledIsExplained,
     TypeOK, FaultAssumption, Alive
<1> QED
  BY <1>1, <1>2, <1>3, <1>4

LEMMA VehDeclinesKeeps ==
    ASSUME NEW t \in Thread, FaultInv, VehDeclines(t)
    PROVE  FaultInv'
<1> USE DEF FaultInv, VehDeclines, Moves, flags, counts, symbols, outcome
<1>1. TypeOK'
  BY FaultConstants DEF TypeOK, Place, Reporting
<1>2. VehOnce' /\ FilterOnce' /\ ForeignOnce'
  BY FaultConstants DEF VehOnce, FilterOnce, ForeignOnce, TypeOK, FaultAssumption
<1>3. FilterGuards' /\ FlagExplained' /\ FaultsContained'
  BY FaultConstants DEF FilterGuards, FlagExplained, FilterPlace, FaultsContained,
     TypeOK, Alive, Guard, FaultAssumption
<1>4. SymbolsOwned' /\ HandledExplained'
  BY FaultConstants DEF SymbolsOwned, HandledExplained, DisabledIsExplained,
     TypeOK, FaultAssumption, Alive
<1> QED
  BY <1>1, <1>2, <1>3, <1>4

LEMMA VehReportsOursKeeps ==
    ASSUME NEW t \in Thread, FaultInv, VehReportsOurs(t)
    PROVE  FaultInv'
<1> USE DEF FaultInv, VehReportsOurs, Declines, Moves, Open, flags, counts, symbols, outcome
<1>1. TypeOK'
  BY FaultConstants DEF TypeOK, Place, Reporting
<1>2. VehOnce' /\ FilterOnce' /\ ForeignOnce'
  BY FaultConstants DEF VehOnce, FilterOnce, ForeignOnce, TypeOK, FaultAssumption
<1>3. FilterGuards' /\ FlagExplained' /\ FaultsContained'
  BY FaultConstants DEF FilterGuards, FlagExplained, FilterPlace, FaultsContained,
     TypeOK, Alive, Guard, FaultAssumption
<1>4. SymbolsOwned' /\ HandledExplained'
  BY FaultConstants DEF SymbolsOwned, HandledExplained, DisabledIsExplained,
     TypeOK, FaultAssumption, Alive
<1> QED
  BY <1>1, <1>2, <1>3, <1>4

LEMMA VehCountsForeignKeeps ==
    ASSUME NEW t \in Thread, FaultInv, VehCountsForeign(t)
    PROVE  FaultInv'
<1> USE DEF FaultInv, VehCountsForeign, Declines, Moves, Open, flags, counts, symbols, outcome
<1>1. TypeOK'
  <2>1. foreign' \in Nat /\ foreignLogs' \in Nat
    BY DEF TypeOK
  <2>2. frames' \in [Thread -> [veh : Nat, filter : Nat]]
    BY DEF TypeOK
  <2>3. at' \in [Thread -> Place] /\ inVeh' \subseteq Thread
    BY DEF TypeOK, Place, Reporting
  <2> QED
    BY <2>1, <2>2, <2>3 DEF TypeOK
<1>2. VehOnce' /\ FilterOnce' /\ ForeignOnce'
  BY FaultConstants DEF VehOnce, FilterOnce, ForeignOnce, TypeOK, FaultAssumption
<1>3. FilterGuards' /\ FlagExplained' /\ FaultsContained'
  BY FaultConstants DEF FilterGuards, FlagExplained, FilterPlace, FaultsContained,
     TypeOK, Alive, Guard, FaultAssumption
<1>4. SymbolsOwned' /\ HandledExplained'
  BY FaultConstants DEF SymbolsOwned, HandledExplained, DisabledIsExplained,
     TypeOK, FaultAssumption, Alive
<1> QED
  BY <1>1, <1>2, <1>3, <1>4

LEMMA VehReturnsKeeps ==
    ASSUME NEW t \in Thread, FaultInv, VehReturns(t)
    PROVE  FaultInv'
<1> USE DEF FaultInv, VehReturns, Moves, flags, counts, symbols, outcome
<1>1. TypeOK'
  <2>1. frames[t].veh = 1
    BY DEF VehOnce
  <2>2. frames' \in [Thread -> [veh : Nat, filter : Nat]]
    BY <2>1 DEF TypeOK
  <2> QED
    BY <2>2 DEF TypeOK, Place
<1>2. VehOnce' /\ FilterOnce' /\ ForeignOnce'
  BY FaultConstants DEF VehOnce, FilterOnce, ForeignOnce, TypeOK, FaultAssumption
<1>3. FilterGuards' /\ FlagExplained' /\ FaultsContained'
  BY FaultConstants DEF FilterGuards, FlagExplained, FilterPlace, FaultsContained,
     TypeOK, Alive, Guard, FaultAssumption
<1>4. SymbolsOwned' /\ HandledExplained'
  BY FaultConstants DEF SymbolsOwned, HandledExplained, DisabledIsExplained,
     TypeOK, FaultAssumption, Alive
<1> QED
  BY <1>1, <1>2, <1>3, <1>4

LEMMA FilterBeginsKeeps ==
    ASSUME NEW t \in Thread, FaultInv, FilterBegins(t)
    PROVE  FaultInv'
<1> USE DEF FaultInv, FilterBegins, FilterTakes, Moves, Open, flags, counts, symbols, outcome
<1>1. TypeOK'
  BY FaultConstants DEF TypeOK, Place, Reporting
<1>2. VehOnce' /\ FilterOnce' /\ ForeignOnce'
  BY FaultConstants DEF VehOnce, FilterOnce, ForeignOnce, TypeOK, FaultAssumption
<1>3. FilterGuards' /\ FlagExplained' /\ FaultsContained'
  BY FaultConstants DEF FilterGuards, FlagExplained, FilterPlace, FaultsContained,
     TypeOK, Alive, Guard, FaultAssumption
<1>4. SymbolsOwned' /\ HandledExplained'
  BY FaultConstants DEF SymbolsOwned, HandledExplained, DisabledIsExplained,
     TypeOK, FaultAssumption, Alive
<1> QED
  BY <1>1, <1>2, <1>3, <1>4

LEMMA WriteHeaderKeeps ==
    ASSUME NEW t \in Thread, FaultInv, WriteHeader(t)
    PROVE  FaultInv'
<1> USE DEF FaultInv, WriteHeader, Moves, flags, counts, symbols, outcome
<1>1. TypeOK'
  BY FaultConstants DEF TypeOK, Place, Reporting
<1>2. VehOnce' /\ FilterOnce' /\ ForeignOnce'
  BY FaultConstants DEF VehOnce, FilterOnce, ForeignOnce, TypeOK, FaultAssumption
<1>3. FilterGuards' /\ FlagExplained' /\ FaultsContained'
  BY FaultConstants DEF FilterGuards, FlagExplained, FilterPlace, FaultsContained,
     TypeOK, Alive, Guard, FaultAssumption
<1>4. SymbolsOwned' /\ HandledExplained'
  BY FaultConstants DEF SymbolsOwned, HandledExplained, DisabledIsExplained,
     TypeOK, FaultAssumption, Alive
<1> QED
  BY <1>1, <1>2, <1>3, <1>4

LEMMA BeginSymInitKeeps ==
    ASSUME NEW t \in Thread, FaultInv, BeginSymInit(t)
    PROVE  FaultInv'
<1> USE DEF FaultInv, BeginSymInit, Moves, flags, counts, symbols, outcome
<1>1. TypeOK'
  BY FaultConstants DEF TypeOK, Place, Reporting
<1>2. VehOnce' /\ FilterOnce' /\ ForeignOnce'
  BY FaultConstants DEF VehOnce, FilterOnce, ForeignOnce, TypeOK, FaultAssumption
<1>3. FilterGuards' /\ FlagExplained' /\ FaultsContained'
  BY FaultConstants DEF FilterGuards, FlagExplained, FilterPlace, FaultsContained,
     TypeOK, Alive, Guard, FaultAssumption
<1>4. SymbolsOwned' /\ HandledExplained'
  BY FaultConstants DEF SymbolsOwned, HandledExplained, DisabledIsExplained,
     TypeOK, FaultAssumption, Alive
<1> QED
  BY <1>1, <1>2, <1>3, <1>4

LEMMA EndSymInitKeeps ==
    ASSUME NEW t \in Thread, FaultInv, EndSymInit(t)
    PROVE  FaultInv'
<1> USE DEF FaultInv, EndSymInit, Moves, flags, counts, symbols, outcome
<1>1. TypeOK'
  BY FaultConstants DEF TypeOK, Place, Reporting
<1>2. VehOnce' /\ FilterOnce' /\ ForeignOnce'
  BY FaultConstants DEF VehOnce, FilterOnce, ForeignOnce, TypeOK, FaultAssumption
<1>3. FilterGuards' /\ FlagExplained' /\ FaultsContained'
  BY FaultConstants DEF FilterGuards, FlagExplained, FilterPlace, FaultsContained,
     TypeOK, Alive, Guard, FaultAssumption
<1>4. SymbolsOwned' /\ HandledExplained'
  BY FaultConstants DEF SymbolsOwned, HandledExplained, DisabledIsExplained,
     TypeOK, FaultAssumption, Alive
<1> QED
  BY <1>1, <1>2, <1>3, <1>4

LEMMA LookupSymbolsKeeps ==
    ASSUME NEW t \in Thread, FaultInv, LookupSymbols(t)
    PROVE  FaultInv'
<1> USE DEF FaultInv, LookupSymbols, TryLock, Moves, flags, counts, symbols, outcome
<1>1. TypeOK'
  BY FaultConstants DEF TypeOK, Place, Reporting, Owner
<1>2. VehOnce' /\ FilterOnce' /\ ForeignOnce'
  BY FaultConstants DEF VehOnce, FilterOnce, ForeignOnce, TypeOK, FaultAssumption
<1>3. FilterGuards' /\ FlagExplained' /\ FaultsContained'
  BY FaultConstants DEF FilterGuards, FlagExplained, FilterPlace, FaultsContained,
     TypeOK, Alive, Guard, FaultAssumption
<1>4. SymbolsOwned' /\ HandledExplained'
  BY FaultConstants DEF SymbolsOwned, HandledExplained, DisabledIsExplained,
     TypeOK, FaultAssumption, Alive
<1> QED
  BY <1>1, <1>2, <1>3, <1>4

LEMMA EndLookupKeeps ==
    ASSUME NEW t \in Thread, FaultInv, EndLookup(t)
    PROVE  FaultInv'
<1> USE DEF FaultInv, EndLookup, Moves, flags, counts, symbols, outcome
<1>1. TypeOK'
  BY FaultConstants DEF TypeOK, Place, Reporting, Owner
<1>2. VehOnce' /\ FilterOnce' /\ ForeignOnce'
  BY FaultConstants DEF VehOnce, FilterOnce, ForeignOnce, TypeOK, FaultAssumption
<1>3. FilterGuards' /\ FlagExplained' /\ FaultsContained'
  BY FaultConstants DEF FilterGuards, FlagExplained, FilterPlace, FaultsContained,
     TypeOK, Alive, Guard, FaultAssumption
<1>4. SymbolsOwned' /\ HandledExplained'
  BY FaultConstants DEF SymbolsOwned, HandledExplained, DisabledIsExplained,
     TypeOK, FaultAssumption, Alive
<1> QED
  BY <1>1, <1>2, <1>3, <1>4

LEMMA WriteTraceKeeps ==
    ASSUME NEW t \in Thread, FaultInv, WriteTrace(t)
    PROVE  FaultInv'
<1> USE DEF FaultInv, WriteTrace, Moves, flags, counts, symbols, outcome
<1>1. TypeOK'
  BY FaultConstants DEF TypeOK, Place, Reporting
<1>2. VehOnce' /\ FilterOnce' /\ ForeignOnce'
  BY FaultConstants DEF VehOnce, FilterOnce, ForeignOnce, TypeOK, FaultAssumption
<1>3. FilterGuards' /\ FlagExplained' /\ FaultsContained'
  BY FaultConstants DEF FilterGuards, FlagExplained, FilterPlace, FaultsContained,
     TypeOK, Alive, Guard, FaultAssumption
<1>4. SymbolsOwned' /\ HandledExplained'
  BY FaultConstants DEF SymbolsOwned, HandledExplained, DisabledIsExplained,
     TypeOK, FaultAssumption, Alive
<1> QED
  BY <1>1, <1>2, <1>3, <1>4

LEMMA EndDumpKeeps ==
    ASSUME NEW t \in Thread, FaultInv, EndDump(t)
    PROVE  FaultInv'
<1> USE DEF FaultInv, EndDump, FilterReturns, Moves, flags, counts, symbols, outcome
<1>1. TypeOK'
  <2>1. explained' \subseteq Guard
    BY DEF FilterGuards, FilterPlace, TypeOK
  <2> QED
    BY <2>1 DEF TypeOK, Place
<1>2. VehOnce' /\ FilterOnce' /\ ForeignOnce'
  BY FaultConstants DEF VehOnce, FilterOnce, ForeignOnce, TypeOK, FaultAssumption
<1>3. FilterGuards' /\ FlagExplained' /\ FaultsContained'
  BY FaultConstants DEF FilterGuards, FlagExplained, FilterPlace, FaultsContained,
     TypeOK, Alive, Guard, FaultAssumption
<1>4. SymbolsOwned' /\ HandledExplained'
  BY FaultConstants DEF SymbolsOwned, HandledExplained, DisabledIsExplained,
     TypeOK, FaultAssumption, Alive
<1> QED
  BY <1>1, <1>2, <1>3, <1>4

LEMMA HangKeeps ==
    ASSUME NEW t \in Thread, FaultInv, Hang(t)
    PROVE  FaultInv'
<1> USE DEF FaultInv, Hang, flags, counts, symbols, outcome
<1>1. TypeOK'
  BY FaultConstants DEF TypeOK
<1>2. VehOnce' /\ FilterOnce' /\ ForeignOnce'
  BY FaultConstants DEF VehOnce, FilterOnce, ForeignOnce, TypeOK, FaultAssumption
<1>3. FilterGuards' /\ FlagExplained' /\ FaultsContained'
  BY FaultConstants DEF FilterGuards, FlagExplained, FilterPlace, FaultsContained,
     TypeOK, Alive, Guard, FaultAssumption
<1>4. SymbolsOwned' /\ HandledExplained'
  BY FaultConstants DEF SymbolsOwned, HandledExplained, DisabledIsExplained,
     TypeOK, FaultAssumption, Alive
<1> QED
  BY <1>1, <1>2, <1>3, <1>4

LEMMA DiesKeeps ==
    ASSUME NEW t \in Thread, FaultInv, Dies(t)
    PROVE  FaultInv'
<1> USE DEF FaultInv, Dies, FilterTakes, flags, counts, symbols, outcome
<1>1. TypeOK'
  BY FaultConstants DEF TypeOK
<1>2. VehOnce' /\ FilterOnce' /\ ForeignOnce'
  BY FaultConstants DEF VehOnce, FilterOnce, ForeignOnce, TypeOK, FaultAssumption
<1>3. FilterGuards' /\ FlagExplained' /\ FaultsContained'
  BY FaultConstants DEF FilterGuards, FlagExplained, FilterPlace, FaultsContained,
     TypeOK, Alive, Guard, FaultAssumption
<1>4. SymbolsOwned' /\ HandledExplained'
  BY FaultConstants DEF SymbolsOwned, HandledExplained, DisabledIsExplained,
     TypeOK, FaultAssumption, Alive
<1> QED
  BY <1>1, <1>2, <1>3, <1>4

LEMMA ExecuteHandlerKeeps ==
    ASSUME NEW t \in Thread, NEW clean \in BOOLEAN, FaultInv, ExecuteHandler(t, clean)
    PROVE  FaultInv'
<1> USE DEF FaultInv, ExecuteHandler, Unwind, Moves, flags, counts, symbols, outcome
<1>1. TypeOK'
  BY FaultConstants DEF TypeOK, Place, Reporting, Guard, Exception, Owner
<1>2. VehOnce' /\ FilterOnce' /\ ForeignOnce'
  BY FaultConstants DEF VehOnce, FilterOnce, ForeignOnce, TypeOK, FaultAssumption
<1>3. FilterGuards' /\ FlagExplained' /\ FaultsContained'
  BY FaultConstants DEF FilterGuards, FlagExplained, FilterPlace, FaultsContained,
     TypeOK, Alive, Guard, FaultAssumption
<1>4. SymbolsOwned' /\ HandledExplained'
  BY FaultConstants DEF SymbolsOwned, HandledExplained, DisabledIsExplained,
     TypeOK, FaultAssumption, Alive
<1> QED
  BY <1>1, <1>2, <1>3, <1>4

LEMMA SwallowedKeeps ==
    ASSUME NEW t \in Thread, NEW clean \in BOOLEAN, FaultInv, Swallowed(t, clean)
    PROVE  FaultInv'
<1> USE DEF FaultInv, Swallowed, Unwind, Moves, flags, counts, symbols, outcome
<1>1. TypeOK'
  BY FaultConstants DEF TypeOK, Place, Reporting, Guard, Exception, Owner
<1>2. VehOnce' /\ FilterOnce' /\ ForeignOnce'
  BY FaultConstants DEF VehOnce, FilterOnce, ForeignOnce, TypeOK, FaultAssumption
<1>3. FilterGuards' /\ FlagExplained' /\ FaultsContained'
  BY FaultConstants DEF FilterGuards, FlagExplained, FilterPlace, FaultsContained,
     TypeOK, Alive, Guard, FaultAssumption
<1>4. SymbolsOwned' /\ HandledExplained'
  BY FaultConstants DEF SymbolsOwned, HandledExplained, DisabledIsExplained,
     TypeOK, FaultAssumption, Alive
<1> QED
  BY <1>1, <1>2, <1>3, <1>4

LEMMA FaultInvStep == FaultInv /\ [Next]_vars => FaultInv'
<1> SUFFICES ASSUME FaultInv, [Next]_vars PROVE FaultInv'
  OBVIOUS
<1>1. CASE UNCHANGED vars
  <2> USE <1>1 DEF vars, flags, counts, symbols, outcome
  <2>1. TypeOK'
    BY DEF FaultInv, TypeOK
  <2>2. VehOnce' /\ FilterOnce' /\ ForeignOnce' /\ FilterGuards'
    BY DEF FaultInv, VehOnce, FilterOnce, ForeignOnce, FilterGuards
  <2>3. FlagExplained' /\ FaultsContained' /\ SymbolsOwned' /\ HandledExplained'
    BY DEF FaultInv, FlagExplained, FaultsContained, SymbolsOwned,
           HandledExplained, DisabledIsExplained, Alive
  <2> QED
    BY <2>1, <2>2, <2>3 DEF FaultInv
<1>2. CASE Next
  <2>1. ASSUME NEW t \in Thread, NEW g \in Guard, Enter(t, g) PROVE FaultInv'
    BY <2>1, EnterKeeps
  <2>2. ASSUME NEW t \in Thread, NEW e \in Exception, Raise(t, e) PROVE FaultInv'
    BY <2>2, RaiseKeeps
  <2>3. ASSUME NEW t \in Thread, Leave(t) \/ Hang(t) PROVE FaultInv'
    BY <2>3, LeaveKeeps, HangKeeps
  <2>4. ASSUME NEW t \in Thread, Handle(t) PROVE FaultInv'
    <3>1. CASE \/ VehDeclines(t) \/ VehReportsOurs(t) \/ VehCountsForeign(t)
               \/ VehReturns(t) \/ FilterBegins(t) \/ WriteHeader(t)
      BY <3>1, VehDeclinesKeeps, VehReportsOursKeeps, VehCountsForeignKeeps,
         VehReturnsKeeps, FilterBeginsKeeps, WriteHeaderKeeps
    <3>2. CASE \/ BeginSymInit(t) \/ EndSymInit(t) \/ LookupSymbols(t)
               \/ EndLookup(t) \/ WriteTrace(t) \/ EndDump(t) \/ Dies(t)
      BY <3>2, BeginSymInitKeeps, EndSymInitKeeps, LookupSymbolsKeeps,
         EndLookupKeeps, WriteTraceKeeps, EndDumpKeeps, DiesKeeps
    <3>3. ASSUME NEW clean \in BOOLEAN, ExecuteHandler(t, clean) PROVE FaultInv'
      BY <3>3, ExecuteHandlerKeeps
    <3>4. ASSUME NEW clean \in BOOLEAN, Swallowed(t, clean) PROVE FaultInv'
      BY <3>4, SwallowedKeeps
    <3> QED
      BY <2>4, <3>1, <3>2, <3>3, <3>4 DEF Handle
  <2> QED
    BY <1>2, <2>1, <2>2, <2>3, <2>4 DEF Next
<1> QED
  BY <1>1, <1>2

LEMMA FaultInvariant == Spec => []FaultInv
BY FaultInvInit, FaultInvStep, PTL DEF Spec

\* The state of every thread, lock and flag keeps its type.
THEOREM FaultTypeCorrect == Spec => []TypeOK
<1>1. FaultInv => TypeOK
  BY DEF FaultInv
<1> QED
  BY <1>1, FaultInvariant, PTL

\* However faults nest, on any number of threads, reports do not.
THEOREM ReportsAreBounded == Spec => []ReportsBounded
<1>1. FaultInv => ReportsBounded
  BY DEF FaultInv, VehOnce, FilterOnce, ForeignOnce, ReportsBounded
<1> QED
  BY <1>1, FaultInvariant, PTL

\* No number of faults in callbacks or installs takes the game down, as long as
\* the reports of that thread do not fault.
THEOREM FaultsAreContained == Spec => []FaultsContained
<1>1. FaultInv => FaultsContained
  BY DEF FaultInv
<1> QED
  BY <1>1, FaultInvariant, PTL

\* Whichever threads fault, unwind or hang: one is in the symbol functions.
THEOREM SymbolCallsAreExclusive == Spec => []SymbolCallsExclude
<1>1. FaultInv => SymbolCallsExclude
  BY FaultConstants DEF FaultInv, SymbolsOwned, SymbolCallsExclude, FaultAssumption
<1> QED
  BY <1>1, FaultInvariant, PTL

\* Every callback that was switched off has had its report.
THEOREM DisabledCallbacksAreExplained == Spec => []DisabledIsExplained
<1>1. FaultInv => DisabledIsExplained
  BY DEF FaultInv, HandledExplained
<1> QED
  BY <1>1, FaultInvariant, PTL
=============================================================================
