------------------------ MODULE CrashJournal_proof ------------------------
(***************************************************************************)
(* The journal keeps up with the installation, a crash is reported as it   *)
(* was written down and an orderly unload is not reported, for any number  *)
(* of hooks and of sessions.                                               *)
(***************************************************************************)
EXTENDS CrashJournal, TLAPS

-----------------------------------------------------------------------------
(* The journal and the installation.                                       *)

\* The types the argument needs.
HistoryTypes ==
    /\ session \in Nat /\ next \in Nat
    /\ last \in [session : Nat,
                 end : {"none", "crash", "exit", "unload", "muddled"},
                 installed : SUBSET Nat, written : SUBSET Nat]

Behind == last.installed \ last.written

\* While the record of this session can grow, the journal is behind by the hook
\* being written down and by no other; a session that has not started its
\* record yet owns at most an empty one.
JournalInv ==
    /\ HistoryTypes
    /\ last.session <= session
    /\ last.written \subseteq last.installed
    /\ \A g, h \in Behind : g = h
    /\ init \in {"open", "read", "truncate"} /\ Owned => last.installed = {}
    /\ open /\ Owned =>
         /\ init = "installed" => next \in last.installed /\ Behind \subseteq {next}
         /\ init # "installed" => Behind = {}

LEMMA InitJournal == Init => JournalInv
    BY BoundsAssumption
    DEF Init, JournalInv, HistoryTypes, Behind, Fresh, Owned

LEMMA StepJournal == JournalInv /\ [Next]_vars => JournalInv'
<1> SUFFICES ASSUME JournalInv, [Next]_vars PROVE JournalInv'
    OBVIOUS
<1> USE DEF JournalInv, HistoryTypes, Behind, Owned, Running
<1>1. CASE OpenJournal
    BY <1>1 DEF OpenJournal
<1>2. CASE ReadPrevious
    BY <1>2 DEF ReadPrevious
<1>3. CASE Truncate
    BY <1>3 DEF Truncate, Fresh
<1>4. CASE WriteStart
    BY <1>4 DEF WriteStart, WriteText
<1>5. CASE WriteNewline
    <2>1. /\ init \in {"start_nl", "installed_nl", "complete_nl"}
          /\ init' \in {"install", "done"}
          /\ UNCHANGED <<open, next, session, last>>
        BY <1>5 DEF WriteNewline, AfterNewline
    <2> QED BY <2>1
<1>6. CASE Install
    <2>1. CASE next' = next + 1 /\ UNCHANGED <<init, last>>
        BY <1>6, <2>1 DEF Install
    <2>2. CASE /\ init' = "installed"
               /\ last' = IF open /\ Owned
                            THEN [last EXCEPT !.installed = @ \union {next}]
                            ELSE last
               /\ UNCHANGED next
        <3>1. CASE open /\ Owned
            <4>1. /\ last'.installed = last.installed \union {next}
                  /\ last'.written = last.written
                  /\ last'.session = last.session
                  /\ last' \in [session : Nat,
                       end : {"none", "crash", "exit", "unload", "muddled"},
                       installed : SUBSET Nat, written : SUBSET Nat]
                BY <2>2, <3>1
            <4>2. Behind = {}
                BY <1>6, <3>1 DEF Install
            <4> QED BY <1>6, <2>2, <3>1, <4>1, <4>2 DEF Install
        <3>2. CASE ~(open /\ Owned)
            BY <1>6, <2>2, <3>2 DEF Install
        <3> QED BY <3>1, <3>2
    <2>3. CASE init' = "done" /\ UNCHANGED <<next, last>>
        BY <1>6, <2>3 DEF Install
    <2> QED BY <1>6, <2>1, <2>2, <2>3 DEF Install
<1>7. CASE WriteInstalled
    <2>1. CASE open /\ Owned
        <3>1. /\ last'.installed = last.installed
              /\ last'.written = last.written \union {next}
              /\ last'.session = last.session
              /\ last' \in [session : Nat,
                   end : {"none", "crash", "exit", "unload", "muddled"},
                   installed : SUBSET Nat, written : SUBSET Nat]
            BY <1>7, <2>1 DEF WriteInstalled
        <3>2. /\ init = "installed" /\ init' = "installed_nl"
              /\ next' = next + 1 /\ UNCHANGED <<open, session>>
            BY <1>7 DEF WriteInstalled
        <3>3. next \in last.installed /\ Behind \subseteq {next}
            BY <2>1, <3>2
        <3> QED BY <2>1, <3>1, <3>2, <3>3
    <2>2. CASE ~(open /\ Owned)
        BY <1>7, <2>2 DEF WriteInstalled
    <2> QED BY <2>1, <2>2
<1>8. CASE InstallDone
    BY <1>8 DEF InstallDone
<1>9. CASE WriteComplete
    BY <1>9 DEF WriteComplete
<1>10. CASE UnloadStep \/ Crash \/ ExitProcess \/ EndUnloaded
    <2>1. /\ last'.installed = last.installed /\ last'.written = last.written
          /\ last'.session = last.session
          /\ last' \in [session : Nat,
               end : {"none", "crash", "exit", "unload", "muddled"},
               installed : SUBSET Nat, written : SUBSET Nat]
        BY <1>10 DEF UnloadStep, BeginUnload, WriteClean, CloseJournal, Crash,
            ExitProcess, EndUnloaded, Dies
    <2>2. UNCHANGED <<init, next, session>> /\ (open' => open)
        BY <1>10 DEF UnloadStep, BeginUnload, WriteClean, CloseJournal, Crash,
            ExitProcess, EndUnloaded, Dies
    <2> QED BY <2>1, <2>2
<1>11. CASE NewSession
    <2>1. /\ session' = session + 1 /\ ~open' /\ init' = "open" /\ next' = 1
          /\ last' = last
        BY <1>11 DEF NewSession
    <2> QED BY <2>1
<1>12. CASE UNCHANGED vars
    BY <1>12 DEF vars
<1> QED BY <1>1, <1>2, <1>3, <1>4, <1>5, <1>6, <1>7, <1>8, <1>9, <1>10,
          <1>11, <1>12 DEF Next, InitStep

\* The journal names only hooks that are installed, and lacks at most one of
\* them.
THEOREM JournalIsUpToDate == Spec => []JournalKeepsUp
<1>1. JournalInv => JournalKeepsUp
    BY DEF JournalInv, JournalKeepsUp, Behind
<1> QED BY InitJournal, StepJournal, <1>1, PTL DEF Spec

-----------------------------------------------------------------------------
(* Types.                                                                  *)

TypeInv ==
    /\ TypeOK
    /\ last \in [session : Nat,
                 end : {"none", "crash", "exit", "unload", "muddled"},
                 installed : SUBSET Hook, written : SUBSET Hook]
    /\ init = "installed" => next <= NumHooks

\* A text goes to the position of the handle, over what is there or behind it.
LEMMA TextWritten ==
    ASSUME TypeOK, NEW kind, NEW hook, [kind |-> kind, hook |-> hook] \in Text,
           WriteText(kind, hook)
    PROVE  /\ file' \in Seq(Text) /\ pos' \in 0 .. Len(file')
           /\ ~open => UNCHANGED <<file, pos>>
           /\ open /\ pos = Len(file) =>
                /\ file' = Append(file, [kind |-> kind, hook |-> hook])
                /\ pos' = Len(file')
<1> DEFINE text == [kind |-> kind, hook |-> hook]
<1>1. text \in Text /\ file \in Seq(Text) /\ pos \in 0 .. Len(file)
    BY DEF TypeOK
<1>2. /\ file' = CASE ~open -> file
                   [] open /\ pos < Len(file) -> [file EXCEPT ![pos + 1] = text]
                   [] open /\ pos = Len(file) -> Append(file, text)
      /\ pos' = IF open THEN pos + 1 ELSE pos
    BY DEF WriteText
<1> HIDE DEF text, Text
<1>3. CASE ~open
    BY <1>1, <1>2, <1>3
<1>4. CASE open /\ pos < Len(file)
    <2>1. file' = [file EXCEPT ![pos + 1] = text] /\ pos' = pos + 1
        BY <1>2, <1>4
    <2>2. file' \in Seq(Text) /\ Len(file') = Len(file)
        BY <1>1, <1>4, <2>1
    <2>3. Len(file) \in Nat /\ pos + 1 \in 0 .. Len(file)
        BY <1>1, <1>4
    <2>4. pos # Len(file)
        BY <1>4, <2>3
    <2> QED BY <1>4, <2>1, <2>2, <2>3, <2>4
<1>5. CASE open /\ pos = Len(file)
    <2>1. file' = Append(file, text) /\ pos' = pos + 1
        BY <1>1, <1>2, <1>5
    <2>2. file' \in Seq(Text) /\ Len(file') = Len(file) + 1
        BY <1>1, <2>1
    <2> QED BY <1>1, <1>5, <2>1, <2>2 DEF text
<1>6. pos < Len(file) \/ pos = Len(file)
    BY <1>1
<1> QED BY <1>3, <1>4, <1>5, <1>6

\* What the code writes is a text.
LEMMA TextsAreTexts ==
    /\ \A kind \in {"session_start", "init_complete", "session_clean", "newline"} :
         [kind |-> kind, hook |-> Nobody] \in Text
    /\ \A h \in Hook : [kind |-> "hook_installed", hook |-> h] \in Text
BY DEF Text, Nobody

\* The initial states are well typed.
LEMMA InitTypes == Init => TypeInv
<1> SUFFICES ASSUME Init PROVE TypeInv
    OBVIOUS
<1>1. file \in Seq(Text) /\ Len(file) = 0
    <2> HIDE DEF Text
    <2> QED BY DEF Init
<1>2. {open, alive} \subseteq BOOLEAN
    BY DEF Init
<1>3. /\ next \in 1 .. NumHooks + 1 /\ session \in 1 .. MaxSessions
      /\ last.session \in 1 .. session
    BY BoundsAssumption DEF Init, Fresh
<1>4. last \in [session : Nat,
                end : {"none", "crash", "exit", "unload", "muddled"},
                installed : SUBSET Hook, written : SUBSET Hook]
    BY DEF Init, Fresh
<1>5. TypeOK
    <2> HIDE DEF Text
    <2> QED BY <1>1, <1>2, <1>3, <1>4 DEF Init, TypeOK, InitPC
<1> QED BY <1>4, <1>5 DEF Init, TypeInv

\* Each step keeps the types.
LEMMA StepTypes == TypeInv /\ [Next]_vars => TypeInv'
<1> SUFFICES ASSUME TypeInv, [Next]_vars PROVE TypeInv'
    OBVIOUS
<1> USE BoundsAssumption DEF TypeInv, Running
<1>0. /\ NumHooks \in Nat /\ next \in 1 .. NumHooks + 1
      /\ session \in 1 .. MaxSessions /\ last.session \in 1 .. session
    BY DEF TypeOK
<1>1. CASE OpenJournal
    BY <1>1 DEF OpenJournal, TypeOK, InitPC
<1>2. CASE ReadPrevious
    <2>1. Previous.active \subseteq Hook \union {Nobody}
        <3>1. \A k \in DOMAIN file : file[k].hook \in Hook \union {Nobody}
            <4>1. \A t \in Text : t.hook \in Hook \union {Nobody}
                BY DEF Text
            <4>2. \A k \in DOMAIN file : file[k] \in Text
                <5> HIDE DEF Text
                <5> QED BY DEF TypeOK
            <4> QED BY <4>1, <4>2
        <3> QED BY <3>1 DEF Previous, Lines, NameAt
    <2>2. warned' \subseteq Hook \union {Nobody}
        BY <1>2, <2>1 DEF ReadPrevious
    <2> QED BY <1>2, <2>2 DEF ReadPrevious, TypeOK, InitPC
<1>3. CASE Truncate
    BY <1>3 DEF Truncate, TypeOK, InitPC, Fresh
<1>4. CASE WriteStart
    <2>1. file' \in Seq(Text) /\ pos' \in 0 .. Len(file')
        BY <1>4, TextWritten, TextsAreTexts DEF WriteStart
    <2> QED BY <1>4, <2>1 DEF WriteStart, TypeOK, InitPC
<1>5. CASE WriteNewline
    <2>1. file' \in Seq(Text) /\ pos' \in 0 .. Len(file')
        BY <1>5, TextWritten, TextsAreTexts DEF WriteNewline
    <2>2. init' \in {"install", "done"}
        BY <1>5 DEF WriteNewline, AfterNewline
    <2> QED BY <1>5, <2>1, <2>2 DEF WriteNewline, TypeOK, InitPC
<1>6. CASE Install
    <2>1. next \in Hook
        BY <1>0, <1>6 DEF Install, Hook
    <2>2. last' = last \/ last' = [last EXCEPT !.installed = @ \union {next}]
        BY <1>6 DEF Install
    <2>3. /\ last' \in [session : Nat,
                 end : {"none", "crash", "exit", "unload", "muddled"},
                 installed : SUBSET Hook, written : SUBSET Hook]
          /\ last'.session = last.session
        BY <2>1, <2>2
    <2> QED BY <1>0, <1>6, <2>3 DEF Install, TypeOK, InitPC
<1>7. CASE WriteInstalled
    <2>1. next \in Hook
        BY <1>0, <1>7 DEF WriteInstalled, Hook
    <2>2. file' \in Seq(Text) /\ pos' \in 0 .. Len(file')
        BY <1>7, <2>1, TextWritten, TextsAreTexts DEF WriteInstalled
    <2>3. last' = last \/ last' = [last EXCEPT !.written = @ \union {next}]
        BY <1>7 DEF WriteInstalled
    <2>4. /\ last' \in [session : Nat,
                 end : {"none", "crash", "exit", "unload", "muddled"},
                 installed : SUBSET Hook, written : SUBSET Hook]
          /\ last'.session = last.session
        BY <2>1, <2>3
    <2>5. next' \in 1 .. NumHooks + 1 /\ init' = "installed_nl"
        BY <1>0, <1>7 DEF WriteInstalled
    <2>6. last'.session \in 1 .. session /\ last'.installed \subseteq Hook
          /\ last'.written \subseteq Hook
          /\ last'.end \in {"none", "crash", "exit", "unload", "muddled"}
        BY <1>0, <2>4
    <2>7. UNCHANGED <<open, loader, alive, session, warned>>
        BY <1>7 DEF WriteInstalled
    <2>8. TypeOK'
        <3> HIDE DEF Text
        <3> QED BY <2>2, <2>5, <2>6, <2>7 DEF TypeOK, InitPC
    <2> QED BY <2>4, <2>5, <2>8
<1>8. CASE InstallDone
    BY <1>8 DEF InstallDone, TypeOK, InitPC
<1>9. CASE WriteComplete
    <2>1. file' \in Seq(Text) /\ pos' \in 0 .. Len(file')
        BY <1>9, TextWritten, TextsAreTexts DEF WriteComplete
    <2> QED BY <1>9, <2>1 DEF WriteComplete, TypeOK, InitPC
<1>10. CASE BeginUnload
    BY <1>10 DEF BeginUnload, TypeOK
<1>11. CASE WriteClean
    <2>1. file' \in Seq(Text) /\ pos' \in 0 .. Len(file')
        BY <1>11, TextWritten, TextsAreTexts DEF WriteClean
    <2> QED BY <1>11, <2>1 DEF WriteClean, TypeOK
<1>12. CASE CloseJournal
    BY <1>12 DEF CloseJournal, TypeOK
<1>13. CASE Crash \/ ExitProcess \/ EndUnloaded
    BY <1>13 DEF Crash, ExitProcess, EndUnloaded, Dies, TypeOK
<1>14. CASE NewSession
    <2>1. session' \in 1 .. MaxSessions /\ last'.session \in 1 .. session'
        BY <1>0, <1>14 DEF NewSession
    <2>2. {open', alive'} \subseteq BOOLEAN
        BY <1>14 DEF NewSession
    <2>3. next' \in 1 .. NumHooks + 1
        BY <1>0, <1>14 DEF NewSession
    <2>4. TypeOK'
        <3> HIDE DEF Text
        <3> QED BY <1>14, <2>1, <2>2, <2>3 DEF NewSession, TypeOK, InitPC
    <2> QED BY <1>14, <2>4 DEF NewSession
<1>15. CASE UNCHANGED vars
    BY <1>15 DEF vars, TypeOK
<1> QED BY <1>1, <1>2, <1>3, <1>4, <1>5, <1>6, <1>7, <1>8, <1>9, <1>10,
          <1>11, <1>12, <1>13, <1>14, <1>15 DEF Next, InitStep, UnloadStep

\* Every reachable state is well typed: the handle never points past the end of
\* the file, and nobody but a hook is ever reported by name.
THEOREM JournalTypeCorrect == Spec => []TypeOK
<1>1. TypeInv => TypeOK
    BY DEF TypeInv
<1> QED BY InitTypes, StepTypes, <1>1, PTL DEF Spec

-----------------------------------------------------------------------------
(* What the next session reads.                                            *)

\* The record of a session that was not unloaded: one that starts the file, has
\* every text on a line of its own, and names the hooks.
RecordOf(f, hooks) ==
    /\ \A k \in DOMAIN f : f[k].kind # "session_clean"
    /\ \A k \in DOMAIN f : f[k].kind = "session_start" <=> k = 1
    /\ \A k \in 1 .. Len(f) - 1 : f[k] # NewLine => f[k + 1] = NewLine
    /\ hooks = {f[k].hook : k \in {j \in DOMAIN f : f[j].kind = "hook_installed"}}

Complete(f) == f # <<>> /\ f[Len(f)] = NewLine

Before == {"open", "read", "truncate"}
Ending == {"start_nl", "installed_nl", "complete_nl"}

\* The writer is at the end of its record, which has been started, and whose last
\* line is complete unless its newline is still to be written.
AtEnd ==
    /\ pos = Len(file)
    /\ init = "start" => file = <<>>
    /\ init # "start" => file # <<>>
    /\ init \notin Ending \union {"start"} => Complete(file)

\* Whoever writes texts of the init thread owns the record; an ended session
\* has said how it ended.
OwnerInv ==
    /\ open /\ init \notin Before => Owned
    /\ ~Owned \/ ~alive => last.end # "none"
    /\ alive /\ Owned => last.end \in {"none", "unload"}
    /\ alive /\ Owned /\ loader = "running" => last.end = "none"

WritingInv ==
    alive /\ Owned /\ loader = "running" =>
        /\ RecordOf(file, last.written)
        /\ ~open \/ init \in Before => file = <<>>
        /\ open /\ init \notin Before => AtEnd

CrashInv == last.end = "crash" => RecordOf(file, last.written)

Closed == file = <<>> \/ Lines("session_clean") # {}

\* An orderly unload appends its line, before it lets go of the record.
UnloadInv ==
    last.end = "unload" =>
        /\ Owned => init = "done" /\ (~alive => loader = "unloaded")
        /\ open /\ Owned /\ loader \in {"clean", "clean_nl"} =>
             pos = Len(file) /\ file # <<>>
        /\ open /\ Owned /\ loader = "clean" => Complete(file)
        /\ ~open /\ Owned => file = <<>> \/ loader = "unloaded"
        /\ ~Owned \/ loader # "clean" \/ ~open => Closed

ReadInv == CrashIsReported /\ UnloadIsQuiet

ReportInv ==
    TypeInv /\ OwnerInv /\ WritingInv /\ CrashInv /\ UnloadInv /\ ReadInv

\* A record that is read is not clean, and its hooks are reported.
LEMMA RecordIsRead ==
    ASSUME NEW hooks, file \in Seq(Text), RecordOf(file, hooks)
    PROVE  (IF Previous.clean THEN {} ELSE Previous.active) = hooks
<1>1. CASE file = <<>>
    <2>1. DOMAIN file = {}
        BY <1>1
    <2>2. hooks = {}
        BY <2>1 DEF RecordOf
    <2> QED BY <1>1, <2>2 DEF Previous
<1>2. CASE file # <<>>
    <2>1. Len(file) \in Nat \ {0} /\ DOMAIN file = 1 .. Len(file)
        <3> HIDE DEF Text
        <3> QED BY <1>2
    <2>2. Lines("session_clean") = {}
        BY DEF RecordOf, Lines, BeginsWith
    <2>3. ASSUME NEW k \in DOMAIN file, file[k].kind = "hook_installed"
          PROVE  k \in Lines("hook_installed") /\ NameAt(k) = file[k].hook
        <3>1. file[k] # NewLine
            BY <2>3 DEF NewLine
        <3>2. k # 1
            BY <2>1, <2>3 DEF RecordOf
        <3>3. k - 1 \in 1 .. Len(file) - 1 /\ (k - 1) + 1 = k
            BY <2>1, <3>2
        <3>4. file[k - 1] = NewLine
            BY <3>1, <3>3 DEF RecordOf
        <3>5. \A s \in DOMAIN file : BeginsWith(s, "session_start") => s <= k
            BY <2>1 DEF RecordOf, BeginsWith
        <3>6. k + 1 \in DOMAIN file => file[k + 1] = NewLine
            BY <2>1, <3>1 DEF RecordOf
        <3> QED BY <2>3, <3>4, <3>5, <3>6 DEF Lines, BeginsWith, NameAt
    <2>4. Lines("hook_installed")
            = {k \in DOMAIN file : file[k].kind = "hook_installed"}
        BY <2>3 DEF Lines, BeginsWith
    <2>5. Previous.active = hooks
        BY <2>3, <2>4 DEF RecordOf, Previous
    <2> QED BY <1>2, <2>2, <2>5 DEF Previous
<1> QED BY <1>1, <1>2

\* A record stays one when a text is appended behind a complete line, or a
\* newline behind anything.
LEMMA RecordGrows ==
    ASSUME NEW f \in Seq(Text), NEW hooks, RecordOf(f, hooks), NEW t \in Text,
           t.kind # "session_clean",
           t.kind = "session_start" <=> f = <<>>,
           t = NewLine \/ f = <<>> \/ Complete(f)
    PROVE  /\ RecordOf(Append(f, t), IF t.kind = "hook_installed"
                                       THEN hooks \union {t.hook} ELSE hooks)
           /\ Append(f, t) # <<>>
           /\ t = NewLine => Complete(Append(f, t))
<1> DEFINE g == Append(f, t)
           n == Len(f)
<1> HIDE DEF Text
<1>1. /\ n \in Nat /\ DOMAIN f = 1 .. n /\ DOMAIN g = 1 .. n + 1
      /\ Len(g) = n + 1 /\ g[n + 1] = t /\ \A k \in 1 .. n : g[k] = f[k]
      /\ g # <<>> /\ (f = <<>> <=> n = 0)
    OBVIOUS
<1> HIDE DEF g, n
<1>2. \A k \in DOMAIN g : g[k].kind # "session_clean"
    BY <1>1 DEF RecordOf
<1>3. \A k \in DOMAIN g : g[k].kind = "session_start" <=> k = 1
    BY <1>1 DEF RecordOf
<1>4. \A k \in 1 .. Len(g) - 1 : g[k] # NewLine => g[k + 1] = NewLine
    <2> SUFFICES ASSUME NEW k \in 1 .. n, f[k] # NewLine PROVE g[k + 1] = NewLine
        BY <1>1
    <2>1. CASE k < n
        BY <1>1, <2>1 DEF RecordOf, n
    <2>2. CASE k = n
        BY <1>1, <2>2 DEF Complete, n
    <2> QED BY <1>1, <2>1, <2>2
<1>5. {g[k].hook : k \in {j \in DOMAIN g : g[j].kind = "hook_installed"}}
        = (IF t.kind = "hook_installed" THEN hooks \union {t.hook} ELSE hooks)
    BY <1>1 DEF RecordOf
<1> QED BY <1>1, <1>2, <1>3, <1>4, <1>5 DEF RecordOf, Complete, g

\* A record that is clean stays so until it is overwritten or another starts.
LEMMA CleanStays ==
    ASSUME file \in Seq(Text), NEW t \in Text, t.kind # "session_start",
           file' = Append(file, t),
           \/ Lines("session_clean") # {}
           \/ t.kind = "session_clean" /\ Complete(file)
    PROVE  Lines("session_clean")' # {}
<1> HIDE DEF Text
<1>1. /\ Len(file) \in Nat /\ DOMAIN file = 1 .. Len(file)
      /\ DOMAIN file' = 1 .. Len(file) + 1
      /\ file'[Len(file) + 1] = t /\ \A k \in 1 .. Len(file) : file'[k] = file[k]
    OBVIOUS
<1>2. PICK k \in DOMAIN file' :
          /\ file'[k].kind = "session_clean" /\ (k = 1 \/ file'[k - 1] = NewLine)
          /\ \A s \in DOMAIN file : BeginsWith(s, "session_start") => s <= k
    <2>1. CASE Lines("session_clean") # {}
        BY <1>1, <2>1 DEF Lines, BeginsWith
    <2>2. CASE t.kind = "session_clean" /\ Complete(file)
        <3>1. (Len(file) + 1) - 1 = Len(file)
            BY <1>1
        <3>2. Len(file) \in 1 .. Len(file)
            <4>1. file # <<>>
                BY <2>2 DEF Complete
            <4> QED BY <4>1
        <3>3. file'[Len(file)] = NewLine
            BY <1>1, <2>2, <3>2 DEF Complete
        <3>4. \A s \in DOMAIN file : s <= Len(file) + 1
            BY <1>1
        <3>5. Len(file) + 1 \in DOMAIN file'
            BY <1>1
        <3>6. file'[Len(file) + 1].kind = "session_clean"
            BY <1>1, <2>2
        <3> QED BY <3>1, <3>3, <3>4, <3>5, <3>6
    <2> QED BY <2>1, <2>2
<1>3. ASSUME NEW s \in DOMAIN file', file'[s].kind = "session_start",
             s = 1 \/ file'[s - 1] = NewLine
      PROVE  s <= k
    <2>1. s \in DOMAIN file /\ file'[s] = file[s]
        BY <1>1, <1>3
    <2>2. s = 1 \/ file[s - 1] = NewLine
        BY <1>1, <1>3, <2>1
    <2> QED BY <1>2, <1>3, <2>1, <2>2 DEF BeginsWith
<1> QED BY <1>2, <1>3 DEF Lines, BeginsWith

\* What a text of the init thread does to the file.
LEMMA InitWrites ==
    ASSUME TypeInv, OwnerInv, WritingInv, alive, init \notin Before,
           NEW t \in Text, WriteText(t.kind, t.hook)
    PROVE  /\ open => Owned
           /\ ~open => UNCHANGED <<file, pos>>
           /\ open /\ loader = "running" =>
                /\ RecordOf(file, last.written) /\ AtEnd
                /\ file' = Append(file, t) /\ pos' = Len(file')
<1>1. t = [kind |-> t.kind, hook |-> t.hook]
    BY DEF Text
<1>2. open => Owned
    BY DEF OwnerInv
<1>3. /\ ~open => UNCHANGED <<file, pos>>
      /\ open /\ pos = Len(file) => file' = Append(file, t) /\ pos' = Len(file')
    <2>1. [kind |-> t.kind, hook |-> t.hook] \in Text
        BY <1>1
    <2>2. TypeOK
        BY DEF TypeInv
    <2> HIDE DEF Text
    <2> QED BY <1>1, <2>1, <2>2, TextWritten
<1>4. open /\ loader = "running" => RecordOf(file, last.written) /\ AtEnd
    BY <1>2 DEF WritingInv
<1>5. AtEnd => pos = Len(file)
    BY DEF AtEnd
<1> QED BY <1>2, <1>3, <1>4, <1>5

\* The lines of a file that stays are complete as before.
LEMMA ClosedKept == ASSUME UNCHANGED file PROVE Closed' = Closed
BY DEF Closed, Lines, BeginsWith

\* Nothing has been reported yet.
LEMMA InitReport == Init => ReportInv
<1> SUFFICES ASSUME Init PROVE ReportInv
    OBVIOUS
<1>1. TypeInv
    BY InitTypes
<1>2. RecordOf(file, {})
    <2>1. file = <<>> /\ DOMAIN file = {} /\ Len(file) = 0
        BY DEF Init
    <2> QED BY <2>1 DEF RecordOf
<1> QED BY <1>1, <1>2
    DEF Init, ReportInv, OwnerInv, WritingInv, CrashInv, UnloadInv, ReadInv,
        CrashIsReported, UnloadIsQuiet, JustRead, Fresh, Owned, Before

\* A step of the init thread that writes a text and leaves the record's history
\* alone, but for a hook that it writes down.
LEMMA InitWriteKeeps ==
    ASSUME ReportInv, TypeInv', alive, init \notin Before,
           NEW t \in Text, WriteText(t.kind, t.hook),
           t.kind # "session_clean",
           t.kind = "session_start" <=> init = "start",
           t = NewLine <=> init \in Ending,
           init # "done",
           init' \notin Before \union {"start"},
           init' \in Ending <=> t # NewLine,
           UNCHANGED <<open, loader, alive, session, warned>>,
           last' = IF t.kind = "hook_installed" /\ open /\ Owned
                     THEN [last EXCEPT !.written = @ \union {t.hook}]
                     ELSE last
    PROVE  ReportInv'
<1> USE DEF ReportInv
<1>1. /\ open => Owned
      /\ ~open => UNCHANGED <<file, pos>>
      /\ open /\ loader = "running" =>
           /\ RecordOf(file, last.written) /\ AtEnd
           /\ file' = Append(file, t) /\ pos' = Len(file')
    BY InitWrites
<1>2. /\ last'.session = last.session /\ last'.end = last.end /\ Owned' = Owned
      /\ last'.written = IF t.kind = "hook_installed" /\ open
                           THEN last.written \union {t.hook} ELSE last.written
    BY <1>1 DEF TypeInv, Owned
<1>3. OwnerInv'
    BY <1>1, <1>2 DEF OwnerInv
<1>4. ASSUME open, loader = "running" PROVE RecordOf(file, last.written)' /\ AtEnd'
    <2>1. file \in Seq(Text)
        <3> HIDE DEF Text
        <3> QED BY DEF TypeInv, TypeOK
    <2>2. /\ RecordOf(Append(file, t), last'.written) /\ Append(file, t) # <<>>
          /\ t = NewLine => Complete(Append(file, t))
        <3>1. t.kind = "session_start" <=> file = <<>>
            BY <1>1, <1>4 DEF AtEnd
        <3>2. t = NewLine \/ file = <<>> \/ Complete(file)
            BY <1>1, <1>4 DEF AtEnd
        <3>3. RecordOf(file, last.written)
            BY <1>1, <1>4
        <3>4. last'.written = (IF t.kind = "hook_installed"
                                 THEN last.written \union {t.hook}
                                 ELSE last.written)
            BY <1>2, <1>4
        <3> HIDE DEF Text
        <3>5. RecordOf(Append(file, t), IF t.kind = "hook_installed"
                                          THEN last.written \union {t.hook}
                                          ELSE last.written)
            BY <2>1, <3>1, <3>2, <3>3, RecordGrows
        <3>6. Append(file, t) # <<>> /\ (t = NewLine => Complete(Append(file, t)))
            BY <2>1, <3>1, <3>2, <3>3, RecordGrows
        <3> QED BY <3>4, <3>5, <3>6
    <2> QED BY <1>1, <1>4, <2>2 DEF AtEnd
<1>5. WritingInv'
    BY <1>1, <1>2, <1>4 DEF WritingInv
<1>6. CrashInv'
    BY <1>1, <1>2 DEF CrashInv, OwnerInv
<1>7. UnloadInv'
    <2>1. last.end = "unload" => ~open /\ ~Owned
        BY <1>1 DEF UnloadInv
    <2> QED BY <1>1, <1>2, <2>1, ClosedKept DEF UnloadInv
<1>8. ReadInv'
    BY DEF ReadInv, CrashIsReported, UnloadIsQuiet, JustRead, Before
<1> QED BY <1>3, <1>5, <1>6, <1>7, <1>8

\* Each step keeps it.
LEMMA StepReport == ReportInv /\ [Next]_vars => ReportInv'
<1> SUFFICES ASSUME ReportInv, [Next]_vars PROVE ReportInv'
    OBVIOUS
<1> USE DEF ReportInv, Running
<1>0. TypeInv' /\ last.session \in Nat /\ last.session <= session /\ session \in Nat
    <2>1. last.session \in Nat /\ last.session <= session /\ session \in Nat
        BY DEF TypeInv, TypeOK
    <2> QED BY <2>1, StepTypes
<1>1. CASE OpenJournal
    <2>1. /\ alive /\ init = "open" /\ init' = "read"
          /\ UNCHANGED <<file, next, loader, alive, session, warned, last>>
        BY <1>1 DEF OpenJournal
    <2>2. OwnerInv' /\ WritingInv' /\ CrashInv' /\ ReadInv'
        BY <2>1 DEF OwnerInv, WritingInv, CrashInv, ReadInv, CrashIsReported,
            UnloadIsQuiet, JustRead, Owned, Before
    <2>3. UnloadInv'
        BY <2>1, ClosedKept DEF UnloadInv, Owned
    <2> QED BY <1>0, <2>2, <2>3
<1>2. CASE ReadPrevious
    <2>1. /\ alive /\ init = "read" /\ init' = IF open THEN "truncate" ELSE "install"
          /\ warned' = IF Previous.clean THEN {} ELSE Previous.active
          /\ UNCHANGED <<file, open, pos, next, loader, alive, session, last>>
        BY <1>2 DEF ReadPrevious
    <2>2. OwnerInv' /\ WritingInv' /\ CrashInv'
        BY <2>1 DEF OwnerInv, WritingInv, CrashInv, Owned, Before
    <2>3. UnloadInv'
        BY <2>1, ClosedKept DEF UnloadInv, Owned
    <2>4. last.end = "crash" => warned' = last.written
        <3>1. file \in Seq(Text)
            <4> HIDE DEF Text
            <4> QED BY DEF TypeInv, TypeOK
        <3> QED BY <2>1, <3>1, RecordIsRead DEF CrashInv
    <2>5. last.end = "unload" => warned' = {}
        <3>1. last.end = "unload" => Closed
            BY <2>1 DEF UnloadInv
        <3>2. Closed => Previous.clean
            BY DEF Closed, Previous
        <3> QED BY <2>1, <3>1, <3>2
    <2>6. ReadInv'
        BY <2>1, <2>4, <2>5 DEF ReadInv, CrashIsReported, UnloadIsQuiet
    <2> QED BY <1>0, <2>2, <2>3, <2>6
<1>3. CASE Truncate
    <2>1. /\ alive /\ init = "truncate" /\ init' = "start"
          /\ file' = (IF open THEN <<>> ELSE file) /\ pos' = 0
          /\ last' = (IF open THEN Fresh(session) ELSE last)
          /\ UNCHANGED <<open, next, loader, alive, session, warned>>
        BY <1>3 DEF Truncate
    <2>2. CASE open
        <3>1. Owned' /\ last'.end = "none" /\ last'.written = {} /\ file' = <<>>
            BY <2>1, <2>2 DEF Owned, Fresh
        <3>2. RecordOf(file', {}) /\ Len(file') = 0
            BY <3>1 DEF RecordOf
        <3> QED BY <1>0, <2>1, <2>2, <3>1, <3>2
            DEF OwnerInv, WritingInv, CrashInv, UnloadInv, ReadInv,
                CrashIsReported, UnloadIsQuiet, JustRead, AtEnd, Before, Ending
    <2>3. CASE ~open
        <3>1. UNCHANGED <<file, last, session>>
            BY <2>1, <2>3
        <3>2. OwnerInv' /\ WritingInv' /\ CrashInv' /\ ReadInv'
            BY <2>1, <2>3, <3>1
            DEF OwnerInv, WritingInv, CrashInv, ReadInv, CrashIsReported,
                UnloadIsQuiet, JustRead, Owned, Before
        <3>3. UnloadInv'
            BY <2>1, <2>3, <3>1, ClosedKept DEF UnloadInv, Owned
        <3> QED BY <1>0, <3>2, <3>3
    <2> QED BY <2>2, <2>3
<1>4. CASE WriteStart
    <2> DEFINE t == [kind |-> "session_start", hook |-> Nobody]
    <2>1. t \in Text /\ t.kind = "session_start" /\ t.hook = Nobody /\ t # NewLine
        BY TextsAreTexts DEF NewLine
    <2> HIDE DEF t
    <2> QED BY <1>0, <1>4, <2>1, InitWriteKeeps DEF WriteStart, Before, Ending
<1>5. CASE WriteNewline
    <2>1. NewLine \in Text /\ NewLine.kind = "newline" /\ NewLine.hook = Nobody
        BY TextsAreTexts DEF NewLine
    <2>2. init \in Ending /\ init' \in {"install", "done"}
        BY <1>5 DEF WriteNewline, AfterNewline, Ending
    <2> HIDE DEF NewLine
    <2> QED BY <1>0, <1>5, <2>1, <2>2, InitWriteKeeps
        DEF WriteNewline, Before, Ending
<1>6. CASE WriteInstalled
    <2> DEFINE t == [kind |-> "hook_installed", hook |-> next]
    <2>1. next \in Hook
        BY <1>6, BoundsAssumption DEF WriteInstalled, TypeInv, TypeOK, Hook
    <2>2. t \in Text /\ t.kind = "hook_installed" /\ t.hook = next /\ t # NewLine
        BY <2>1, TextsAreTexts DEF NewLine
    <2> HIDE DEF t
    <2> QED BY <1>0, <1>6, <2>2, InitWriteKeeps DEF WriteInstalled, Before, Ending
<1>7. CASE WriteComplete
    <2> DEFINE t == [kind |-> "init_complete", hook |-> Nobody]
    <2>1. t \in Text /\ t.kind = "init_complete" /\ t.hook = Nobody /\ t # NewLine
        BY TextsAreTexts DEF NewLine
    <2> HIDE DEF t
    <2> QED BY <1>0, <1>7, <2>1, InitWriteKeeps DEF WriteComplete, Before, Ending
<1>8. CASE Install \/ InstallDone
    <2>1. /\ alive /\ init = "install"
          /\ init' \in {"install", "installed", "done", "complete"}
          /\ UNCHANGED <<file, open, pos, loader, alive, session, warned>>
          /\ last'.session = last.session /\ last'.end = last.end
          /\ last'.written = last.written
        BY <1>8 DEF Install, InstallDone, TypeInv
    <2>2. OwnerInv' /\ CrashInv' /\ ReadInv'
        BY <2>1 DEF OwnerInv, CrashInv, ReadInv, CrashIsReported,
            UnloadIsQuiet, JustRead, Owned, Before
    <2>3. WritingInv'
        BY <2>1 DEF WritingInv, AtEnd, Owned, Before, Ending
    <2>4. UnloadInv'
        BY <2>1, ClosedKept DEF UnloadInv, Owned
    <2> QED BY <1>0, <2>2, <2>3, <2>4
<1>9. CASE BeginUnload
    <2>1. /\ alive /\ loader = "running" /\ loader' = "clean"
          /\ UNCHANGED <<file, open, pos, init, next, alive, session, warned>>
          /\ last' = (IF Owned /\ init = "done" THEN [last EXCEPT !.end = "unload"]
                                                ELSE last)
        BY <1>9 DEF BeginUnload
    <2>2. CASE Owned /\ init = "done"
        <3>1. /\ last'.end = "unload" /\ last'.session = last.session
              /\ Owned' /\ init' = "done" /\ alive'
            BY <2>1, <2>2 DEF Owned, TypeInv
        <3>2. UnloadInv'
            <4>1. /\ ~open => file = <<>>
                  /\ open => pos = Len(file) /\ Complete(file) /\ file # <<>>
                BY <2>1, <2>2 DEF WritingInv, AtEnd, Before, Ending, Complete
            <4>2. Complete(file)' = Complete(file) /\ Closed' = Closed
                BY <2>1, ClosedKept DEF Complete
            <4> QED BY <2>1, <3>1, <4>1, <4>2 DEF UnloadInv, Closed
        <3> QED BY <1>0, <2>1, <3>1, <3>2
            DEF OwnerInv, WritingInv, CrashInv, ReadInv, CrashIsReported,
                UnloadIsQuiet, JustRead
    <2>3. CASE ~(Owned /\ init = "done")
        <3>1. UNCHANGED last
            BY <2>1, <2>3
        <3>2. OwnerInv' /\ WritingInv' /\ CrashInv' /\ ReadInv'
            BY <2>1, <3>1 DEF OwnerInv, WritingInv, CrashInv, ReadInv,
                CrashIsReported, UnloadIsQuiet, JustRead, Owned
        <3>3. UnloadInv'
            BY <2>1, <2>3, <3>1, ClosedKept DEF UnloadInv, Owned
        <3> QED BY <1>0, <3>2, <3>3
    <2> QED BY <2>2, <2>3
<1>10. CASE WriteClean
    <2>1. /\ alive /\ loader \in {"clean", "clean_nl"}
          /\ loader' = (IF loader = "clean" THEN "clean_nl" ELSE "close")
          /\ last' = (IF open /\ ~Owned THEN [last EXCEPT !.end = "muddled"]
                                        ELSE last)
          /\ UNCHANGED <<open, init, next, alive, session, warned>>
        BY <1>10 DEF WriteClean
    <2>2. /\ last'.session = last.session /\ last'.written = last.written
          /\ last'.end = (IF open /\ ~Owned THEN "muddled" ELSE last.end)
          /\ Owned' = Owned
        BY <2>1 DEF Owned, TypeInv
    <2> DEFINE kind == IF loader = "clean" THEN "session_clean" ELSE "newline"
               t == [kind |-> kind, hook |-> Nobody]
    <2>3. /\ t \in Text /\ t.kind # "session_start"
          /\ loader = "clean" => t.kind = "session_clean"
          /\ WriteText(kind, Nobody)
        BY <1>10, <2>1, TextsAreTexts DEF WriteClean
    <2>4. file \in Seq(Text) /\ TypeOK
        <3> HIDE DEF Text
        <3> QED BY DEF TypeInv, TypeOK
    <2>5. /\ ~open => UNCHANGED <<file, pos>>
          /\ open /\ pos = Len(file) => file' = Append(file, t) /\ pos' = Len(file')
        <3> HIDE DEF kind, Text
        <3> QED BY <2>3, <2>4, TextWritten
    <2> HIDE DEF kind, t
    <2>6. OwnerInv' /\ WritingInv' /\ ReadInv'
        BY <2>1, <2>2 DEF OwnerInv, WritingInv, ReadInv, CrashIsReported,
            UnloadIsQuiet, JustRead
    <2>7. CrashInv'
        BY <2>1, <2>2, <2>5 DEF CrashInv, OwnerInv
    <2>8. UnloadInv'
        <3>1. CASE open /\ Owned /\ last.end = "unload"
            <4>1. file' = Append(file, t) /\ pos' = Len(file')
                BY <2>1, <2>5, <3>1 DEF UnloadInv
            <4>3. file' # <<>>
                <5> HIDE DEF Text
                <5> QED BY <2>4, <4>1
            <4>2. Lines("session_clean")' # {}
                <5>1. CASE loader = "clean"
                    <6>1. Complete(file)
                        BY <3>1, <5>1 DEF UnloadInv
                    <6> HIDE DEF Text
                    <6> QED BY <2>3, <2>4, <4>1, <5>1, <6>1, CleanStays
                <5>2. CASE loader = "clean_nl"
                    <6>1. file # <<>>
                        BY <3>1, <5>2 DEF UnloadInv
                    <6>2. Lines("session_clean") # {}
                        BY <3>1, <5>2, <6>1 DEF UnloadInv, Closed
                    <6> HIDE DEF Text
                    <6> QED BY <2>3, <2>4, <4>1, <6>2, CleanStays
                <5> QED BY <2>1, <5>1, <5>2
            <4> QED BY <2>1, <2>2, <3>1, <4>1, <4>2, <4>3 DEF UnloadInv, Closed
        <3>2. CASE ~open /\ last.end = "unload"
            <4>1. UNCHANGED file
                BY <2>5, <3>2
            <4> QED BY <2>1, <2>2, <3>2, <4>1, ClosedKept DEF UnloadInv
        <3>3. CASE last'.end # "unload"
            BY <3>3 DEF UnloadInv
        <3> QED BY <2>2, <3>1, <3>2, <3>3
    <2> QED BY <1>0, <2>6, <2>7, <2>8
<1>11. CASE CloseJournal
    <2>1. /\ alive /\ loader = "close" /\ loader' = "unloaded" /\ ~open'
          /\ UNCHANGED <<file, pos, init, next, alive, session, warned, last>>
        BY <1>11 DEF CloseJournal
    <2>2. OwnerInv' /\ WritingInv' /\ CrashInv' /\ ReadInv'
        BY <2>1 DEF OwnerInv, WritingInv, CrashInv, ReadInv, CrashIsReported,
            UnloadIsQuiet, JustRead, Owned
    <2>3. UnloadInv'
        BY <2>1, ClosedKept DEF UnloadInv, Owned
    <2> QED BY <1>0, <2>2, <2>3
<1>12. ASSUME NEW end, Dies(end),
              \/ loader = "running" /\ end \in {"crash", "exit"}
              \/ end = "muddled"
              \/ loader = "unloaded" /\ last.end = "unload" /\ end = "unload"
       PROVE  ReportInv'
    <2>1. /\ alive /\ ~alive'
          /\ last' = (IF Owned THEN [last EXCEPT !.end = end] ELSE last)
          /\ UNCHANGED <<file, open, pos, init, next, loader, session, warned>>
        BY <1>12 DEF Dies
    <2>2. /\ last'.session = last.session /\ last'.written = last.written
          /\ last'.end = (IF Owned THEN end ELSE last.end) /\ Owned' = Owned
        BY <2>1 DEF Owned, TypeInv
    <2>3. OwnerInv' /\ WritingInv' /\ ReadInv'
        BY <1>12, <2>1, <2>2 DEF OwnerInv, WritingInv, ReadInv, CrashIsReported,
            UnloadIsQuiet, JustRead
    <2>4. CrashInv'
        BY <1>12, <2>1, <2>2 DEF CrashInv, WritingInv
    <2>5. UnloadInv'
        BY <1>12, <2>1, <2>2, ClosedKept DEF UnloadInv
    <2> QED BY <1>0, <2>3, <2>4, <2>5
<1>13. CASE Crash \/ ExitProcess \/ EndUnloaded
    BY <1>12, <1>13 DEF Crash, ExitProcess, EndUnloaded
<1>14. CASE NewSession
    <2>1. /\ ~alive /\ session' = session + 1 /\ ~open' /\ init' = "open"
          /\ loader' = "running" /\ UNCHANGED <<file, pos, last>>
        BY <1>14 DEF NewSession
    <2>2. ~Owned'
        <3>1. last.session # session + 1
            <4> HIDE DEF ReportInv
            <4>1. last.session \in Nat /\ session \in Nat /\ last.session <= session
                BY <1>0
            <4> QED BY <4>1
        <3>2. last'.session # session'
            BY <2>1, <3>1
        <3> QED BY <3>2 DEF Owned
    <2>3. last.end # "none"
        BY <2>1 DEF OwnerInv
    <2>4. OwnerInv' /\ WritingInv' /\ CrashInv' /\ ReadInv'
        BY <2>1, <2>2, <2>3 DEF OwnerInv, WritingInv, CrashInv, ReadInv,
            CrashIsReported, UnloadIsQuiet, JustRead
    <2>5. UnloadInv'
        BY <2>1, <2>2, ClosedKept DEF UnloadInv
    <2> QED BY <1>0, <2>4, <2>5
<1>15. CASE UNCHANGED vars
    <2>1. UNCHANGED <<file, open, pos, init, next, loader, alive, session, warned,
                      last>>
        BY <1>15 DEF vars
    <2>2. OwnerInv' /\ WritingInv' /\ CrashInv' /\ ReadInv'
        BY <2>1 DEF OwnerInv, WritingInv, AtEnd, CrashInv, ReadInv,
            CrashIsReported, UnloadIsQuiet, JustRead, Owned
    <2>3. UnloadInv'
        BY <2>1, ClosedKept DEF UnloadInv, Owned
    <2> QED BY <1>0, <2>2, <2>3
<1> QED BY <1>1, <1>2, <1>3, <1>4, <1>5, <1>6, <1>7, <1>8, <1>9, <1>10,
          <1>11, <1>13, <1>14, <1>15 DEF Next, InitStep, UnloadStep

\* For any number of hooks and of sessions, wherever a crash interrupts the
\* session and however many sessions die before they read the journal: the
\* first one that reads it reports the hooks the crashed one had written down.
THEOREM CrashesAreReported == Spec => []CrashIsReported
<1>1. ReportInv => CrashIsReported
    BY DEF ReportInv, ReadInv
<1> QED BY InitReport, StepReport, <1>1, PTL DEF Spec

\* A session that was unloaded after its init thread had ended leaves nothing to
\* be reported.
THEOREM UnloadsAreQuiet == Spec => []UnloadIsQuiet
<1>1. ReportInv => UnloadIsQuiet
    BY DEF ReportInv, ReadInv
<1> QED BY InitReport, StepReport, <1>1, PTL DEF Spec
=============================================================================
