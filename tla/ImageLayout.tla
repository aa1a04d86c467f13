---------------------------- MODULE ImageLayout ----------------------------
(***************************************************************************)
(* What the plugin works out from the layout of an executable: where the   *)
(* file holds the bytes the loader mapped at an address (for the prologue  *)
(* of DbgUiRemoteBreakin, which the packer overwrites), and where in .text *)
(* it searches for its patterns.                                           *)
(*                                                                         *)
(* A section has an address (rva) and a size (virt) in memory, and a place *)
(* (ptr) and a size (raw) in the file.  Numbers have 32 bits.              *)
(***************************************************************************)
EXTENDS Integers

CONSTANT Width      \* 2^32

Larger(a, b) == IF a < b THEN b ELSE a

-----------------------------------------------------------------------------
(* rva_to_file_offset.  sections: the entries of the section table that    *)
(* the file is long enough to hold, in their order.                        *)

Section == [rva : 0 .. Width - 1, virt : 0 .. Width - 1,
            ptr : 0 .. Width - 1, raw : 0 .. Width - 1]

Spans(section, rva) ==
    /\ section.rva <= rva
    /\ rva < (section.rva + Larger(section.virt, section.raw)) % Width

Hits(sections, rva) == {i \in DOMAIN sections : Spans(sections[i], rva)}

NoOffset == -1

FileOffset(sections, rva) ==
    IF Hits(sections, rva) = {} THEN NoOffset
    ELSE LET first == CHOOSE i \in Hits(sections, rva) :
                        \A j \in Hits(sections, rva) : i <= j
         IN  (sections[first].ptr + (rva - sections[first].rva)) % Width

-----------------------------------------------------------------------------
(* restore_debug_breakin.  rva: NoOffset where ntdll or the export cannot  *)
(* be found; file and code: functions from offsets and addresses to bytes. *)

PrologueBytes == 5
Prologue(bytes, at) == [i \in 0 .. PrologueBytes - 1 |-> bytes[at + i]]

Overwritten(code, at, prologue) ==
    [a \in DOMAIN code |->
        IF a \in at .. at + PrologueBytes - 1 THEN prologue[a - at] ELSE code[a]]

\* The state it answers and the code it leaves; may_write: mem::write succeeds.
RestoreBreakin(rva, sections, file, size, code, may_write) ==
    LET offset == FileOffset(sections, rva)
        original == Prologue(file, offset)
    IN  IF rva = NoOffset \/ offset = NoOffset \/ offset + PrologueBytes > size
        THEN [state |-> "unavailable", code |-> code]
        ELSE IF Prologue(code, rva) = original
        THEN [state |-> "clean", code |-> code]
        ELSE IF may_write
        THEN [state |-> "restored", code |-> Overwritten(code, rva, original)]
        ELSE [state |-> "patched", code |-> code]

-----------------------------------------------------------------------------
(* find_text_range and find_unique.  A region of .text has a base, an end, *)
(* and is executable and committed or not.                                 *)

Executable(regions) == {r \in regions : r.exec}

\* From the first executable region to the last, with what lies between.
ScanRange(regions) ==
    IF Executable(regions) = {} THEN [begin |-> 0, end |-> 0]
    ELSE [begin |-> CHOOSE b \in {r.base : r \in Executable(regions)} :
                      \A r \in Executable(regions) : b <= r.base,
          end |-> CHOOSE e \in {r.end : r \in Executable(regions)} :
                      \A r \in Executable(regions) : r.end <= e]

\* matches: the addresses the library finds; a pattern that is found twice is
\* no better than one that is not.
NotUnique == "not unique"
FindUnique(matches, offset) ==
    IF \E m \in matches : matches = {m}
    THEN (CHOOSE m \in matches : TRUE) + offset ELSE NotUnique
=============================================================================
