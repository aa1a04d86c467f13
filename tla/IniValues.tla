----------------------------- MODULE IniValues -----------------------------
(***************************************************************************)
(* How a value of the INI becomes a setting.  A text is told apart by what *)
(* the parsers make of it: its kind is "word" (a name, in any case),       *)
(* "number" (finite, in hundredths), "prefix" (a number with something     *)
(* behind it), or "nothing" (empty, nan, inf, out of range, or no number   *)
(* at all).  A padded text has white space in front.  An aspect ratio may  *)
(* also be a "ratio" of two texts.  A number is written without exponent,  *)
(* and with a point only where it needs one.                               *)
(***************************************************************************)
EXTENDS Integers

One == 100
IntLimit == 10000       \* stands for the range of int

Between(x, low, high) == IF x < low THEN low ELSE IF x > high THEN high ELSE x

\* std::from_chars for a whole number: the digits up to a point or a letter,
\* nothing in front, within the range of int.
WholePart(value) ==
    IF value >= 0 THEN value \div One ELSE -((-value) \div One)

InIntRange(value) == -IntLimit <= WholePart(value) /\ WholePart(value) < IntLimit

IsFinite(text) == text.kind = "number"

ParseFinite(text, otherwise) == IF IsFinite(text) THEN text.value ELSE otherwise

\* default_parser<float>
ParseFloat(text) == ParseFinite(text, 0)

\* clamped_unit_parser
ParseUnit(text) == Between(ParseFloat(text), 0, One)

Truthy == {"true", "yes", "on"}

\* default_parser<bool>: unlike the others it takes the number in front of
\* something else, and does not trim.
ParseBool(text) ==
    /\ ~text.padded
    /\ \/ text.kind = "word" /\ text.name \in Truthy
       \/ /\ text.kind \in {"number", "prefix"}
          /\ InIntRange(text.value) /\ WholePart(text.value) # 0

IsWhole(text) ==
    /\ text.kind = "number" /\ text.value % One = 0 /\ InIntRange(text.value)

\* parse_enum.  An enum without a count of its values (count 0) takes any
\* number, cast to the byte it is kept in.
ParseEnum(text, table, count, fallback) ==
    IF text.kind = "word" /\ ~text.padded /\ text.name \in DOMAIN table
    THEN table[text.name]
    ELSE IF ~IsWhole(text) THEN fallback
    ELSE IF count = 0 THEN WholePart(text.value) % 256
    ELSE IF WholePart(text.value) \in 0 .. count - 1 THEN WholePart(text.value)
    ELSE fallback

FovTable == [Auto |-> 0, VertPlus |-> 1, HorPlus |-> 2]
ParseFovMode(text) == ParseEnum(text, FovTable, 3, 0)

MonitorTable == [Auto |-> 0, Single |-> 1, Multi |-> 2, Triple |-> 2]
ParseMultiMonitor(text) == ParseEnum(text, MonitorTable, 3, 0)

Xbox == 2
PlayStation == 5
PromptTable == [Xbox |-> Xbox, PlayStation |-> PlayStation]

ParsePromptType(text) ==
    LET type == ParseEnum(text, PromptTable, 0, PlayStation)
    IN  IF type \in {Xbox, PlayStation} THEN type ELSE PlayStation

\* ratio_parser: a pair <<width, height>>, <<0, 1>> for none.
ParseRatio(text) ==
    IF text.kind # "ratio" THEN <<ParseFloat(text), One>>
    ELSE IF /\ IsFinite(text.width) /\ IsFinite(text.height)
            /\ text.height.value > 0
    THEN <<text.width.value, text.height.value>>
    ELSE <<0, 1>>

\* ini_field::load_from: a key the file does not have goes back to its default.
Loaded(ini, key, Parse(_), default) ==
    IF key \in DOMAIN ini THEN Parse(ini[key]) ELSE default

StretchHorizontal(ini) == Loaded(ini, "StretchHorizontal", ParseUnit, 0)
StretchVertical(ini) == Loaded(ini, "StretchVertical", ParseUnit, 0)
FovMode(ini) == Loaded(ini, "Mode", ParseFovMode, 0)
MultiMonitor(ini) == Loaded(ini, "MultiMonitor", ParseMultiMonitor, 0)
PromptType(ini) == Loaded(ini, "PromptType", ParsePromptType, PlayStation)
AspectRatio(ini) == Loaded(ini, "AspectRatio", ParseRatio, <<0, 1>>)
=============================================================================
