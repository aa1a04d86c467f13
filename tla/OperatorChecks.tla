--------------------------- MODULE OperatorChecks ---------------------------
(***************************************************************************)
(* What is evaluated of the operators without a state on small inputs:     *)
(* results that take a sequence of calls or a search, against a definition *)
(* that says directly what is meant, and the values of the tests.  The     *)
(* filter of resolutions, the ratios of the INI and the scanned range are  *)
(* proved for every input in Operators_proof.                              *)
(***************************************************************************)
EXTENDS Integers, FiniteSets, Functions

Display == INSTANCE RogueDisplay
Motion == INSTANCE RogueMotion
Syndicate == INSTANCE SyndicateCallbacks
Ini == INSTANCE IniValues
Image == INSTANCE ImageLayout WITH Width <- 256

-----------------------------------------------------------------------------
(* The mode list.  60 and 59.94 Hz are one to the order, 165 is another.   *)

Mode(w, h, num, den) == [width |-> w, height |-> h, num |-> num, den |-> den]

Modes ==
    {Mode(1280, 720, 60, 1), Mode(1280, 720, 60000, 1001),
     Mode(1280, 720, 165, 1), Mode(1280, 800, 60, 1), Mode(1920, 600, 60, 0),
     Mode(799, 600, 60, 1), Mode(800, 599, 60, 1)}

Rates(list) == [i \in DOMAIN list |-> Display!RefreshHz(list[i])]

\* The list the lookup searches holds every mode of a usable size once, and is
\* in ascending order of width, height and rounded rate.
ASSUME ListIsSearchable ==
    \A reported \in SUBSET Modes :
      LET list == Display!SortedModes(Display!ModesToList(reported))
      IN  /\ {list[i] : i \in DOMAIN list}
               = {m \in reported : m.width >= 800 /\ m.height >= 600}
          /\ \A i, j \in DOMAIN list : i # j => list[i] # list[j]
          /\ \A i, j \in DOMAIN list :
               i < j =>
                 \/ list[i].width < list[j].width
                 \/ /\ list[i].width = list[j].width
                    /\ \/ list[i].height < list[j].height
                       \/ /\ list[i].height = list[j].height
                          /\ Rates(list)[i] <= Rates(list)[j]

-----------------------------------------------------------------------------
(* The mouse: four frames of motion and what the game makes of them, in    *)
(* quarters of a count.                                                    *)

Half == 2
Gain == 3
Limit == 24

Still == [estimate |-> 0, carry |-> 0]

\* The filter and the game's lag after each frame, and what has been moved.
Frames(raws) ==
    LET frame[n \in 0 .. 4] ==
          IF n = 0 THEN [filter |-> Still, engine |-> 0, moved |-> 0]
          ELSE LET before == frame[n - 1]
                   handed == Motion!MouseDelta(TRUE, before.filter, raws[n], Gain,
                                               Limit, Half)
                   engine == Motion!Lagged(before.engine, handed, Gain)
               IN  [filter |-> Motion!Applied(before.filter, raws[n], Gain, Limit),
                    engine |-> engine,
                    moved |-> before.moved + engine]
    IN  frame

\* The camera has moved by what the mouse reported, but for what the filter still
\* carries and at most half a count in each frame, which nobody carries: the clamp
\* only delays motion, until the carry is full too.
ASSUME MotionAddsUp ==
    \A raws \in [1 .. 4 -> {4 * k : k \in -5 .. 5}] :
      LET frame == Frames(raws)
          reported == raws[1] + raws[2] + raws[3] + raws[4]
      IN  \/ \E n \in 1 .. 4 : frame[n].filter.carry \in {-Limit, Limit}
          \/ frame[4].moved + frame[4].filter.carry - reported
               \in -4 * Half .. 4 * Half

\* After any pauses through live instances the pause flag of the one told last
\* agrees with what the other callbacks ask, is_in_game, and the instance
\* first met stays the cached one.
Instances == {0, 1, 2}
NoState == [in_game |-> FALSE, cached |-> 0,
            pause_flag |-> [i \in Instances |-> FALSE]]

ASSUME PauseAgrees ==
    \A first \in Instances, last \in Instances \ {0}, p, q \in BOOLEAN :
      LET s == Motion!SetPause(Motion!SetPause(NoState, first, p), last, q)
      IN  /\ s.pause_flag[last] = ~s.in_game
          /\ s.cached = IF first # 0 THEN first ELSE last

-----------------------------------------------------------------------------
(* Resolutions and settings.                                               *)

\* Reducing by the greatest common divisor finds the modes whose sides are in
\* one of the standard proportions, with one exception.
ASSUME FilterKnowsProportions ==
    \A w \in 1 .. 66, h \in 1 .. 28 :
      Syndicate!IsStandardAspect(w, h)
        = \E r \in Syndicate!StandardAspects \ {<<21, 9>>} :
            w * r[2] = h * r[1]

\* The exception: src/games/ac/syndicate/README.md:109 counts 21:9 among the
\* ratios that are kept, but it reduces to 7:3, which the list does not have.
ASSUME TwentyOneByNineIsDropped ==
    \A k \in 1 .. 8 : ~Syndicate!IsStandardAspect(21 * k, 9 * k)

Number(value) == [kind |-> "number", padded |-> FALSE, value |-> value]
Prefix(value) == [kind |-> "prefix", padded |-> FALSE, value |-> value]
Word(name) == [kind |-> "word", padded |-> FALSE, name |-> name]
Nothing == [kind |-> "nothing", padded |-> FALSE]

\* What the parsers' tests say of numbers with a tail, of numbers out of an
\* enum's range and of what is no number.
ASSUME TextsAreRead ==
    /\ Ini!ParseFloat(Prefix(100)) = 0 /\ Ini!ParseFloat(Nothing) = 0
    /\ Ini!ParseBool(Number(-100)) /\ ~Ini!ParseBool(Number(50))
    /\ ~Ini!ParseBool(Nothing) /\ ~Ini!ParseBool(Word("off"))
    /\ Ini!ParseFovMode(Number(200)) = 2 /\ Ini!ParseFovMode(Number(300)) = 0
    /\ Ini!ParseFovMode(Number(-100)) = 0 /\ Ini!ParseFovMode(Prefix(100)) = 0
    /\ Ini!ParseMultiMonitor(Word("Triple")) = 2
    /\ Ini!ParsePromptType(Number(300)) = Ini!PlayStation
    /\ Ini!ParsePromptType(Number(25800)) = Ini!Xbox

\* A ratio with a side that cannot be read, or no height, asks for the
\* display's own; a callback never divides by a height that is not positive.
ASSUME RatiosHaveHeight ==
    \A w, h \in {Number(-100), Number(0), Number(1600), Prefix(900), Nothing} :
      LET ratio == Ini!ParseRatio([kind |-> "ratio", width |-> w, height |-> h])
      IN  /\ ratio[2] > 0
          /\ Display!Given(ratio) =>
               w = Number(1600) /\ h = Number(1600)

-----------------------------------------------------------------------------
(* The layout of an executable: the image of test_pe_file.cpp, in units of *)
(* 256 bytes.                                                              *)

Sections ==
    << [rva |-> 16, virt |-> 32, raw |-> 32, ptr |-> 4],
       [rva |-> 64, virt |-> 16, raw |-> 2, ptr |-> 36] >>

\* An address is looked up in the section that holds it, an address behind the
\* part of it that the file has too, and none in no section.
ASSUME OffsetsAreTheTests ==
    /\ Image!FileOffset(Sections, 16) = 4
    /\ Image!FileOffset(Sections, 18) = 6
    /\ Image!FileOffset(Sections, 64) = 36
    /\ Image!FileOffset(Sections, 72) = 44
    /\ Image!FileOffset(Sections, 5) = Image!NoOffset
    /\ Image!FileOffset(Sections, 144) = Image!NoOffset

Region(base, exec) == [base |-> base, end |-> base + 1, exec |-> exec]

\* The range searched holds every executable page of .text, and every page
\* between two of them whether it can be read or not.
ASSUME RangeHasNoHoles ==
    \A exec \in [1 .. 4 -> BOOLEAN] :
      LET range == Image!ScanRange({Region(k, exec[k]) : k \in 1 .. 4})
      IN  \A k \in 1 .. 4 :
            (range.begin <= k /\ k < range.end)
              = (/\ \E i \in 1 .. k : exec[i]
                 /\ \E j \in k .. 4 : exec[j])
=============================================================================
