---------------------------- MODULE RogueDisplay ----------------------------
(***************************************************************************)
(* What Rogue's display callbacks work out for one call of the game: the   *)
(* list of display modes and the index into it, the aspect ratio a frame   *)
(* is drawn at, the picture the interface is fitted into, the field of     *)
(* view, the flag for several monitors.  Each operator is one callback, or *)
(* one result of it, as a function of what it reads; the erased bytes it   *)
(* stands for are its answer when the fix is switched off.                 *)
(*                                                                         *)
(* A ratio is a pair <<width, height>>.  Floating point is exact here.     *)
(***************************************************************************)
EXTENDS Integers, FiniteSets, Functions

Smaller(a, b) == IF a < b THEN a ELSE b

-----------------------------------------------------------------------------
(* The list of display modes.  A renderer has the modes its output reports *)
(* (none: no output, or a query that failed) and the room of its buffer.   *)
(* What the output reports is a set: equal descriptions are not told apart.*)

MinWidth == 800
MinHeight == 600

\* To the nearest; std::lround is away from zero at the half.
RefreshHz(mode) ==
    IF mode.den = 0 THEN 0 ELSE (2 * mode.num + mode.den) \div (2 * mode.den)

Usable(mode) == mode.width >= MinWidth /\ mode.height >= MinHeight

\* The order the binary search of the game relies on.
Precedes(a, b) ==
    \/ a.width < b.width
    \/ a.width = b.width /\ a.height < b.height
    \/ a.width = b.width /\ a.height = b.height /\ RefreshHz(a) < RefreshHz(b)

ModesToList(reported) == {m \in reported : Usable(m)}

InOrder(list) ==
    \A i, j \in DOMAIN list : i < j => ~Precedes(list[j], list[i])

SortedModes(modes) ==
    CHOOSE list \in Bijection(1 .. Cardinality(modes), modes) : InOrder(list)

\* rebuild asks the game's reserve for room only when the buffer is too small.
AsksForRoom(reported, room) == Cardinality(ModesToList(reported)) > room

\* The room rebuild finds afterwards, 0 for no buffer.  reserve is the game's: it
\* makes room, or fails, with or without the buffer there was; its answer is not
\* looked at.
RoomAfter(reported, room) ==
    {room} \union IF AsksForRoom(reported, room)
                  THEN {0, Cardinality(ModesToList(reported))} ELSE {}

\* The number of modes rebuild copies into a buffer of that room: all or none.
Copied(reported, room) ==
    IF room = 0 THEN 0 ELSE Cardinality(ModesToList(reported))

CountLimit == 65536     \* the count has 16 bits

\* The number it publishes: it has cleared the count first and leaves it so
\* wherever it gives up.
Published(reported, room) == Copied(reported, room) % CountLimit

\* ClampModeIndex, in front of the game's lookup: whether the lookup runs,
\* and with which index.  "zeroed": the callback answers for it.
GuardedIndex(owner, count, index) ==
    IF ~owner \/ index < count THEN [runs |-> TRUE, index |-> index]
    ELSE IF count # 0 THEN [runs |-> TRUE, index |-> count - 1]
    ELSE [runs |-> FALSE, index |-> index]

-----------------------------------------------------------------------------
(* The aspect ratio.  fits: the fix is on and the player is in the game.   *)
(* A setting that is not positive asks for the display's own ratio.        *)

DefaultAspect == <<16, 9>>

Given(setting) == setting[1] > 0
Known(display) == display[1] > 0 /\ display[2] > 0

\* The ratio to draw at in the game; neither: the size of the display is unknown.
RatioAsked(setting, display, neither) ==
    IF Given(setting) THEN setting
    ELSE IF Known(display) THEN display ELSE neither

\* ViewportRatioLoad: the ratio it loads the inverse of.  stale: what xmm0 happens
\* to hold, for the load that would have set it has been erased.
RatioLoaded(fits, setting, display, stale) ==
    IF fits THEN RatioAsked(setting, display, stale) ELSE DefaultAspect

\* ViewportRatioLoad: the aspect it leaves for the field of view.
AspectStored(fits, setting, display, aspect) ==
    IF fits THEN RatioAsked(setting, display, aspect) ELSE aspect

\* ViewportRatioMul: the ratio it multiplies by.
RatioMultiplied(fits, setting, display) ==
    IF ~fits THEN DefaultAspect
    ELSE IF Given(setting) THEN setting
    ELSE IF display[2] > 0 THEN display ELSE <<1, 1>>

\* on_reload
AspectReloaded(setting, aspect) == IF Given(setting) THEN setting ELSE aspect

\* CoordTransformHook, off: the factor of x and that of y, for a size of 16 a
\* by 9 b.
CoordFactors(enabled, a, b) ==
    IF enabled THEN [x |-> <<1, 1>>, y |-> <<1, 1>>]
    ELSE IF b > a THEN [x |-> <<1, 1>>, y |-> <<b, a>>]
    ELSE [x |-> <<a, b>>, y |-> <<1, 1>>]

-----------------------------------------------------------------------------
(* The picture of the interface.  Sizes are multiples of the 1280x720 the  *)
(* interface is drawn for, times Full: a screen of 16:9 has width = height,*)
(* and fitting to 16:9 takes the smaller.  A stretch goes from 0 to Full.  *)

Full == 100

Stretched(size, to, stretch) == Full * size + stretch * (to - size)

\* ViewportScalingBranch, switched on.
FittedPicture(w, h, stretch_v, stretch_h) ==
    IF w <= h
    THEN LET height == Stretched(Smaller(h, w), h, stretch_v)
         IN  [width |-> Full * w, height |-> height, scale |-> height,
              stretch |-> stretch_v]
    ELSE LET width == Stretched(Smaller(w, h), w, stretch_h)
         IN  [width |-> width, height |-> Full * h, scale |-> width,
              stretch |-> stretch_h]

\* Switched off: 16 w > 9 h, in these sizes, is a screen wider than high.
GamesPicture(w, h) ==
    IF 16 * w > 9 * h
    THEN LET height == Full * Smaller(h, w)
         IN  [width |-> Full * w, height |-> height, scale |-> height,
              stretch |-> 0]
    ELSE LET width == Full * Smaller(w, h)
         IN  [width |-> width, height |-> Full * h, scale |-> width,
              stretch |-> 0]

\* ScalingOffsetsHook: what is left of the margins under the stretch that the
\* branch put down, not the one the INI gives now.
MarginLeft(margin, picture) == margin * (Full - picture.stretch)

-----------------------------------------------------------------------------
(* The field of view and the flag for several monitors.                    *)

FovModes == {"Auto", "VertPlus", "HorPlus"}

\* compute_hor_plus_correction: atan grows with its argument, so the
\* correction is on the side of 16:9 / aspect.  Aspects are nearer than the
\* tolerance of 10^-6 only when they are equal.
HorPlusCorrection(aspect) ==
    LET w == 9 * aspect[1]  h == 16 * aspect[2]
    IN  IF aspect[1] <= 0 \/ w = h THEN "same"
        ELSE IF w < h THEN "wider" ELSE "narrower"

\* FOVCorrectionFunctor, before the multiplier.
FovChange(enabled, mode, aspect) ==
    IF /\ enabled
       /\ \/ mode = "HorPlus"
          \/ mode = "Auto" /\ 9 * aspect[1] < 16 * aspect[2]
    THEN HorPlusCorrection(aspect) ELSE "same"

\* DisplayFlagHook; own is the flag the erased code leaves.
SeveralMonitors(enabled, mode, display, own) ==
    IF ~enabled THEN own
    ELSE \/ mode = "ForceMulti"
         \/ mode = "Auto" /\ display[2] > 0 /\ display[1] >= 4 * display[2]
=============================================================================
