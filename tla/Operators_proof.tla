-------------------------- MODULE Operators_proof --------------------------
(***************************************************************************)
(* What the code that only computes promises: the operators without a      *)
(* state, for every display, mode, mouse, clock, INI and executable, and   *)
(* the compile-time sort of the hooks, for every number of hooks and every *)
(* dependency graph on them.                                               *)
(***************************************************************************)
EXTENDS RogueDisplay, TopoSort, TLAPS, FiniteSetTheorems, SequenceTheorems

Motion == INSTANCE RogueMotion
Syndicate == INSTANCE SyndicateCallbacks
Ini == INSTANCE IniValues

CONSTANT Width
Image == INSTANCE ImageLayout

-----------------------------------------------------------------------------
(* Numbers.                                                                *)

\* A set of naturals that is not empty has a least member.
LEMMA LeastOf ==
    ASSUME NEW T \in SUBSET Nat, T # {}
    PROVE  \E t \in T : \A u \in T : t <= u
<1>1. PICK t \in T : \A u \in T : <<u, t>> \notin OpToRel(<, Nat)
  BY NatLessThanWellFounded, WFMin
<1>2. \A u \in T : ~(u < t)
  BY <1>1 DEF OpToRel
<1> QED  BY <1>2

\* A finite set of numbers has a greatest one.
LEMMA GreatestOf ==
    ASSUME NEW S \in SUBSET Nat, IsFiniteSet(S), S # {}
    PROVE  \E m \in S : \A n \in S : n <= m
<1> DEFINE Above(m) == {n \in S : n > m}
           T == {Above(m) : m \in S}
           R == StrictSubsetOrdering(S)
<1>1. \A x \in S : x \in Nat
    OBVIOUS
<1>2. IsWellFoundedOn(R, SUBSET S)
    <2>1. IsWellFoundedOn(R, FiniteSubsetsOf(S))
        BY FS_StrictSubsetOrderingWellFounded
    <2>2. FiniteSubsetsOf(S) = SUBSET S
        BY FS_FiniteSubsetsOfFinite
    <2> QED BY <2>1, <2>2
<1>3. T \subseteq SUBSET S /\ T # {}
    OBVIOUS
<1>4. \E x \in T : \A y \in T : ~(<<y, x>> \in R)
    <2> HIDE DEF R, T
    <2> QED BY <1>2, <1>3, WFMin
<1>5. PICK m \in S : \A n \in S : ~(<<Above(n), Above(m)>> \in R)
    BY <1>4
<1>6. ASSUME NEW n \in S, n > m PROVE FALSE
    <2>1. Above(n) \subseteq Above(m) /\ Above(n) # Above(m)
        <3>1. n \in Above(m) /\ n \notin Above(n)
            BY <1>1, <1>6
        <3>2. \A x \in S : x > n => x > m
            BY <1>1, <1>6
        <3> QED BY <3>1, <3>2
    <2>2. <<Above(n), Above(m)>> \in R
        BY <2>1 DEF StrictSubsetOrdering
    <2> QED BY <1>5, <2>2
<1> QED BY <1>6

-----------------------------------------------------------------------------
(* Display modes.                                                          *)

\* The list of a finite set of modes has a length.
LEMMA UsableModes ==
    ASSUME NEW reported, IsFiniteSet(reported)
    PROVE  Cardinality(ModesToList(reported)) \in Nat
<1>1. IsFiniteSet(ModesToList(reported))
    BY FS_Subset DEF ModesToList
<1> QED BY <1>1, FS_CardinalityType

\* rebuild overruns the buffer it copies into in one case only: there was a buffer,
\* it was too small, and reserve failed and kept it.  Its answer would have told.
THEOREM ModesFitUnlessKept ==
    ASSUME NEW reported, IsFiniteSet(reported),
           NEW room \in Nat, NEW after \in RoomAfter(reported, room)
    PROVE  Copied(reported, after) > after
             <=> after = room /\ room # 0 /\ AsksForRoom(reported, room)
<1> DEFINE n == Cardinality(ModesToList(reported))
<1>1. n \in Nat
    BY UsableModes
<1>2. after = room \/ (n > room /\ after \in {0, n})
    BY DEF RoomAfter, AsksForRoom
<1>3. Copied(reported, after) = IF after = 0 THEN 0 ELSE n
    BY DEF Copied
<1>4. AsksForRoom(reported, room) <=> n > room
    BY DEF AsksForRoom
<1> HIDE DEF n
<1> QED BY <1>1, <1>2, <1>3, <1>4

\* The lookup of the game has no bounds check; behind the guard it runs only
\* with an index into the list that rebuild published, or where there is no
\* list to look into, whatever index the settings hold.
THEOREM LookupStaysInList ==
    ASSUME NEW reported, IsFiniteSet(reported), NEW room \in Nat,
           NEW index \in Nat,
           GuardedIndex(TRUE, Published(reported, room), index).runs
    PROVE  GuardedIndex(TRUE, Published(reported, room), index).index
             \in 0 .. Published(reported, room) - 1
<1> DEFINE count == Published(reported, room)
<1>1. Cardinality(ModesToList(reported)) \in Nat
    BY UsableModes
<1>2. count \in Nat
    BY <1>1 DEF Published, Copied, CountLimit
<1> HIDE DEF count
<1> QED BY <1>2 DEF GuardedIndex, count

-----------------------------------------------------------------------------
(* The display.                                                            *)

\* In the game, on a display whose size is known, the two callbacks of
\* ViewportFitting work with one ratio, so the pictures they scale match.
THEOREM RatiosAgree ==
    ASSUME NEW setting, NEW display, NEW stale, Known(display), NEW fits
    PROVE  RatioLoaded(fits, setting, display, stale)
             = RatioMultiplied(fits, setting, display)
    BY DEF RatioLoaded, RatioAsked, RatioMultiplied, Known

\* The interface is never larger than the screen and always reaches two of
\* its edges; without a stretch it is 16:9, with all of it the whole screen.
THEOREM PictureFitsScreen ==
    ASSUME NEW w \in Nat, NEW h \in Nat,
           NEW stretch_v \in 0 .. Full, NEW stretch_h \in 0 .. Full,
           NEW picture,
           picture = FittedPicture(w, h, stretch_v, stretch_h)
    PROVE  /\ picture.width <= Full * w /\ picture.height <= Full * h
           /\ picture.width = Full * w \/ picture.height = Full * h
           /\ picture.stretch = 0 => picture.width = picture.height
           /\ picture.stretch = Full =>
                picture.width = Full * w /\ picture.height = Full * h
<1>1. ASSUME NEW size \in Nat, NEW to \in Nat, size <= to,
             NEW stretch \in 0 .. Full
      PROVE  /\ Stretched(size, to, stretch) <= Full * to
             /\ stretch = 0 => Stretched(size, to, stretch) = Full * size
             /\ stretch = Full => Stretched(size, to, stretch) = Full * to
    <2>1. stretch * (to - size) <= Full * (to - size)
        BY <1>1 DEF Full
    <2>2. Full * size + Full * (to - size) = Full * to
        BY DEF Full
    <2> QED BY <1>1, <2>1, <2>2 DEF Stretched, Full
<1>2. CASE w <= h
    <2>1. Smaller(h, w) = w
        BY <1>2 DEF Smaller
    <2>2. /\ Stretched(w, h, stretch_v) <= Full * h
          /\ stretch_v = 0 => Stretched(w, h, stretch_v) = Full * w
          /\ stretch_v = Full => Stretched(w, h, stretch_v) = Full * h
        BY <1>1, <1>2
    <2>3. /\ picture.width = Full * w /\ picture.stretch = stretch_v
          /\ picture.height = Stretched(w, h, stretch_v)
        BY <1>2, <2>1 DEF FittedPicture
    <2> QED BY <2>2, <2>3 DEF Full
<1>3. CASE ~(w <= h)
    <2>1. Smaller(w, h) = h /\ h <= w
        BY <1>3 DEF Smaller
    <2>2. /\ Stretched(h, w, stretch_h) <= Full * w
          /\ stretch_h = 0 => Stretched(h, w, stretch_h) = Full * h
          /\ stretch_h = Full => Stretched(h, w, stretch_h) = Full * w
        BY <1>1, <2>1
    <2>3. /\ picture.height = Full * h /\ picture.stretch = stretch_h
          /\ picture.width = Stretched(h, w, stretch_h)
        BY <1>3, <2>1 DEF FittedPicture
    <2> QED BY <2>2, <2>3 DEF Full
<1> QED BY <1>2, <1>3

\* Left to itself the field of view is widened where the screen is narrower
\* than 16:9 and never narrowed.
THEOREM AutoNeverNarrows ==
    ASSUME NEW aspect \in Int \X Int, NEW enabled \in BOOLEAN
    PROVE  FovChange(enabled, "Auto", aspect) \in {"same", "wider"}
    BY DEF FovChange, HorPlusCorrection

-----------------------------------------------------------------------------
(* The mouse.                                                              *)

\* A clamped value is between the bounds.
LEMMA ClampStays ==
    ASSUME NEW x \in Int, NEW limit \in Nat
    PROVE  /\ Motion!Clamp(x, -limit, limit) \in Int
           /\ Motion!Within(Motion!Clamp(x, -limit, limit), limit)
           /\ Motion!Within(x, limit) => Motion!Clamp(x, -limit, limit) = x
    BY DEF Motion!Clamp, Motion!Smallest, Motion!Within

\* Rounding to the nearest count changes a delta by half a count at most.
LEMMA RoundingIsNear ==
    ASSUME NEW delta \in Int, NEW half \in Nat \ {0}
    PROVE  /\ Motion!Handed(delta, half) \in Int
           /\ -half <= Motion!Handed(delta, half) - delta
           /\ Motion!Handed(delta, half) - delta <= half
<1> DEFINE count == 2 * half
<1>1. count \in Nat \ {0}
    OBVIOUS
<1>2. ASSUME NEW x \in Nat
      PROVE  /\ count * ((x + half) \div count) \in Int
             /\ -half <= count * ((x + half) \div count) - x
             /\ count * ((x + half) \div count) - x <= half
    <2> DEFINE y == x + half
               q == y \div count
    <2>1. y \in Int
        OBVIOUS
    <2> HIDE DEF y, count
    <2>2. q \in Int /\ count * q <= y /\ y < count * q + count
        BY <1>1, <2>1, Z3
    <2> HIDE DEF q
    <2>3. count * q \in Int
        BY <1>1, <2>2
    <2>4. y = x + half /\ count = 2 * half
        BY DEF y, count
    <2>5. -half <= count * q - x /\ count * q - x <= half
        BY <2>2, <2>3, <2>4
    <2> QED BY <2>3, <2>5 DEF q, y
<1>3. CASE delta < 0
    <2> DEFINE x == -delta
               r == count * ((x + half) \div count)
    <2>1. x \in Nat /\ delta = -x
        BY <1>3
    <2>2. Motion!Handed(delta, half) = -r
        BY <1>3 DEF Motion!Handed
    <2>3. r \in Int /\ -half <= r - x /\ r - x <= half
        <3> HIDE DEF x, count
        <3> QED BY <1>2, <2>1
    <2> HIDE DEF r, x
    <2> QED BY <2>1, <2>2, <2>3
<1>4. CASE ~(delta < 0)
    <2>1. delta \in Nat
        BY <1>4
    <2>2. Motion!Handed(delta, half) = count * ((delta + half) \div count)
        BY <1>4 DEF Motion!Handed
    <2> HIDE DEF count
    <2> QED BY <1>2, <2>1, <2>2
<1> QED BY <1>3, <1>4

\* Whatever the mouse reports, what the camera gets is at most the limit, and half a
\* count more where the limit is not a whole number of counts.
THEOREM DeltaIsBounded ==
    ASSUME NEW estimate \in Int, NEW carry \in Int, NEW raw \in Int,
           NEW gain \in Nat \ {0}, NEW limit \in Nat, NEW half \in Nat \ {0},
           NEW filter, filter = [estimate |-> estimate, carry |-> carry]
    PROVE  Motion!Within(Motion!MouseDelta(TRUE, filter, raw, gain, limit, half),
                         limit + half)
<1> DEFINE delta == Motion!Delta(filter, raw, gain, limit)
<1>1. estimate + (raw + carry - estimate) * gain \in Int
    OBVIOUS
<1>2. delta \in Int /\ Motion!Within(delta, limit)
    BY <1>1, ClampStays DEF Motion!Delta
<1>3. Motion!MouseDelta(TRUE, filter, raw, gain, limit, half)
        = Motion!Handed(delta, half)
    BY DEF Motion!MouseDelta
<1> HIDE DEF delta
<1>4. /\ Motion!Handed(delta, half) \in Int
      /\ -half <= Motion!Handed(delta, half) - delta
      /\ Motion!Handed(delta, half) - delta <= half
    BY <1>2, RoundingIsNear
<1> DEFINE handed == Motion!Handed(delta, half)
<1> HIDE DEF handed
<1>5. handed \in Int /\ -half <= handed - delta /\ handed - delta <= half
    BY <1>4 DEF handed
<1>6. -limit <= delta /\ delta <= limit
    BY <1>2 DEF Motion!Within
<1>7. -(limit + half) <= handed /\ handed <= limit + half
    BY <1>2, <1>5, <1>6
<1> QED BY <1>3, <1>7 DEF Motion!Within, handed

\* What the quotient of two whole numbers leaves over.
LEMMA Division ==
    ASSUME NEW x \in Int, NEW gain \in Nat \ {0}
    PROVE  (x * gain) \div gain = x
    BY Z3

\* Where the output is not clamped, the lag of the game as the filter estimates it
\* lands on the motion of the mouse and on what was owed, and nothing is owed any
\* more.  GapStaysSmall says how far the game is from the estimate.
THEOREM LagIsCancelled ==
    ASSUME NEW estimate \in Int, NEW carry \in Int, NEW raw \in Int,
           NEW gain \in Nat \ {0}, NEW limit \in Nat,
           NEW filter, filter = [estimate |-> estimate, carry |-> carry],
           Motion!Within(estimate + (raw + carry - estimate) * gain, limit)
    PROVE  Motion!Applied(filter, raw, gain, limit)
             = [estimate |-> raw + carry, carry |-> 0]
<1> DEFINE owed == raw + carry - estimate
<1>1. owed \in Int /\ estimate + owed * gain \in Int
    OBVIOUS
<1>2. Motion!Delta(filter, raw, gain, limit) = estimate + owed * gain
    BY <1>1, ClampStays DEF Motion!Delta
<1>3. (estimate + owed * gain - estimate) \div gain = owed
    BY <1>1, Division
<1>4. Motion!Lagged(estimate, Motion!Delta(filter, raw, gain, limit), gain)
        = raw + carry
    BY <1>1, <1>2, <1>3 DEF Motion!Lagged
<1>5. Motion!Clamp(raw + carry - (raw + carry), -limit, limit) = 0
    BY DEF Motion!Clamp, Motion!Smallest
<1> QED BY <1>4, <1>5 DEF Motion!Applied

\* Where it is clamped, what the estimate falls short by is carried: no motion is
\* lost to the clamp as long as the carry itself does not reach the limit.
THEOREM MotionIsKept ==
    ASSUME NEW estimate \in Int, NEW carry \in Int, NEW raw \in Int,
           NEW gain \in Nat \ {0}, NEW limit \in Nat,
           NEW filter, filter = [estimate |-> estimate, carry |-> carry],
           NEW after, after = Motion!Applied(filter, raw, gain, limit),
           Motion!Within(raw + carry - after.estimate, limit)
    PROVE  after.estimate + after.carry = raw + carry
<1> DEFINE delta == Motion!Delta(filter, raw, gain, limit)
<1>1. delta \in Int
    <2>1. estimate + (raw + carry - estimate) * gain \in Int
        OBVIOUS
    <2> QED BY <2>1, ClampStays DEF Motion!Delta
<1>2. after.estimate \in Int
    <2>1. (delta - estimate) \div gain \in Int
        BY <1>1
    <2> HIDE DEF delta
    <2> QED BY <1>1, <2>1 DEF Motion!Applied, Motion!Lagged, delta
<1>3. after.carry
        = Motion!Clamp(raw + carry - after.estimate, -limit, limit)
    BY DEF Motion!Applied
<1> QED BY <1>2, <1>3, ClampStays

\* How far two quotients of one divisor are apart, with their difference weighed
\* against that of the dividends: g + x / gain - y / gain is between -b and b where
\* gain * g + (x - y) is between gain times that.
LEMMA QuotientsApart ==
    ASSUME NEW x \in Int, NEW y \in Int, NEW g \in Int, NEW b \in Int,
           NEW gain \in Nat \ {0}, gain * g + (x - y) <= gain * b
    PROVE  g + (x \div gain) - (y \div gain) <= b
<1> DEFINE qx == x \div gain
           qy == y \div gain
<1>1. /\ qx \in Int /\ gain * qx <= x
      /\ qy \in Int /\ y < gain * qy + gain
    BY Z3
<1> HIDE DEF qx, qy
<1>2. SUFFICES ASSUME g + qx - qy >= b + 1 PROVE FALSE
    BY <1>1 DEF qx, qy
<1>3. gain * (g + qx - qy) >= gain * (b + 1)
    BY <1>1, <1>2
<1>4. /\ gain * (g + qx - qy) = gain * g + gain * qx - gain * qy
      /\ gain * (b + 1) = gain * b + gain
    BY <1>1
<1>5. /\ gain * g \in Int /\ gain * qx \in Int /\ gain * qy \in Int
      /\ gain * b \in Int
    BY <1>1
<1> QED BY <1>1, <1>3, <1>4, <1>5

\* Two lags that follow nearly the same input stay as near to each other as that.
LEMMA LagsStayNear ==
    ASSUME NEW a \in Int, NEW b \in Int, NEW p \in Int, NEW q \in Int,
           NEW gain \in Nat \ {0}, NEW bound \in Nat,
           a - b <= bound, p - q <= bound
    PROVE  a + ((p - a) \div gain) - (b + ((q - b) \div gain)) <= bound
<1> DEFINE x == p - a
           y == q - b
           g == a - b
<1>1. x \in Int /\ y \in Int /\ g \in Int
    OBVIOUS
<1>2. (x - y) + g <= bound /\ g <= bound
    OBVIOUS
<1>3. g + (x \div gain) - (y \div gain) <= bound
    <2> HIDE DEF x, y, g
    <2>1. (gain - 1) * g <= (gain - 1) * bound
        <3>1. gain - 1 \in Nat
            OBVIOUS
        <3> QED BY <1>1, <1>2, <3>1
    <2>2. /\ (gain - 1) * g = gain * g - g
          /\ (gain - 1) * bound = gain * bound - bound
        BY <1>1
    <2>3. gain * g \in Int /\ gain * bound \in Int
        BY <1>1
    <2>4. gain * g + (x - y) <= gain * bound
        BY <1>1, <1>2, <2>1, <2>2, <2>3
    <2> QED BY <1>1, <2>4, QuotientsApart
<1>4. x \div gain \in Int /\ y \div gain \in Int
    <2> HIDE DEF x, y
    <2> QED BY <1>1
<1> QED BY <1>3, <1>4

\* Neither gets further ahead of the other.
LEMMA LagsStayWithin ==
    ASSUME NEW a \in Int, NEW b \in Int, NEW p \in Int, NEW q \in Int,
           NEW gain \in Nat \ {0}, NEW bound \in Nat,
           a - b <= bound, b - a <= bound, p - q <= bound, q - p <= bound
    PROVE  LET x == a + ((p - a) \div gain)
               y == b + ((q - b) \div gain)
           IN  x - y <= bound /\ y - x <= bound
<1>1. a + ((p - a) \div gain) - (b + ((q - b) \div gain)) <= bound
    BY LagsStayNear
<1>2. b + ((q - b) \div gain) - (a + ((p - a) \div gain)) <= bound
    BY LagsStayNear
<1> QED BY <1>1, <1>2

\* The filter goes on with what it has worked out, the game with that rounded, and
\* reset puts the estimate where the mouse is, not where the lag of the game is.
\* The gap between the two stays within half a count, or, where it was wider, does
\* not grow: the roundings of many frames do not add up.
THEOREM GapStaysSmall ==
    ASSUME NEW estimate \in Int, NEW carry \in Int, NEW raw \in Int,
           NEW gain \in Nat \ {0}, NEW limit \in Nat, NEW half \in Nat \ {0},
           NEW filter, filter = [estimate |-> estimate, carry |-> carry],
           NEW engine \in Int,
           NEW bound \in Nat, half <= bound,
           Motion!Within(engine - estimate, bound),
           NEW next, next = Motion!Applied(filter, raw, gain, limit).estimate,
           NEW landed,
           landed = Motion!Lagged(
                      engine,
                      Motion!MouseDelta(TRUE, filter, raw, gain, limit, half), gain)
    PROVE  Motion!Within(landed - next, bound)
<1> DEFINE delta == Motion!Delta(filter, raw, gain, limit)
           handed == Motion!Handed(delta, half)
<1>1. delta \in Int
    <2>1. estimate + (raw + carry - estimate) * gain \in Int
        OBVIOUS
    <2> QED BY <2>1, ClampStays DEF Motion!Delta
<1>2. next = estimate + ((delta - estimate) \div gain)
    <2>1. next = Motion!Lagged(filter.estimate, delta, gain)
        BY DEF Motion!Applied
    <2> QED BY <2>1 DEF Motion!Lagged
<1>3. landed = engine + ((handed - engine) \div gain)
    BY DEF Motion!Lagged, Motion!MouseDelta
<1> HIDE DEF delta
<1>4. handed \in Int /\ -half <= handed - delta /\ handed - delta <= half
    BY <1>1, RoundingIsNear
<1> HIDE DEF handed
<1>5. -bound <= engine - estimate /\ engine - estimate <= bound
    BY DEF Motion!Within
<1>6. /\ delta \in Int /\ handed \in Int
      /\ handed - delta <= bound /\ delta - handed <= bound
      /\ engine - estimate <= bound /\ estimate - engine <= bound
    BY <1>1, <1>4, <1>5
<1> DEFINE reached == engine + ((handed - engine) \div gain)
           kept == estimate + ((delta - estimate) \div gain)
<1>7. reached - kept <= bound /\ kept - reached <= bound
    BY <1>6, LagsStayWithin
<1>8. reached \in Int /\ kept \in Int
    <2>1. handed - engine \in Int /\ delta - estimate \in Int
        BY <1>1, <1>4
    <2> DEFINE x == handed - engine
               y == delta - estimate
    <2>2. x \in Int /\ y \in Int
        BY <2>1
    <2> HIDE DEF x, y
    <2>3. engine + (x \div gain) \in Int /\ estimate + (y \div gain) \in Int
        BY <2>2
    <2> QED BY <2>3 DEF x, y
<1>9. next = kept /\ landed = reached
    BY <1>2, <1>3
<1> HIDE DEF reached, kept
<1>10. Motion!Within(reached - kept, bound)
    BY <1>7, <1>8 DEF Motion!Within
<1> QED BY <1>9, <1>10, Zenon

-----------------------------------------------------------------------------
(* The sprint lean.                                                        *)

\* A hitch of the clock, backwards or long, never gets into the frame time,
\* and a frame time once measured is not lost.
THEOREM FrameTimeIsPlausible ==
    ASSUME NEW dt \in 0 .. Motion!MaxPlausibleDt,
           NEW prev \in Nat, NEW ticks \in Nat
    PROVE  /\ Motion!SmoothedDt(dt, prev, ticks) \in 0 .. Motion!MaxPlausibleDt
           /\ dt > 0 => Motion!SmoothedDt(dt, prev, ticks) > 0
    BY DEF Motion!SmoothedDt, Motion!MaxPlausibleDt

\* No frame multiplies the weight of a track by more than four or turns it
\* round.
THEOREM WeightIsBounded ==
    ASSUME NEW additive \in BOOLEAN, NEW entries, NEW fx \in Nat,
           NEW fps \in Int, NEW dt \in Int, NEW weight \in Nat
    PROVE  Motion!ScaledWeight(additive, entries, fx, fps, dt, weight)
             \in 0 .. Motion!MaxScale * weight
<1>1. ASSUME NEW x \in Int
      PROVE  Motion!Clamp(x, 0, Motion!MaxScale) \in 0 .. Motion!MaxScale
    BY DEF Motion!Clamp, Motion!Smallest, Motion!MaxScale
<1>2. dt * fps \in Int
    OBVIOUS
<1>3. weight * Motion!Clamp(dt * fps, 0, Motion!MaxScale)
        \in 0 .. Motion!MaxScale * weight
    <2>1. PICK scale \in 0 .. Motion!MaxScale :
            scale = Motion!Clamp(dt * fps, 0, Motion!MaxScale)
        BY <1>1, <1>2
    <2>2. weight * scale \in 0 .. Motion!MaxScale * weight
        BY DEF Motion!MaxScale
    <2> QED BY <2>1, <2>2
<1> QED BY <1>3 DEF Motion!ScaledWeight, Motion!MaxScale

-----------------------------------------------------------------------------
(* Settings.                                                               *)

\* What an INI may hold: for each of its keys one text.
Text ==
    [kind : {"word"}, padded : BOOLEAN, name : STRING]
      \union [kind : {"number", "prefix"}, padded : BOOLEAN, value : Int]
      \union [kind : {"nothing"}, padded : BOOLEAN]

\* A unit value is a share of one, whatever the text says.
LEMMA UnitIsClamped ==
    ASSUME NEW text \in Text
    PROVE  Ini!ParseUnit(text) \in 0 .. Ini!One
<1>1. Ini!ParseFloat(text) \in Int
    BY DEF Ini!ParseFloat, Ini!ParseFinite, Ini!IsFinite, Text
<1> QED BY <1>1 DEF Ini!ParseUnit, Ini!Between, Ini!One

\* Whatever the INI holds for the two stretches, or lacks, the interface stays
\* within the screen.
THEOREM AnyStretchFits ==
    ASSUME NEW w \in Nat, NEW h \in Nat,
           NEW keys, NEW ini \in [keys -> Text],
           NEW picture,
           picture = FittedPicture(w, h, Ini!StretchVertical(ini),
                                   Ini!StretchHorizontal(ini))
    PROVE  picture.width <= Full * w /\ picture.height <= Full * h
<1>1. Ini!StretchVertical(ini) \in 0 .. Full
    BY UnitIsClamped
    DEF Ini!StretchVertical, Ini!Loaded, Ini!One, Full
<1>2. Ini!StretchHorizontal(ini) \in 0 .. Full
    BY UnitIsClamped
    DEF Ini!StretchHorizontal, Ini!Loaded, Ini!One, Full
<1> QED BY <1>1, <1>2, PictureFitsScreen

\* No text of the INI makes a mode that a callback's switch has no case for,
\* where the code says std::unreachable.
THEOREM EveryModeHasACase ==
    ASSUME NEW keys, NEW ini \in [keys -> Text]
    PROVE  Ini!FovMode(ini) \in 0 .. 2 /\ Ini!MultiMonitor(ini) \in 0 .. 2
<1>1. Ini!FovTable \in [{"Auto", "VertPlus", "HorPlus"} -> 0 .. 3 - 1]
    BY DEF Ini!FovTable
<1>2. Ini!MonitorTable
        \in [{"Auto", "Single", "Multi", "Triple"} -> 0 .. 3 - 1]
    BY DEF Ini!MonitorTable
<1>3. ASSUME NEW text \in Text
      PROVE  Ini!ParseFovMode(text) \in 0 .. 2
    <2>1. Ini!ParseEnum(text, Ini!FovTable, 3, 0) \in 0 .. 3 - 1
        BY <1>1, SMTT(30) DEF Ini!ParseEnum
    <2> QED BY <2>1 DEF Ini!ParseFovMode
<1>4. ASSUME NEW text \in Text
      PROVE  Ini!ParseMultiMonitor(text) \in 0 .. 2
    <2>1. Ini!ParseEnum(text, Ini!MonitorTable, 3, 0) \in 0 .. 3 - 1
        BY <1>2, SMTT(30) DEF Ini!ParseEnum
    <2> QED BY <2>1 DEF Ini!ParseMultiMonitor
<1> QED BY <1>3, <1>4 DEF Ini!FovMode, Ini!MultiMonitor, Ini!Loaded

\* A number that only the cast makes a device type is still one the game knows.
THEOREM PromptIsKnown ==
    ASSUME NEW keys, NEW ini \in [keys -> Text]
    PROVE  Ini!PromptType(ini) \in {Ini!Xbox, Ini!PlayStation}
    BY DEF Ini!PromptType, Ini!Loaded, Ini!ParsePromptType

\* What may stand for an aspect ratio, and a ratio that can be divided by.
RatioText == Text \union [kind : {"ratio"}, width : Text, height : Text]
Proper(ratio) == ratio[1] > 0 /\ ratio[2] > 0

\* A ratio of the INI has a height, whatever the text says; one that is meant
\* to be used has a width as well.
LEMMA RatioHasHeight ==
    ASSUME NEW keys, NEW ini \in [keys -> RatioText]
    PROVE  /\ Ini!AspectRatio(ini)[2] > 0
           /\ Given(Ini!AspectRatio(ini)) => Proper(Ini!AspectRatio(ini))
<1>1. ASSUME NEW text \in RatioText
      PROVE  Ini!ParseRatio(text)[2] > 0
    <2>1. CASE text.kind # "ratio"
        BY <2>1 DEF Ini!ParseRatio, Ini!One
    <2>2. CASE text.kind = "ratio"
        <3>1. Ini!IsFinite(text.width) /\ Ini!IsFinite(text.height)
              /\ text.height.value > 0
              => Ini!ParseRatio(text) = <<text.width.value, text.height.value>>
            BY <2>2 DEF Ini!ParseRatio
        <3>2. ~(Ini!IsFinite(text.width) /\ Ini!IsFinite(text.height)
                /\ text.height.value > 0)
              => Ini!ParseRatio(text) = <<0, 1>>
            BY <2>2 DEF Ini!ParseRatio
        <3> QED BY <3>1, <3>2
    <2> QED BY <2>1, <2>2
<1>2. Ini!AspectRatio(ini)[2] > 0
    <2>1. CASE "AspectRatio" \in keys
        BY <1>1, <2>1 DEF Ini!AspectRatio, Ini!Loaded
    <2>2. CASE "AspectRatio" \notin keys
        BY <2>2 DEF Ini!AspectRatio, Ini!Loaded
    <2> QED BY <2>1, <2>2
<1> QED BY <1>2 DEF Given, Proper

\* Whatever the INI holds and whatever size the game reports: the aspect that a frame
\* or a reload leaves for the field of view has positive sides if the aspect before
\* had, and the other callback never divides by a height of zero.  The viewport is
\* drawn at a ratio that can be divided by as well, whatever xmm0 holds, but for one
\* case: the fix is on, the INI gives no ratio and the display has no size yet.
THEOREM AspectStaysPositive ==
    ASSUME NEW keys, NEW ini \in [keys -> RatioText],
           NEW fits \in BOOLEAN,
           NEW display \in Nat \X Nat,
           NEW aspect \in Int \X Int, Proper(aspect),
           NEW stale,
           NEW setting, setting = Ini!AspectRatio(ini)
    PROVE  /\ Proper(AspectStored(fits, setting, display, aspect))
           /\ Proper(AspectReloaded(setting, aspect))
           /\ RatioMultiplied(fits, setting, display)[2] > 0
           /\ ~fits \/ Given(setting) \/ Known(display)
                => Proper(RatioLoaded(fits, setting, display, stale))
<1>1. setting[2] > 0 /\ (Given(setting) => Proper(setting))
    BY RatioHasHeight
<1>2. Proper(DefaultAspect) /\ <<1, 1>>[2] > 0 /\ DefaultAspect[2] > 0
    BY DEF Proper, DefaultAspect
<1>3. Known(display) => Proper(display)
    BY DEF Known, Proper
<1>4. Proper(AspectStored(fits, setting, display, aspect))
    BY <1>1, <1>3 DEF AspectStored, RatioAsked
<1>5. Proper(AspectReloaded(setting, aspect))
    BY <1>1 DEF AspectReloaded
<1>6. RatioMultiplied(fits, setting, display)[2] > 0
    BY <1>1, <1>2 DEF RatioMultiplied
<1>7. ~fits \/ Given(setting) \/ Known(display)
        => Proper(RatioLoaded(fits, setting, display, stale))
    BY <1>1, <1>2, <1>3 DEF RatioLoaded, RatioAsked
<1> QED BY <1>4, <1>5, <1>6, <1>7

\* After the mirror the viewport is computed with the ratio the recompute was
\* given, whichever of the two ratios its gates choose.
THEOREM ViewportReadsMirror ==
    ASSUME NEW state, NEW ratio, NEW setting, NEW w, NEW h,
           ratio = Syndicate!RatioToMirror(setting, w, h), ratio # <<0, 0>>,
           NEW A, NEW C,
           state.active \in [gates : A, ratio_primary : C, ratio_fallback : C],
           state.computed \in [gates : A, ratio_primary : C, ratio_fallback : C],
           NEW after, after = Syndicate!MirrorAspect(TRUE, state, setting, w, h)
    PROVE  /\ Syndicate!RatioRead(after.active) = ratio
           /\ Syndicate!RatioRead(after.computed) = ratio
           /\ after.active.gates = after.computed.gates
    BY DEF Syndicate!MirrorAspect, Syndicate!RatioRead

-----------------------------------------------------------------------------
(* The filter of resolutions.                                              *)

\* The greatest common divisor is a common divisor, and none is greater.
LEMMA GcdIsGreatest ==
    ASSUME NEW w \in Nat \ {0}, NEW h \in Nat \ {0}
    PROVE  /\ Syndicate!Gcd(w, h) \in Syndicate!CommonDivisors(w, h)
           /\ \A e \in Syndicate!CommonDivisors(w, h) : e <= Syndicate!Gcd(w, h)
<1> DEFINE D == Syndicate!CommonDivisors(w, h)
<1>1. D \subseteq 1 .. w /\ 1 \in D
    <2>1. w % 1 = 0 /\ h % 1 = 0
        BY Z3
    <2>2. 1 \in 1 .. w
        OBVIOUS
    <2>3. D = {d \in 1 .. w : w % d = 0 /\ h % d = 0}
        BY DEF Syndicate!CommonDivisors
    <2> HIDE DEF D
    <2> QED BY <2>1, <2>2, <2>3
<1> HIDE DEF D
<1> DEFINE T == {w - d : d \in D}
<1>2. T \in SUBSET Nat /\ T # {}
    <2>1. \A d \in D : w - d \in Nat
        BY <1>1
    <2>2. w - 1 \in T
        BY <1>1
    <2> QED BY <2>1, <2>2
<1>3. PICK t \in T : \A u \in T : t <= u
    <2> HIDE DEF T
    <2> QED BY <1>2, LeastOf
<1>4. PICK d \in D : t = w - d
    BY <1>3
<1>5. \A e \in D : e <= d
    <2> SUFFICES ASSUME NEW e \in D PROVE e <= d
        OBVIOUS
    <2>1. w - d <= w - e
        BY <1>3, <1>4
    <2> QED BY <1>1, <2>1
<1>6. Syndicate!Gcd(w, h) = CHOOSE x \in D : \A e \in D : e <= x
    BY DEF Syndicate!Gcd, D
<1> QED BY <1>5, <1>6 DEF D

\* What a divisor divides is a multiple of it.
LEMMA Multiple ==
    ASSUME NEW x \in Nat, NEW d \in Nat \ {0}
    PROVE  /\ x % d = 0 => x = d * (x \div d)
           /\ x \div d \in Nat
    BY Z3

\* A multiple divided by what it is a multiple of.
LEMMA MultipleIsDivided ==
    ASSUME NEW p \in Nat, NEW k \in Nat \ {0}
    PROVE  (k * p) % k = 0 /\ (k * p) \div k = p
    BY Z3

\* A multiple of d that is positive is no smaller than d.
LEMMA MultipleIsLarger ==
    ASSUME NEW d \in Nat \ {0}, NEW m \in Int, d * m > 0
    PROVE  d <= d * m
    BY Z3

\* Sides without a common divisor have multiples that differ by one.
Coprime(p, q) == \E a, b \in Int : a * p - b * q = 1
Times(k, p, q, w, h) == w = k * p /\ h = k * q

\* A mode that is a whole number of times as large as such sides is reduced to
\* them.
LEMMA ModeIsReduced ==
    ASSUME NEW k \in Nat \ {0}, NEW p \in Nat \ {0}, NEW q \in Nat \ {0},
           Coprime(p, q), NEW w, NEW h, Times(k, p, q, w, h)
    PROVE  Syndicate!Gcd(w, h) = k /\ w \div k = p /\ h \div k = q
<1> DEFINE g == Syndicate!Gcd(w, h)
<1> USE DEF Times
<1>0. PICK a \in Int, b \in Int : a * p - b * q = 1
    BY DEF Coprime
<1>1. w \in Nat \ {0} /\ h \in Nat \ {0} /\ k <= w
    BY Z3
<1>2. /\ w % k = 0 /\ w \div k = p
      /\ h % k = 0 /\ h \div k = q
    BY MultipleIsDivided
<1>3. a * w - b * h = k
    <2>1. a * w - b * h = k * (a * p - b * q)
        BY Z3
    <2> QED BY <1>0, <2>1
<1>4. k \in Syndicate!CommonDivisors(w, h)
    BY <1>1, <1>2 DEF Syndicate!CommonDivisors
<1>5. ASSUME NEW e \in Syndicate!CommonDivisors(w, h) PROVE e <= k
    <2>1. e \in Nat \ {0} /\ w % e = 0 /\ h % e = 0
        BY <1>1 DEF Syndicate!CommonDivisors
    <2> DEFINE x == w \div e
               y == h \div e
    <2>2. w = e * x /\ h = e * y /\ x \in Int /\ y \in Int
        BY <1>1, <2>1, Multiple
    <2> HIDE DEF x, y
    <2>3. k = e * (a * x - b * y)
        <3>1. a * (e * x) - b * (e * y) = e * (a * x - b * y)
            BY <2>1, <2>2, Z3
        <3> QED BY <1>3, <2>2, <3>1
    <2>4. a * x - b * y \in Int
        BY <2>2
    <2> QED BY <2>1, <2>3, <2>4, MultipleIsLarger
<1>6. g = k
    <2>1. g \in Syndicate!CommonDivisors(w, h)
          /\ \A e \in Syndicate!CommonDivisors(w, h) : e <= g
        BY <1>1, GcdIsGreatest
    <2>2. g \in Nat
        BY <1>1, <2>1 DEF Syndicate!CommonDivisors
    <2> HIDE DEF g
    <2> QED BY <1>4, <1>5, <2>1, <2>2
<1> QED BY <1>2, <1>6

\* ResolutionFix keeps, of all modes, those whose sides are in one of the
\* standard proportions; only 21:9, which the list has as it is and not as the
\* 7:3 it reduces to, is not found.
THEOREM FilterKeepsProportions ==
    ASSUME NEW w \in Nat \ {0}, NEW h \in Nat \ {0}
    PROVE  Syndicate!IsStandardAspect(w, h) <=>
             \E r \in Syndicate!StandardAspects \ {<<21, 9>>} :
                w * r[2] = h * r[1]
<1> DEFINE g == Syndicate!Gcd(w, h)
           p == w \div g
           q == h \div g
<1>1. /\ g \in Nat \ {0} /\ w % g = 0 /\ h % g = 0
      /\ \A e \in Syndicate!CommonDivisors(w, h) : e <= g
    <2>1. /\ g \in Syndicate!CommonDivisors(w, h)
          /\ \A e \in Syndicate!CommonDivisors(w, h) : e <= g
        BY GcdIsGreatest
    <2> HIDE DEF g
    <2>2. g \in 1 .. w /\ w % g = 0 /\ h % g = 0
        BY <2>1 DEF Syndicate!CommonDivisors
    <2> QED BY <2>1, <2>2
<1>2. Syndicate!IsStandardAspect(w, h) <=> <<p, q>> \in Syndicate!StandardAspects
    BY DEF Syndicate!IsStandardAspect
<1> HIDE DEF g
<1>3. w = g * p /\ h = g * q /\ p \in Nat /\ q \in Nat
    BY <1>1, Multiple
<1> HIDE DEF p, q
<1>4. w * q = h * p
    <2>1. (g * p) * q = (g * q) * p
        BY <1>1, <1>3, Z3
    <2> QED BY <1>3, <2>1
<1>5. <<p, q>> # <<21, 9>>
    <2> SUFFICES ASSUME p = 21, q = 9 PROVE FALSE
        OBVIOUS
    <2>1. w = (3 * g) * 7 /\ h = (3 * g) * 3
        BY <1>1, <1>3
    <2>2. w % (3 * g) = 0 /\ h % (3 * g) = 0
        <3>1. 3 * g \in Nat \ {0}
            BY <1>1
        <3> QED BY <2>1, <3>1, MultipleIsDivided
    <2>3. 3 * g \in Syndicate!CommonDivisors(w, h)
        BY <1>1, <2>1, <2>2 DEF Syndicate!CommonDivisors
    <2> QED BY <1>1, <2>3
<1> DEFINE Reduced == {<<16, 9>>, <<8, 5>>, <<64, 27>>, <<43, 18>>,
                       <<32, 9>>, <<5, 4>>, <<4, 3>>, <<3, 2>>}
           Whole(r, k) == k \in Nat \ {0} /\ w = k * r[1] /\ h = k * r[2]
<1>6. ASSUME NEW k \in Nat \ {0}, NEW r \in Reduced,
             w = k * r[1], h = k * r[2]
      PROVE  Syndicate!IsStandardAspect(w, h)
    <2>1. Coprime(r[1], r[2])
        <3>1. /\ 4 * 16 - 7 * 9 = 1 /\ 2 * 8 - 3 * 5 = 1
              /\ 19 * 64 - 45 * 27 = 1 /\ 13 * 43 - 31 * 18 = 1
              /\ 2 * 32 - 7 * 9 = 1 /\ 1 * 5 - 1 * 4 = 1
              /\ 1 * 4 - 1 * 3 = 1 /\ 1 * 3 - 1 * 2 = 1
            OBVIOUS
        <3>2. /\ Coprime(16, 9) /\ Coprime(8, 5) /\ Coprime(64, 27)
              /\ Coprime(43, 18) /\ Coprime(32, 9) /\ Coprime(5, 4)
              /\ Coprime(4, 3) /\ Coprime(3, 2)
            BY <3>1 DEF Coprime
        <3> QED BY <3>2
    <2>2. /\ r[1] \in Nat \ {0} /\ r[2] \in Nat \ {0}
          /\ <<r[1], r[2]>> \in Syndicate!StandardAspects
        BY <1>6 DEF Syndicate!StandardAspects
    <2>3. <<p, q>> = <<r[1], r[2]>>
        <3> DEFINE m == r[1]
                   n == r[2]
        <3>1. /\ m \in Nat \ {0} /\ n \in Nat \ {0} /\ Coprime(m, n)
              /\ Times(k, m, n, w, h)
            BY <1>6, <2>1, <2>2 DEF Times
        <3> HIDE DEF m, n
        <3>2. Syndicate!Gcd(w, h) = k /\ w \div k = m /\ h \div k = n
            BY <3>1, ModeIsReduced
        <3>3. <<p, q>> = <<m, n>>
            BY <3>2 DEF p, q, g
        <3> QED BY <3>3 DEF m, n
    <2> QED BY <1>2, <2>2, <2>3
<1>7. ASSUME NEW r \in Syndicate!StandardAspects \ {<<21, 9>>},
             w * r[2] = h * r[1]
      PROVE  Syndicate!IsStandardAspect(w, h)
    <2>1. w * 9 = h * 16 => Whole(<<16, 9>>, 4 * w - 7 * h)
        BY DEF Whole
    <2>2. w * 5 = h * 8 => Whole(<<8, 5>>, 2 * w - 3 * h)
        BY DEF Whole
    <2>3. w * 27 = h * 64 => Whole(<<64, 27>>, 19 * w - 45 * h)
        BY DEF Whole
    <2>4. w * 18 = h * 43 => Whole(<<43, 18>>, 13 * w - 31 * h)
        BY DEF Whole
    <2>5. w * 9 = h * 32 => Whole(<<32, 9>>, 2 * w - 7 * h)
        BY DEF Whole
    <2>6. /\ w * 4 = h * 5 => Whole(<<5, 4>>, w - h)
          /\ w * 3 = h * 4 => Whole(<<4, 3>>, w - h)
          /\ w * 2 = h * 3 => Whole(<<3, 2>>, w - h)
        BY DEF Whole
    <2>7. \/ w * 9 = h * 16 \/ w * 5 = h * 8 \/ w * 27 = h * 64
          \/ w * 18 = h * 43 \/ w * 9 = h * 32
          \/ w * 4 = h * 5 \/ w * 3 = h * 4 \/ w * 2 = h * 3
        BY <1>7 DEF Syndicate!StandardAspects
    <2> HIDE DEF Whole
    <2>8. \E k \in Int, s \in Reduced : Whole(s, k)
        BY <2>1, <2>2, <2>3, <2>4, <2>5, <2>6, <2>7
    <2> QED BY <1>6, <2>8 DEF Whole
<1> QED
    BY <1>2, <1>4, <1>5, <1>7

-----------------------------------------------------------------------------
(* The layout of an executable.                                            *)

\* The sections of an image as the loader lays them out: in ascending order,
\* none reaching into the next.
LaidOut(sections) ==
    \A j, l \in DOMAIN sections :
        j < l => sections[j].rva
                   + Image!Larger(sections[j].virt, sections[j].raw)
                     <= sections[l].rva

\* In such an image the bytes looked at in the file are the bytes the loader
\* mapped, for every address that the file holds bytes for: the first section
\* that spans an address is the only one.
THEOREM OffsetIsTheMapped ==
    ASSUME Width \in Nat \ {0}, NEW n \in Nat,
           NEW sections \in [1 .. n -> Image!Section], LaidOut(sections),
           NEW k \in 1 .. n, NEW rva \in Nat,
           sections[k].rva + Image!Larger(sections[k].virt, sections[k].raw)
             < Width,
           sections[k].ptr + sections[k].raw < Width,
           sections[k].rva <= rva, rva < sections[k].rva + sections[k].raw
    PROVE  Image!FileOffset(sections, rva)
             = sections[k].ptr + (rva - sections[k].rva)
<1> DEFINE span(j) == Image!Larger(sections[j].virt, sections[j].raw)
<1>1. \A j \in 1 .. n :
        /\ sections[j].rva \in Nat /\ sections[j].virt \in Nat
        /\ sections[j].raw \in Nat /\ sections[j].ptr \in Nat
    <2>1. \A x \in 0 .. Width - 1 : x \in Nat
        OBVIOUS
    <2>2. \A j \in 1 .. n : sections[j] \in Image!Section
        OBVIOUS
    <2> QED BY <2>1, <2>2 DEF Image!Section
<1>2. \A j \in 1 .. n : span(j) \in Nat /\ sections[j].raw <= span(j)
    BY <1>1 DEF Image!Larger
<1>3. \A x \in Nat : x < Width => x % Width = x
    OBVIOUS
<1>4. \A x \in Nat : x % Width \in Nat /\ x % Width <= x
    OBVIOUS
<1>5. Image!Spans(sections[k], rva)
    BY <1>1, <1>2, <1>3 DEF Image!Spans
<1>6. ASSUME NEW j \in 1 .. n, Image!Spans(sections[j], rva)
      PROVE  j = k
    <2>1. sections[j].rva <= rva /\ rva < sections[j].rva + span(j)
        <3>1. rva < (sections[j].rva + span(j)) % Width
            BY <1>6 DEF Image!Spans
        <3> HIDE DEF span
        <3>2. sections[j].rva + span(j) \in Nat
            BY <1>1, <1>2
        <3> DEFINE end == sections[j].rva + span(j)
        <3> HIDE DEF end
        <3>3. end % Width \in Nat /\ end % Width <= end
            BY <1>4, <3>2 DEF end
        <3>4. rva < end
            BY <3>1, <3>2, <3>3 DEF end
        <3> QED BY <1>6, <3>4 DEF Image!Spans, end
    <2>2. ~(j < k)
        BY <1>1, <1>2, <2>1 DEF LaidOut
    <2>3. ~(k < j)
        <3>1. k < j => sections[k].rva + span(k) <= sections[j].rva
            BY DEF LaidOut
        <3> HIDE DEF span
        <3> QED BY <1>1, <1>2, <2>1, <3>1
    <2> QED BY <2>2, <2>3
<1>7. Image!Hits(sections, rva) = {k}
    BY <1>5, <1>6 DEF Image!Hits
<1>8. Image!FileOffset(sections, rva)
        = (sections[k].ptr + (rva - sections[k].rva)) % Width
    BY <1>7 DEF Image!FileOffset
<1>9. /\ sections[k].ptr + (rva - sections[k].rva) \in Nat
      /\ sections[k].ptr + (rva - sections[k].rva) < Width
    BY <1>1
<1> QED BY <1>3, <1>8, <1>9

\* What is written over the packer's patch is what the loader had mapped
\* there, and nothing else is written: a debugger finds ntdll as the file has
\* it, or the plugin says that it does not.
THEOREM BreakinIsRestored ==
    ASSUME Width \in Nat \ {0}, NEW n \in Nat,
           NEW sections \in [1 .. n -> Image!Section], LaidOut(sections),
           NEW k \in 1 .. n, NEW rva \in Nat,
           sections[k].rva + Image!Larger(sections[k].virt, sections[k].raw)
             < Width,
           sections[k].ptr + sections[k].raw < Width,
           sections[k].rva <= rva, rva < sections[k].rva + sections[k].raw,
           NEW file, NEW size, NEW code, NEW may_write \in BOOLEAN,
           \A j \in 0 .. Image!PrologueBytes - 1 : rva + j \in DOMAIN code,
           NEW after, after = Image!RestoreBreakin(rva, sections, file, size,
                                                   code, may_write),
           after.state \in {"clean", "restored"}
    PROVE  /\ \A j \in 0 .. Image!PrologueBytes - 1 :
                after.code[rva + j]
                  = file[sections[k].ptr + (rva - sections[k].rva) + j]
           /\ \A a \in DOMAIN code \ (rva .. rva + Image!PrologueBytes - 1) :
                after.code[a] = code[a]
<1> DEFINE offset == sections[k].ptr + (rva - sections[k].rva)
<1>1. Image!FileOffset(sections, rva) = offset
    BY OffsetIsTheMapped
<1> DEFINE original == Image!Prologue(file, offset)
<1> HIDE DEF offset
<1>2. \A j \in 0 .. Image!PrologueBytes - 1 : original[j] = file[offset + j]
    BY DEF Image!Prologue
<1>3. \/ after.code = code /\ Image!Prologue(code, rva) = original
      \/ after.code = Image!Overwritten(code, rva, original)
    BY <1>1 DEF Image!RestoreBreakin
<1> HIDE DEF original
<1>4. CASE after.code = code /\ Image!Prologue(code, rva) = original
    <2>1. \A j \in 0 .. Image!PrologueBytes - 1 :
            Image!Prologue(code, rva)[j] = code[rva + j]
        BY DEF Image!Prologue
    <2> QED BY <1>2, <1>4, <2>1 DEF offset
<1>5. CASE after.code = Image!Overwritten(code, rva, original)
    <2>1. ASSUME NEW j \in 0 .. Image!PrologueBytes - 1
          PROVE  after.code[rva + j] = original[j]
        <3>1. rva + j \in DOMAIN code
              /\ rva + j \in rva .. rva + Image!PrologueBytes - 1
              /\ (rva + j) - rva = j
            BY DEF Image!PrologueBytes
        <3> QED BY <1>5, <3>1 DEF Image!Overwritten
    <2>2. \A a \in DOMAIN code \ (rva .. rva + Image!PrologueBytes - 1) :
            after.code[a] = code[a]
        BY <1>5 DEF Image!Overwritten
    <2> QED BY <1>2, <2>1, <2>2 DEF offset
<1> QED BY <1>3, <1>4, <1>5

\* However .text is mapped, the range that is searched for the patterns holds
\* every executable page of it and neither begins nor ends in any other.
THEOREM RangeHoldsText ==
    ASSUME NEW regions, IsFiniteSet(regions),
           \A r \in regions : r.base \in Nat /\ r.end \in Nat,
           Image!Executable(regions) # {},
           NEW range, range = Image!ScanRange(regions)
    PROVE  /\ \A r \in Image!Executable(regions) :
                range.begin <= r.base /\ r.end <= range.end
           /\ \E r \in Image!Executable(regions) : range.begin = r.base
           /\ \E r \in Image!Executable(regions) : range.end = r.end
<1> DEFINE X == Image!Executable(regions)
           B == {r.base : r \in X}
           E == {r.end : r \in X}
<1>1. X \subseteq regions /\ X # {}
    BY DEF Image!Executable
<1>2. IsFiniteSet(X)
    BY <1>1, FS_Subset
<1> HIDE DEF X
<1>3. IsFiniteSet(E)
    <2> DEFINE f == [r \in X |-> r.end]
    <2>1. f \in Surjection(X, E)
        BY DEF Surjection
    <2> HIDE DEF f, E
    <2> QED BY <1>2, <2>1, FS_Surjection
<1>4. B \in SUBSET Nat /\ B # {} /\ E \in SUBSET Nat /\ E # {}
    BY <1>1
<1>5. range = [begin |-> CHOOSE b \in B : \A r \in X : b <= r.base,
               end |-> CHOOSE e \in E : \A r \in X : r.end <= e]
    BY <1>1 DEF Image!ScanRange, X
<1>6. \E b \in B : \A r \in X : b <= r.base
    <2>1. PICK b \in B : \A c \in B : b <= c
        <3> HIDE DEF B
        <3> QED BY <1>4, LeastOf
    <2> QED BY <2>1
<1>7. \E e \in E : \A r \in X : r.end <= e
    <2>1. PICK e \in E : \A c \in E : c <= e
        <3> HIDE DEF E
        <3> QED BY <1>3, <1>4, GreatestOf
    <2> QED BY <2>1
<1>8. range.begin \in B /\ \A r \in X : range.begin <= r.base
    <2> HIDE DEF B, E
    <2> QED BY <1>5, <1>6
<1>9. range.end \in E /\ \A r \in X : r.end <= range.end
    <2> HIDE DEF B, E
    <2> QED BY <1>5, <1>7
<1> QED BY <1>8, <1>9 DEF X

-----------------------------------------------------------------------------
(* Dependency sort: the invariant.  Every hook has as many slots in the     *)
(* rows of adj as it has dependencies, in_degree counts those the drain    *)
(* loop has not been to, and the hooks without one left are the queue.     *)

\* The slots of adj that hold h, and whether the drain loop has been there.
Slots(h) ==
    {e \in Hook \X (1 .. N) : e[2] <= Len(adj[e[1]]) /\ adj[e[1]][e[2]] = h}
Relaxed(e) ==
    \E j \in 1 .. Len(queue) :
        queue[j] = e[1] /\ (j <= front \/ (j = front + 1 /\ e[2] <= i))
Draining == pc \in {"drain", "done"}
Open(h) == {e \in Slots(h) : Draining => ~Relaxed(e)}

\* in_degree counts the slots that are still to be relaxed.
CountInv ==
    pc # "overflow" =>
        \A h \in Hook : inDegree[h] = Cardinality(Open(h))

\* A hook is in the rows of its dependencies once its turn has come.
Listed(h) ==
    \A d \in Hook : d \in AllDeps(h) <=> \E e \in Slots(h) : e[1] = d
ListInv ==
    pc # "overflow" =>
        \A h \in Hook :
            IF pc = "edges" /\ h >= i THEN Slots(h) = {} ELSE Listed(h)

\* Without a doubled dependency every turn adds at most one to a row.
Doubled == \E h \in Hook : hard[h] \intersect soft[h] # {}
RowInv ==
    \/ Doubled
    \/ pc = "edges" /\ \A d \in Hook : Len(adj[d]) <= i
    \/ pc \notin {"edges", "overflow"}

\* The queue holds, once each, the hooks without open dependencies.
Queued(h) == \E j \in 1 .. Len(queue) : queue[j] = h
QueueInv ==
    /\ \A j, k \in 1 .. Len(queue) : queue[j] = queue[k] => j = k
    /\ pc \in {"edges", "overflow"} => queue = <<>>
    /\ ~Draining => front = 0
    /\ pc = "done" => front = Len(queue)
    /\ \A h \in Hook : Queued(h) <=>
         inDegree[h] = 0 /\ (Draining \/ (pc = "seed" /\ h < i))

OrderInv ==
    \A m \in 1 .. Len(queue) : \A d \in AllDeps(queue[m]) :
        \E j \in 1 .. (m - 1) : queue[j] = d

SortInv ==
    TypeOK /\ CountInv /\ ListInv /\ RowInv /\ QueueInv /\ OrderInv

-----------------------------------------------------------------------------
(* Dependency sort: counting.                                              *)

\* Sets of hooks are finite.
LEMMA HooksAreFinite ==
    /\ N \in Nat /\ N > 0
    /\ IsFiniteSet(Hook) /\ Cardinality(Hook) = N
    /\ \A S \in SUBSET Hook : /\ IsFiniteSet(S)
                              /\ Cardinality(S) \in 0 .. N
                              /\ Cardinality(S) = N => S = Hook
<1>1. N \in Nat /\ N > 0
  BY SizeAssumption
<1>2. IsFiniteSet(Hook) /\ Cardinality(Hook) = N
  BY <1>1, FS_Interval DEF Hook
<1>3. ASSUME NEW S \in SUBSET Hook
      PROVE  /\ IsFiniteSet(S) /\ Cardinality(S) \in 0 .. N
             /\ Cardinality(S) = N => S = Hook
  BY <1>1, <1>2, <1>3, FS_Subset, FS_CardinalityType
<1> QED  BY <1>1, <1>2, <1>3

\* The slots are pairs of a row and a place in it, finitely many.
LEMMA SlotsAreFinite ==
    ASSUME NEW h \in Hook
    PROVE  IsFiniteSet(Slots(h)) /\ IsFiniteSet(Open(h))
           /\ Cardinality(Open(h)) \in Nat
           /\ (Cardinality(Open(h)) = 0 <=> Open(h) = {})
<1>1. IsFiniteSet(Hook \X (1 .. N))
  <2>1. IsFiniteSet(1 .. N)
    BY HooksAreFinite, FS_Interval
  <2> QED  BY <2>1, HooksAreFinite, FS_Product
<1>2. Slots(h) \subseteq Hook \X (1 .. N) /\ Open(h) \subseteq Slots(h)
  BY DEF Slots, Open
<1>3. IsFiniteSet(Slots(h))
  BY <1>1, <1>2, FS_Subset
<1>4. IsFiniteSet(Open(h))
  BY <1>2, <1>3, FS_Subset
<1> QED  BY <1>3, <1>4, FS_CardinalityType, FS_EmptySet

\* A sequence without repetitions is as long as the set of its elements.
LEMMA QueueCounts ==
    ASSUME NEW q \in Seq(Hook),
           \A j, k \in 1 .. Len(q) : q[j] = q[k] => j = k
    PROVE  /\ Len(q) <= N
           /\ Len(q) = N <=> \A h \in Hook : \E j \in 1 .. Len(q) : q[j] = h
<1> DEFINE R == {h \in Hook : \E j \in 1 .. Len(q) : q[j] = h}
           f == [j \in 1 .. Len(q) |-> q[j]]
<1>1. Len(q) \in Nat /\ \A j \in 1 .. Len(q) : q[j] \in Hook
  BY LenProperties
<1>2. IsFiniteSet(1 .. Len(q)) /\ Cardinality(1 .. Len(q)) = Len(q)
  <2>1. 1 \in Int /\ Len(q) \in Int
    BY <1>1
  <2> HIDE DEF f, R
  <2>2. /\ IsFiniteSet(1 .. Len(q))
        /\ Cardinality(1 .. Len(q)) = IF 1 > Len(q) THEN 0 ELSE Len(q) - 1 + 1
    BY <2>1, FS_Interval
  <2> QED  BY <1>1, <2>2
<1>3. f \in Bijection(1 .. Len(q), R)
  <2>1. f \in [1 .. Len(q) -> R]
    BY <1>1
  <2>2. \A a, b \in 1 .. Len(q) : f[a] = f[b] => a = b
    OBVIOUS
  <2>3. \A r \in R : \E a \in 1 .. Len(q) : f[a] = r
    OBVIOUS
  <2> HIDE DEF f, R
  <2> QED  BY <2>1, <2>2, <2>3 DEF Bijection, Injection, Surjection, IsInjective
<1>4. Cardinality(R) = Len(q)
  <2> HIDE DEF f, R
  <2>1. ExistsBijection(1 .. Len(q), R)
    BY <1>3 DEF ExistsBijection
  <2> QED  BY <1>2, <2>1, FS_Bijection
<1>5. /\ Cardinality(R) \in 0 .. N
      /\ Cardinality(R) = N => R = Hook
  BY HooksAreFinite
<1>6. R = Hook => Cardinality(R) = N
  BY HooksAreFinite
<1>7. R = Hook <=> \A h \in Hook : \E j \in 1 .. Len(q) : q[j] = h
  OBVIOUS
<1> HIDE DEF R, f
<1>8. Len(q) <= N /\ (Len(q) = N <=> R = Hook)
  BY <1>4, <1>5, <1>6, HooksAreFinite
<1> QED  BY <1>7, <1>8

\* Queueing a hook that is not in the queue.
LEMMA QueueGrows ==
    ASSUME queue \in Seq(Hook), QueueInv, NEW v \in Hook, ~Queued(v),
           queue' = Append(queue, v)
    PROVE  /\ Len(queue) \in Nat
           /\ queue' \in Seq(Hook) /\ Len(queue') = Len(queue) + 1
           /\ Len(queue') <= N
           /\ queue'[Len(queue) + 1] = v
           /\ \A j \in 1 .. Len(queue) : queue'[j] = queue[j]
           /\ \A j, k \in 1 .. Len(queue') : queue'[j] = queue'[k] => j = k
           /\ \A h \in Hook : (Queued(h))' <=> Queued(h) \/ h = v
<1>1. /\ Len(queue) \in Nat
      /\ queue' \in Seq(Hook) /\ Len(queue') = Len(queue) + 1
      /\ queue'[Len(queue) + 1] = v
      /\ \A j \in 1 .. Len(queue) : queue'[j] = queue[j]
  OBVIOUS
<1>2. \A j, k \in 1 .. Len(queue') : queue'[j] = queue'[k] => j = k
  BY <1>1 DEF QueueInv, Queued
<1>3. \A h \in Hook : (Queued(h))' <=> Queued(h) \/ h = v
  BY <1>1 DEF Queued
<1>4. Len(queue') <= N
  BY <1>1, <1>2, QueueCounts
<1> QED  BY <1>1, <1>2, <1>3, <1>4

-----------------------------------------------------------------------------
(* Dependency sort: the loops that fill adj and seed the queue.            *)

\* What one turn of the first loop adds to the row of d.
Listings(d) == (IF d \in hard[i] THEN 1 ELSE 0)
               + (IF d \in soft[i] THEN 1 ELSE 0)

\* An entry of the hook at hand for each listing.
LEMMA EntriesAreListings ==
    ASSUME i \in Hook, NEW d
    PROVE  /\ Entries(d) \in Seq(Hook) /\ Len(Entries(d)) = Listings(d)
           /\ \A k \in 1 .. Len(Entries(d)) : Entries(d)[k] = i
<1> DEFINE Once(b) == IF b THEN <<i>> ELSE <<>>
<1>1. ASSUME NEW b
      PROVE  /\ Once(b) \in Seq(Hook) /\ Len(Once(b)) = IF b THEN 1 ELSE 0
             /\ \A k \in 1 .. Len(Once(b)) : Once(b)[k] = i
  OBVIOUS
<1>2. Entries(d) = Once(d \in hard[i]) \o Once(d \in soft[i])
  BY DEF Entries
<1> HIDE DEF Once
<1> DEFINE s == Once(d \in hard[i])  t == Once(d \in soft[i])
<1>3. /\ s \in Seq(Hook) /\ t \in Seq(Hook)
      /\ Len(s) = (IF d \in hard[i] THEN 1 ELSE 0)
      /\ Len(t) = (IF d \in soft[i] THEN 1 ELSE 0)
      /\ \A k \in 1 .. Len(s) : s[k] = i
      /\ \A k \in 1 .. Len(t) : t[k] = i
  BY <1>1
<1>4. Entries(d) = s \o t
  BY <1>2
<1> HIDE DEF s, t
<1>5. /\ s \o t \in Seq(Hook) /\ Len(s \o t) = Len(s) + Len(t)
      /\ \A k \in 1 .. Len(s) + Len(t) :
           (s \o t)[k] = IF k <= Len(s) THEN s[k] ELSE t[k - Len(s)]
  BY <1>3, ConcatProperties
<1>6. ASSUME NEW k \in 1 .. Len(s) + Len(t) PROVE (s \o t)[k] = i
  BY <1>3, <1>5
<1> QED  BY <1>3, <1>4, <1>5, <1>6 DEF Listings

\* The rows after one turn of the first loop.
LEMMA RowGrows ==
    ASSUME TypeOK, AddEdges, NEW d \in Hook
    PROVE  /\ adj'[d] \in Seq(Hook)
           /\ Len(adj[d]) \in Nat
           /\ Len(adj'[d]) = Len(adj[d]) + Listings(d)
           /\ Len(adj'[d]) <= N
           /\ \A k \in 1 .. Len(adj'[d]) :
                adj'[d][k] = IF k <= Len(adj[d]) THEN adj[d][k] ELSE i
<1>1. i \in Hook
  BY HooksAreFinite DEF TypeOK, AddEdges, Hook
<1>2. /\ Entries(d) \in Seq(Hook) /\ Len(Entries(d)) = Listings(d)
      /\ \A k \in 1 .. Len(Entries(d)) : Entries(d)[k] = i
  BY <1>1, EntriesAreListings
<1>3. adj'[d] = adj[d] \o Entries(d) /\ Len(adj[d]) + Len(Entries(d)) <= N
  BY DEF AddEdges
<1>4. adj[d] \in Seq(Hook) /\ Len(adj[d]) \in Nat
  BY LenProperties DEF TypeOK
<1> HIDE DEF Entries
<1>5. /\ adj'[d] \in Seq(Hook) /\ Len(adj'[d]) = Len(adj[d]) + Len(Entries(d))
      /\ \A k \in 1 .. Len(adj[d]) + Len(Entries(d)) :
           adj'[d][k] = IF k <= Len(adj[d]) THEN adj[d][k]
                        ELSE Entries(d)[k - Len(adj[d])]
  <2> DEFINE s == adj[d]  t == Entries(d)
  <2>1. s \in Seq(Hook) /\ t \in Seq(Hook) /\ adj'[d] = s \o t
    BY <1>2, <1>3, <1>4
  <2> HIDE DEF s, t
  <2>2. /\ s \o t \in Seq(Hook) /\ Len(s \o t) = Len(s) + Len(t)
        /\ \A k \in 1 .. Len(s) + Len(t) :
             (s \o t)[k] = IF k <= Len(s) THEN s[k] ELSE t[k - Len(s)]
    BY <2>1, ConcatProperties
  <2> QED  BY <2>1, <2>2 DEF s, t
<1>6. ASSUME NEW k \in 1 .. Len(adj'[d]), ~(k <= Len(adj[d]))
      PROVE  adj'[d][k] = i
  <2>1. Len(Entries(d)) \in Nat
    BY <1>2, LenProperties
  <2>2. k - Len(adj[d]) \in 1 .. Len(Entries(d))
    BY <1>4, <1>5, <1>6, <2>1
  <2> QED  BY <1>2, <1>5, <1>6, <2>2
<1> QED  BY <1>2, <1>3, <1>4, <1>5, <1>6

\* Sets of pairs are equal if they have the same pairs.
LEMMA SamePairs ==
    ASSUME NEW X, NEW Y, NEW A, A \subseteq X \X Y, NEW B, B \subseteq X \X Y,
           \A x \in X : \A y \in Y : <<x, y>> \in A <=> <<x, y>> \in B
    PROVE  A = B
OBVIOUS

\* The slots of the hook at hand, as many as it has dependencies.
LEMMA SlotsAdded ==
    ASSUME TypeOK, AddEdges, NEW h \in Hook
    PROVE  /\ i \in Hook
           /\ h # i => (Slots(h))' = Slots(h)
           /\ h = i /\ Slots(h) = {} =>
                /\ Cardinality((Slots(h))')
                     = Cardinality(hard[h]) + Cardinality(soft[h])
                /\ (Listed(h))'
<1>1. i \in Hook /\ N \in Nat /\ UNCHANGED <<hard, soft>>
      /\ hard[i] \in SUBSET Hook /\ soft[i] \in SUBSET Hook
  BY HooksAreFinite DEF TypeOK, AddEdges, Hook, Deps
<1>2. ASSUME NEW d \in Hook, NEW k \in 1 .. N
      PROVE  <<d, k>> \in (Slots(h))' <=>
               \/ <<d, k>> \in Slots(h)
               \/ h = i /\ k > Len(adj[d]) /\ k <= Len(adj[d]) + Listings(d)
  <2>1. /\ <<d, k>> \in Slots(h) <=> k <= Len(adj[d]) /\ adj[d][k] = h
        /\ <<d, k>> \in (Slots(h))' <=> k <= Len(adj'[d]) /\ adj'[d][k] = h
    BY DEF Slots
  <2>2. Listings(d) \in 0 .. 2
    BY DEF Listings
  <2>3. CASE k <= Len(adj[d])
    BY <2>1, <2>2, <2>3, RowGrows
  <2>4. CASE k > Len(adj[d])
    BY <2>1, <2>2, <2>4, RowGrows
  <2> QED  BY <2>3, <2>4, RowGrows
<1>3. ASSUME h # i PROVE (Slots(h))' = Slots(h)
  <2>1. Slots(h) \subseteq Hook \X (1 .. N)
        /\ (Slots(h))' \subseteq Hook \X (1 .. N)
    BY DEF Slots
  <2>2. \A d \in Hook : \A k \in 1 .. N :
          <<d, k>> \in (Slots(h))' <=> <<d, k>> \in Slots(h)
    BY <1>2, <1>3
  <2> QED  BY <2>1, <2>2, SamePairs
<1>4. ASSUME h = i, Slots(h) = {}
      PROVE  /\ Cardinality((Slots(h))')
                  = Cardinality(hard[h]) + Cardinality(soft[h])
             /\ (Listed(h))'
  <2> DEFINE new == (Slots(h))'
             fh == [d \in hard[i] |-> <<d, Len(adj[d]) + 1>>]
             fs == [d \in soft[i] |-> <<d, Len(adj[d]) + Listings(d)>>]
             H == {<<d, Len(adj[d]) + 1>> : d \in hard[i]}
             S == {<<d, Len(adj[d]) + Listings(d)>> : d \in soft[i]}
  <2>1. ASSUME NEW d \in Hook
        PROVE  /\ Len(adj[d]) \in Nat /\ Len(adj[d]) + Listings(d) <= N
               /\ d \in hard[i] /\ d \in soft[i] => Listings(d) = 2
               /\ (d \in hard[i]) # (d \in soft[i]) => Listings(d) = 1
               /\ d \notin hard[i] /\ d \notin soft[i] => Listings(d) = 0
    <3>1. Len(adj[d]) \in Nat /\ Len(adj[d]) + Listings(d) <= N
      BY RowGrows
    <3>2. /\ d \in hard[i] /\ d \in soft[i] => Listings(d) = 2
          /\ (d \in hard[i]) # (d \in soft[i]) => Listings(d) = 1
          /\ d \notin hard[i] /\ d \notin soft[i] => Listings(d) = 0
      BY DEF Listings
    <3> QED  BY <3>1, <3>2
  <2>2. \A d \in Hook : \A k \in 1 .. N :
          <<d, k>> \in new <=>
            k > Len(adj[d]) /\ k <= Len(adj[d]) + Listings(d)
    BY <1>2, <1>4
  <2>3. new \subseteq Hook \X (1 .. N)
    BY DEF Slots
  <2> HIDE DEF new
  <2>4. ASSUME NEW d \in Hook, NEW k \in 1 .. N
        PROVE  <<d, k>> \in new <=>
                 \/ d \in hard[i] /\ k = Len(adj[d]) + 1
                 \/ d \in soft[i] /\ k = Len(adj[d]) + Listings(d)
    <3>1. CASE d \in hard[i] /\ d \in soft[i]
      BY <2>1, <2>2, <3>1
    <3>2. CASE (d \in hard[i]) # (d \in soft[i])
      BY <2>1, <2>2, <3>2
    <3>3. CASE d \notin hard[i] /\ d \notin soft[i]
      BY <2>1, <2>2, <3>3
    <3> QED  BY <3>1, <3>2, <3>3
  <2>5. H \subseteq Hook \X (1 .. N) /\ S \subseteq Hook \X (1 .. N)
    <3>1. \A d \in hard[i] : Len(adj[d]) + 1 \in 1 .. N
      BY <1>1, <2>1
    <3>2. \A d \in soft[i] : Len(adj[d]) + Listings(d) \in 1 .. N
      BY <1>1, <2>1
    <3> QED  BY <1>1, <3>1, <3>2
  <2>6. ASSUME NEW d \in Hook, NEW k \in 1 .. N
        PROVE  /\ <<d, k>> \in H <=> d \in hard[i] /\ k = Len(adj[d]) + 1
               /\ <<d, k>> \in S <=> d \in soft[i] /\ k = Len(adj[d]) + Listings(d)
    OBVIOUS
  <2>7. fh \in Bijection(hard[i], H) /\ fs \in Bijection(soft[i], S)
    BY DEF Bijection, Injection, Surjection, IsInjective
  <2> HIDE DEF H, S, fh, fs
  <2>8. new = H \union S
    BY <2>3, <2>4, <2>5, <2>6
  <2>9. H \intersect S = {}
    <3>1. ASSUME NEW d \in Hook, NEW k \in 1 .. N PROVE <<d, k>> \notin H \intersect S
      BY <2>1, <2>6
    <3> QED  BY <2>5, <3>1
  <2>10. /\ IsFiniteSet(H) /\ Cardinality(H) = Cardinality(hard[i])
         /\ IsFiniteSet(S) /\ Cardinality(S) = Cardinality(soft[i])
    <3>1. IsFiniteSet(hard[i]) /\ IsFiniteSet(soft[i])
      BY <1>1, HooksAreFinite
    <3>2. ExistsBijection(hard[i], H) /\ ExistsBijection(soft[i], S)
      BY <2>7 DEF ExistsBijection
    <3> QED  BY <3>1, <3>2, FS_Bijection
  <2>11. Cardinality(new) = Cardinality(hard[i]) + Cardinality(soft[i])
    <3>1. Cardinality(H \union S) = Cardinality(H) + Cardinality(S) - 0
      BY <2>9, <2>10, FS_Union, FS_EmptySet
    <3>2. Cardinality(H) \in Nat /\ Cardinality(S) \in Nat
      BY <2>10, FS_CardinalityType
    <3> QED  BY <2>8, <2>10, <3>1, <3>2
  <2>12. \A d \in Hook : (d \in hard[i] \/ d \in soft[i])
                            <=> \E e \in new : e[1] = d
    <3>1. ASSUME NEW d \in Hook, d \in hard[i] \/ d \in soft[i]
          PROVE  \E e \in new : e[1] = d
      <4>1. Len(adj[d]) + Listings(d) \in 1 .. N
        BY <1>1, <2>1, <3>1
      <4>2. <<d, Len(adj[d]) + Listings(d)>> \in new
        BY <2>1, <2>2, <3>1, <4>1
      <4> QED  BY <4>2
    <3>2. ASSUME NEW e \in new PROVE e[1] \in hard[i] \/ e[1] \in soft[i]
      BY <2>3, <2>4
    <3> QED  BY <3>1, <3>2
  <2>13. (Listed(h))'
    BY <1>1, <1>4, <2>12 DEF Listed, AllDeps, new
  <2> QED  BY <1>4, <2>11, <2>13 DEF new
<1> QED  BY <1>1, <1>3, <1>4

\* The rows stay, and with them what they say of the dependencies.
LEMMA RowsKept ==
    ASSUME UNCHANGED <<hard, soft, adj>>, NEW h \in Hook
    PROVE  (Slots(h))' = Slots(h) /\ (Listed(h))' = Listed(h) /\ Doubled' = Doubled
BY DEF Slots, Listed, AllDeps, Doubled

\* No hook has been looked at: nothing is listed or queued.
LEMMA SortInit == Init => SortInv
<1> SUFFICES ASSUME Init PROVE SortInv
  OBVIOUS
<1>1. N \in Nat /\ N > 0 /\ \A h \in Hook : h >= 0
  BY HooksAreFinite DEF Hook
<1>2. \A h \in Hook : Slots(h) = {} /\ Open(h) = {}
  BY DEF Init, Slots, Open
<1>3. TypeOK
  BY <1>1 DEF Init, TypeOK
<1>4. CountInv
  BY <1>2, FS_EmptySet DEF Init, CountInv
<1>5. ListInv
  BY <1>1, <1>2 DEF Init, ListInv
<1>6. RowInv /\ QueueInv /\ OrderInv
  BY <1>1 DEF Init, RowInv, QueueInv, OrderInv, Queued, Draining
<1> QED  BY <1>3, <1>4, <1>5, <1>6 DEF SortInv

\* Only the hook at hand gains slots and a degree.
LEMMA AddEdgesKeeps == SortInv /\ AddEdges => SortInv'
<1> SUFFICES ASSUME SortInv, AddEdges PROVE SortInv'
  OBVIOUS
<1> USE DEF SortInv
<1>1. /\ pc = "edges" /\ i < N /\ i' = i + 1
      /\ UNCHANGED <<hard, soft, pc, queue, front>>
      /\ inDegree' = [inDegree EXCEPT ![i] = Cardinality(hard[i])
                                             + Cardinality(soft[i])]
  BY DEF AddEdges
<1>2. /\ i \in Hook /\ N \in Nat /\ i \in Nat /\ \A h \in Hook : h \in Nat
      /\ hard[i] \in SUBSET Hook /\ soft[i] \in SUBSET Hook
  BY <1>1, HooksAreFinite DEF TypeOK, Hook, Deps
<1>3. Cardinality(hard[i]) \in 0 .. N /\ Cardinality(soft[i]) \in 0 .. N
  BY <1>2, HooksAreFinite
<1>4. TypeOK'
  <2>1. inDegree' \in [Hook -> 0 .. 2 * N]
    <3>1. Cardinality(hard[i]) + Cardinality(soft[i]) \in 0 .. 2 * N
      BY <1>2, <1>3
    <3> QED  BY <1>1, <3>1 DEF TypeOK
  <2>2. \A h \in Hook : adj'[h] \in Seq(Hook) /\ Len(adj'[h]) <= N
    BY RowGrows
  <2>3. i' \in 0 .. N
    BY <1>1, <1>2
  <2> QED  BY <1>1, <2>1, <2>2, <2>3 DEF TypeOK
<1>5. Slots(i) = {}
  BY <1>1, <1>2 DEF ListInv
<1>6. ~Draining /\ ~Draining' /\ queue = <<>> /\ queue' = <<>>
  BY <1>1 DEF Draining, QueueInv
<1>7. CountInv'
  <2> SUFFICES ASSUME NEW h \in Hook
               PROVE  inDegree'[h] = Cardinality((Open(h))')
    BY DEF CountInv
  <2>1. (Open(h))' = (Slots(h))' /\ Open(h) = Slots(h)
    BY <1>6 DEF Open
  <2>2. CASE h = i
    <3>1. inDegree'[h] = Cardinality(hard[h]) + Cardinality(soft[h])
      BY <1>1, <2>2 DEF TypeOK
    <3> QED  BY <1>5, <2>1, <2>2, <3>1, SlotsAdded
  <2>3. CASE h # i
    <3>1. inDegree'[h] = inDegree[h]
      BY <1>1, <2>3 DEF TypeOK
    <3>2. inDegree[h] = Cardinality(Open(h))
      BY <1>1 DEF CountInv
    <3> QED  BY <2>1, <2>3, <3>1, <3>2, SlotsAdded
  <2> QED  BY <2>2, <2>3
<1>8. ListInv'
  <2> SUFFICES ASSUME NEW h \in Hook
               PROVE  IF h >= i + 1 THEN (Slots(h))' = {} ELSE (Listed(h))'
    BY <1>1 DEF ListInv
  <2>1. CASE h = i
    BY <1>2, <1>5, <2>1, SlotsAdded
  <2>2. CASE h # i
    <3>1. (Slots(h))' = Slots(h)
      BY <2>2, SlotsAdded
    <3>2. (Listed(h))' = Listed(h)
      BY <1>1, <3>1 DEF Listed, AllDeps
    <3>3. h >= i + 1 <=> h >= i
      BY <1>2, <2>2
    <3> QED  BY <1>1, <3>1, <3>2, <3>3 DEF ListInv
  <2> QED  BY <2>1, <2>2
<1>9. RowInv'
  <2>1. CASE Doubled
    BY <1>1, <2>1 DEF RowInv, Doubled
  <2>2. CASE ~Doubled
    <3>1. \A d \in Hook : Listings(d) \in {0, 1}
      BY <1>2, <2>2 DEF Doubled, Listings
    <3>2. \A d \in Hook : Len(adj[d]) <= i
      BY <1>1, <2>2 DEF RowInv
    <3>3. ASSUME NEW d \in Hook PROVE Len(adj'[d]) <= i + 1
      BY <1>2, <3>1, <3>2, RowGrows
    <3> QED  BY <1>1, <3>3 DEF RowInv
  <2> QED  BY <2>1, <2>2
<1>10. QueueInv' /\ OrderInv'
  BY <1>1, <1>6 DEF QueueInv, OrderInv, Queued
<1> QED  BY <1>4, <1>7, <1>8, <1>9, <1>10

\* A row that is full with turns to go has a doubled dependency.
LEMMA RowOverflowKeeps == SortInv /\ RowOverflow => SortInv'
<1> SUFFICES ASSUME SortInv, RowOverflow PROVE SortInv'
  OBVIOUS
<1> USE DEF SortInv
<1>1. /\ pc = "edges" /\ i < N /\ pc' = "overflow"
      /\ UNCHANGED <<hard, soft, i, adj, inDegree, queue, front>>
  BY DEF RowOverflow
<1>2. i \in Hook /\ N \in Nat /\ i \in Nat
  BY <1>1, HooksAreFinite DEF TypeOK, Hook
<1>3. Doubled
  <2> SUFFICES ASSUME ~Doubled PROVE FALSE
    OBVIOUS
  <2>1. PICK d \in Hook : Len(adj[d]) + Len(Entries(d)) > N
    BY DEF RowOverflow
  <2>2. Len(Entries(d)) = Listings(d)
    BY <1>2, EntriesAreListings
  <2>3. Listings(d) \in {0, 1}
    BY <1>2 DEF Doubled, Listings
  <2>4. Len(adj[d]) <= i /\ Len(adj[d]) \in Nat
    BY <1>1, LenProperties DEF RowInv, TypeOK
  <2> QED  BY <1>1, <1>2, <2>1, <2>2, <2>3, <2>4
<1>4. RowInv'
  BY <1>1, <1>3 DEF RowInv, Doubled
<1>5. TypeOK' /\ CountInv' /\ ListInv' /\ OrderInv'
  BY <1>1 DEF TypeOK, CountInv, ListInv, OrderInv, QueueInv, AllDeps
<1>6. QueueInv'
  BY <1>1 DEF QueueInv, Queued, Draining
<1> QED  BY <1>4, <1>5, <1>6

\* The ends of the first two loops.
LEMMA PhasesKeep == SortInv /\ (EdgesDone \/ SeedDone) => SortInv'
<1> SUFFICES ASSUME SortInv, EdgesDone \/ SeedDone PROVE SortInv'
  OBVIOUS
<1> USE DEF SortInv
<1>1. /\ i = N /\ i' = 0
      /\ \/ pc = "edges" /\ pc' = "seed"
         \/ pc = "seed" /\ pc' = "drain"
      /\ UNCHANGED <<hard, soft, adj, inDegree, queue, front>>
  BY DEF EdgesDone, SeedDone
<1>2. N \in Nat /\ \A h \in Hook : h \in Nat /\ h < N /\ ~(h >= N) /\ ~(h < 0)
  BY HooksAreFinite DEF Hook
<1>3. ~Draining /\ front = 0 /\ (Draining' <=> pc' = "drain")
  BY <1>1 DEF Draining, QueueInv
<1>4. TypeOK'
  BY <1>1, <1>2 DEF TypeOK
<1>5. ASSUME NEW h \in Hook PROVE (Open(h))' = Open(h)
  <2>1. (Slots(h))' = Slots(h) /\ Open(h) = Slots(h)
    BY <1>1, <1>3, RowsKept DEF Open
  <2>2. ASSUME NEW e \in Slots(h) PROVE ~(Relaxed(e))'
    <3>1. e[2] \in 1 .. N
      BY DEF Slots
    <3>2. ASSUME NEW j \in 1 .. Len(queue) PROVE ~(j <= 0 \/ (j = 1 /\ e[2] <= 0))
      BY <1>2, <3>1
    <3> QED  BY <1>1, <1>3, <3>2 DEF Relaxed
  <2> QED  BY <2>1, <2>2 DEF Open
<1>6. CountInv'
  BY <1>1, <1>5 DEF CountInv
<1>7. ListInv' /\ RowInv' /\ OrderInv'
  BY <1>1, <1>2, RowsKept DEF ListInv, RowInv, OrderInv, AllDeps
<1>8. QueueInv'
  BY <1>1, <1>2, <1>3 DEF QueueInv, Queued, Draining
<1> QED  BY <1>4, <1>6, <1>7, <1>8

\* The hook that is seeded has no dependencies at all.
LEMMA SeedKeeps == SortInv /\ Seed => SortInv'
<1> SUFFICES ASSUME SortInv, Seed PROVE SortInv'
  OBVIOUS
<1> USE DEF SortInv
<1>1. /\ pc = "seed" /\ i < N /\ i' = i + 1
      /\ queue' = IF inDegree[i] = 0 THEN Append(queue, i) ELSE queue
      /\ UNCHANGED <<hard, soft, pc, adj, inDegree, front>>
  BY DEF Seed
<1>2. i \in Hook /\ N \in Nat /\ i \in Nat /\ \A h \in Hook : h \in Nat
  BY <1>1, HooksAreFinite DEF TypeOK, Hook
<1>3. ~Draining /\ ~Draining' /\ front = 0 /\ queue \in Seq(Hook)
  BY <1>1 DEF Draining, QueueInv, TypeOK
<1>4. \A h \in Hook : (Open(h))' = Open(h) /\ Open(h) = Slots(h)
  BY <1>1, <1>3, RowsKept DEF Open
<1>5. CountInv' /\ ListInv' /\ RowInv'
  BY <1>1, <1>4, RowsKept DEF CountInv, ListInv, RowInv
<1>6. ~Queued(i)
  BY <1>1, <1>2, <1>3 DEF QueueInv
<1>7. CASE inDegree[i] = 0
  <2>1. /\ Len(queue) \in Nat
        /\ queue' \in Seq(Hook) /\ Len(queue') = Len(queue) + 1
        /\ Len(queue') <= N
        /\ queue'[Len(queue) + 1] = i
        /\ \A j \in 1 .. Len(queue) : queue'[j] = queue[j]
        /\ \A j, k \in 1 .. Len(queue') : queue'[j] = queue'[k] => j = k
        /\ \A h \in Hook : (Queued(h))' <=> Queued(h) \/ h = i
    BY <1>1, <1>2, <1>3, <1>6, <1>7, QueueGrows
  <2>2. TypeOK'
    BY <1>1, <1>2, <1>3, <2>1 DEF TypeOK
  <2>3. QueueInv'
    <3>1. \A h \in Hook : h < i + 1 <=> (h < i \/ h = i)
      BY <1>2
    <3>2. \A h \in Hook : (Queued(h))' <=> inDegree[h] = 0 /\ h < i + 1
      BY <1>1, <1>3, <1>7, <2>1, <3>1 DEF QueueInv
    <3> QED  BY <1>1, <1>3, <2>1, <3>2 DEF QueueInv
  <2>4. AllDeps(i) = {}
    <3>1. Slots(i) = {}
      BY <1>1, <1>2, <1>4, <1>7, SlotsAreFinite DEF CountInv
    <3>2. Listed(i)
      BY <1>1, <1>2 DEF ListInv
    <3>3. AllDeps(i) \subseteq Hook
      BY <1>2 DEF AllDeps, TypeOK, Deps
    <3> QED  BY <3>1, <3>2, <3>3 DEF Listed
  <2>5. OrderInv'
    <3> SUFFICES ASSUME NEW m \in 1 .. Len(queue'), NEW d \in AllDeps(queue'[m])
                 PROVE  \E j \in 1 .. (m - 1) : queue'[j] = d
      BY <1>1 DEF OrderInv, AllDeps
    <3>1. m \in 1 .. Len(queue)
      BY <2>1, <2>4
    <3>2. PICK j \in 1 .. (m - 1) : queue[j] = d
      BY <2>1, <3>1 DEF OrderInv
    <3> QED  BY <2>1, <3>1, <3>2
  <2> QED  BY <1>5, <2>2, <2>3, <2>5
<1>8. CASE inDegree[i] # 0
  <2>1. queue' = queue
    BY <1>1, <1>8
  <2>2. TypeOK' /\ OrderInv'
    <3>1. TypeOK'
      BY <1>1, <1>2, <2>1 DEF TypeOK
    <3>2. hard' = hard /\ soft' = soft /\ queue' = queue
      BY <1>1, <2>1
    <3>3. OrderInv'
      BY <3>2 DEF OrderInv, AllDeps
    <3> QED  BY <3>1, <3>3
  <2>3. QueueInv'
    <3>1. \A h \in Hook : inDegree[h] = 0 => (h < i + 1 <=> h < i)
      BY <1>2, <1>8
    <3> QED  BY <1>1, <1>3, <2>1, <3>1 DEF QueueInv, Queued
  <2> QED  BY <1>5, <2>2, <2>3
<1> QED  BY <1>7, <1>8

-----------------------------------------------------------------------------
(* Dependency sort: the drain loop.                                        *)

\* One edge is relaxed and no other: the slot that the loop is at was open.
LEMMA RelaxOpens ==
    ASSUME SortInv, Relax
    PROVE  \E v \in Hook :
             /\ v = adj[Current][i + 1]
             /\ front + 1 \in 1 .. Len(queue)
             /\ <<Current, i + 1>> \in Open(v)
             /\ inDegree[v] \in 1 .. 2 * N
             /\ ~Queued(v)
             /\ \A h \in Hook : (Open(h))' =
                  IF h = v THEN Open(h) \ {<<Current, i + 1>>} ELSE Open(h)
<1> USE DEF SortInv
<1> DEFINE v == adj[Current][i + 1]
           e0 == <<Current, i + 1>>
<1>1. /\ pc = "drain" /\ front < Len(queue) /\ i < Len(adj[Current])
      /\ i' = i + 1 /\ UNCHANGED <<hard, soft, pc, adj, front>>
      /\ queue' = IF inDegree[v] = 1 THEN Append(queue, v) ELSE queue
  BY DEF Relax
<1>2. /\ N \in Nat /\ i \in Nat /\ front \in Nat
      /\ queue \in Seq(Hook) /\ Len(queue) \in Nat
  BY HooksAreFinite, LenProperties DEF TypeOK
<1>3. front + 1 \in 1 .. Len(queue) /\ Current \in Hook
  <2>1. front + 1 \in 1 .. Len(queue)
    BY <1>1, <1>2
  <2> QED  BY <1>2, <2>1 DEF Current
<1>4. adj[Current] \in Seq(Hook) /\ Len(adj[Current]) <= N
      /\ Len(adj[Current]) \in Nat
  BY <1>3, LenProperties DEF TypeOK
<1>5. i + 1 \in 1 .. Len(adj[Current]) /\ i + 1 \in 1 .. N
  BY <1>1, <1>2, <1>4
<1>6. v \in Hook
  BY <1>4, <1>5
<1>7. ASSUME NEW h \in Hook PROVE e0 \in Slots(h) <=> h = v
  BY <1>3, <1>5 DEF Slots
<1>8. \A j \in 1 .. Len(queue) : queue[j] = Current => j = front + 1
  BY <1>3 DEF QueueInv, Current
<1>9. ~Relaxed(e0)
  <2>1. ~(i + 1 <= i) /\ ~(front + 1 <= front)
    BY <1>2
  <2> QED  BY <1>8, <2>1 DEF Relaxed
<1>10. Draining /\ Draining'
  BY <1>1 DEF Draining
<1>11. e0 \in Open(v)
  BY <1>6, <1>7, <1>9 DEF Open
<1>12. inDegree[v] \in 1 .. 2 * N
  <2>1. inDegree[v] \in 0 .. 2 * N
    BY <1>6 DEF TypeOK
  <2>2. inDegree[v] # 0
    BY <1>1, <1>6, <1>11, SlotsAreFinite DEF CountInv
  <2> QED  BY <1>2, <2>1, <2>2
<1>13. ~Queued(v)
  <2>1. inDegree[v] # 0
    BY <1>12
  <2> QED  BY <1>6, <2>1 DEF QueueInv
<1> HIDE DEF v
<1>14. /\ Len(queue') \in Nat /\ Len(queue) <= Len(queue')
       /\ \A j \in 1 .. Len(queue) : queue'[j] = queue[j]
  <2>1. CASE inDegree[v] = 1
    <3>1. queue' = Append(queue, v)
      BY <1>1, <2>1
    <3> QED  BY <1>2, <1>6, <3>1
  <2>2. CASE inDegree[v] # 1
    BY <1>1, <1>2, <2>2
  <2> QED  BY <2>1, <2>2
<1>15. ASSUME NEW x \in Hook, NEW k \in 1 .. N
       PROVE  (Relaxed(<<x, k>>))' <=> Relaxed(<<x, k>>) \/ <<x, k>> = e0
  <2>1. (Relaxed(<<x, k>>))' <=>
          \E j \in 1 .. Len(queue) :
             queue[j] = x /\ (j <= front \/ (j = front + 1 /\ k <= i + 1))
    <3>1. (Relaxed(<<x, k>>))' <=>
            \E j \in 1 .. Len(queue') :
               queue'[j] = x /\ (j <= front \/ (j = front + 1 /\ k <= i + 1))
      BY <1>1 DEF Relaxed
    <3>2. ASSUME NEW j \in 1 .. Len(queue'), j <= front \/ j = front + 1
          PROVE  j \in 1 .. Len(queue)
      BY <1>2, <1>3, <1>14, <3>2
    <3>3. \A j \in 1 .. Len(queue) : j \in 1 .. Len(queue')
      BY <1>2, <1>14
    <3> QED  BY <1>14, <3>1, <3>2, <3>3
  <2>2. Relaxed(<<x, k>>) <=>
          \E j \in 1 .. Len(queue) :
             queue[j] = x /\ (j <= front \/ (j = front + 1 /\ k <= i))
    BY DEF Relaxed
  <2>3. k <= i + 1 <=> (k <= i \/ k = i + 1)
    BY <1>2
  <2>4. Current = queue[front + 1]
    BY DEF Current
  <2> QED  BY <1>3, <2>1, <2>2, <2>3, <2>4
<1>16. ASSUME NEW h \in Hook
       PROVE  (Open(h))' = IF h = v THEN Open(h) \ {e0} ELSE Open(h)
  <2>1. (Slots(h))' = Slots(h) /\ Slots(h) \subseteq Hook \X (1 .. N)
    BY <1>1, RowsKept DEF Slots
  <2>2. /\ Open(h) = {e \in Slots(h) : ~Relaxed(e)}
        /\ (Open(h))' = {e \in Slots(h) : ~(Relaxed(e))'}
    BY <1>10, <2>1 DEF Open
  <2>3. ASSUME NEW e \in Slots(h)
        PROVE  (Relaxed(e))' <=> Relaxed(e) \/ e = e0
    <3>1. PICK x \in Hook, k \in 1 .. N : e = <<x, k>>
      BY <2>1
    <3> QED  BY <1>15, <3>1
  <2>4. (Open(h))' = Open(h) \ {e0}
    BY <2>2, <2>3
  <2>5. h # v => e0 \notin Open(h)
    BY <1>7, <2>2
  <2> QED  BY <2>4, <2>5
<1> QED  BY <1>3, <1>6, <1>11, <1>12, <1>13, <1>16 DEF v

\* A hook whose last slot is relaxed follows its dependencies into the queue.
LEMMA RelaxKeeps == SortInv /\ Relax => SortInv'
<1> SUFFICES ASSUME SortInv, Relax PROVE SortInv'
  OBVIOUS
<1> USE DEF SortInv
<1>1. PICK v \in Hook :
        /\ v = adj[Current][i + 1]
        /\ front + 1 \in 1 .. Len(queue)
        /\ <<Current, i + 1>> \in Open(v)
        /\ inDegree[v] \in 1 .. 2 * N
        /\ ~Queued(v)
        /\ \A h \in Hook : (Open(h))' =
             IF h = v THEN Open(h) \ {<<Current, i + 1>>} ELSE Open(h)
  BY RelaxOpens
<1>2. /\ pc = "drain" /\ i < Len(adj[Current])
      /\ i' = i + 1 /\ UNCHANGED <<hard, soft, pc, adj, front>>
      /\ inDegree' = [inDegree EXCEPT ![v] = @ - 1]
      /\ queue' = IF inDegree[v] = 1 THEN Append(queue, v) ELSE queue
  BY <1>1 DEF Relax
<1>3. /\ N \in Nat /\ i \in Nat /\ front \in Nat
      /\ queue \in Seq(Hook) /\ Len(queue) \in Nat
      /\ inDegree \in [Hook -> 0 .. 2 * N]
  BY HooksAreFinite, LenProperties DEF TypeOK
<1>4. i + 1 \in 0 .. N
  <2>1. Current \in Hook
    BY <1>1, <1>3 DEF Current
  <2>2. Len(adj[Current]) \in Nat /\ Len(adj[Current]) <= N
    BY <2>1, LenProperties DEF TypeOK
  <2> QED  BY <1>2, <1>3, <2>2
<1>5. \A h \in Hook :
        inDegree'[h] = IF h = v THEN inDegree[h] - 1 ELSE inDegree[h]
  BY <1>2, <1>3
<1>6. inDegree' \in [Hook -> 0 .. 2 * N]
  BY <1>1, <1>2, <1>3
<1>7. Draining /\ Draining'
  BY <1>2 DEF Draining
<1>8. CountInv'
  <2> SUFFICES ASSUME NEW h \in Hook
               PROVE  inDegree'[h] = Cardinality((Open(h))')
    BY DEF CountInv
  <2>1. inDegree[h] = Cardinality(Open(h))
    BY <1>2 DEF CountInv
  <2>2. CASE h = v
    <3>1. Cardinality(Open(v) \ {<<Current, i + 1>>}) = Cardinality(Open(v)) - 1
      BY <1>1, SlotsAreFinite, FS_RemoveElement
    <3> QED  BY <1>1, <1>5, <2>1, <2>2, <3>1
  <2>3. CASE h # v
    BY <1>1, <1>5, <2>1, <2>3
  <2> QED  BY <2>2, <2>3
<1>9. ListInv' /\ RowInv'
  BY <1>2, RowsKept DEF ListInv, RowInv
<1>10. CASE inDegree[v] = 1
  <2>1. /\ queue' \in Seq(Hook) /\ Len(queue') = Len(queue) + 1
        /\ Len(queue') <= N
        /\ queue'[Len(queue) + 1] = v
        /\ \A j \in 1 .. Len(queue) : queue'[j] = queue[j]
        /\ \A j, k \in 1 .. Len(queue') : queue'[j] = queue'[k] => j = k
        /\ \A h \in Hook : (Queued(h))' <=> Queued(h) \/ h = v
    <3>1. queue' = Append(queue, v)
      BY <1>2, <1>10
    <3> QED  BY <1>1, <1>3, <3>1, QueueGrows
  <2>2. TypeOK'
    <3>1. front' \in 0 .. Len(queue')
      BY <1>1, <1>2, <1>3, <2>1
    <3> QED  BY <1>2, <1>4, <1>6, <2>1, <3>1 DEF TypeOK
  <2>3. QueueInv'
    <3>1. \A h \in Hook : (Queued(h))' <=> inDegree'[h] = 0
      BY <1>5, <1>7, <1>10, <2>1 DEF QueueInv
    <3> QED  BY <1>2, <1>7, <2>1, <3>1 DEF QueueInv
  <2>4. ASSUME NEW d \in AllDeps(v)
        PROVE  \E j \in 1 .. Len(queue) : queue[j] = d
    <3>1. (Open(v))' = {}
      <4>1. inDegree'[v] = 0
        BY <1>5, <1>10
      <4>2. Cardinality((Open(v))') = 0
        BY <1>2, <1>8, <4>1 DEF CountInv
      <4>3. IsFiniteSet((Open(v))')
        <5>1. (Open(v))' = Open(v) \ {<<Current, i + 1>>}
          BY <1>1
        <5> QED  BY <5>1, SlotsAreFinite, FS_Subset
      <4> QED  BY <4>2, <4>3, FS_EmptySet
    <3>2. d \in Hook
      BY DEF AllDeps, TypeOK, Deps
    <3>3. PICK e \in Slots(v) : e[1] = d
      BY <1>2, <3>2 DEF ListInv, Listed
    <3>4. (Slots(v))' = Slots(v)
      BY <1>2, RowsKept
    <3>5. (Relaxed(e))'
      BY <1>7, <3>1, <3>3, <3>4 DEF Open
    <3>6. PICK j \in 1 .. Len(queue') :
            queue'[j] = d /\ (j <= front \/ j = front + 1)
      BY <1>2, <3>3, <3>5 DEF Relaxed
    <3>7. j \in 1 .. Len(queue)
      BY <1>1, <1>3, <2>1, <3>6
    <3> QED  BY <2>1, <3>6, <3>7
  <2>5. OrderInv'
    <3> SUFFICES ASSUME NEW m \in 1 .. Len(queue'), NEW d \in AllDeps(queue'[m])
                 PROVE  \E j \in 1 .. (m - 1) : queue'[j] = d
      BY <1>2 DEF OrderInv, AllDeps
    <3>1. CASE m \in 1 .. Len(queue)
      <4>1. d \in AllDeps(queue[m])
        BY <2>1, <3>1
      <4>2. PICK j \in 1 .. (m - 1) : queue[j] = d
        BY <3>1, <4>1 DEF OrderInv
      <4>3. j \in 1 .. Len(queue)
        BY <1>3, <3>1
      <4>4. queue'[j] = queue[j]
        BY <2>1, <4>3
      <4> QED  BY <4>2, <4>4
    <3>2. CASE m = Len(queue) + 1
      <4>1. PICK j \in 1 .. Len(queue) : queue[j] = d
        BY <2>1, <2>4, <3>2
      <4> QED  BY <1>3, <2>1, <3>2, <4>1
    <3> QED  BY <1>3, <2>1, <3>1, <3>2
  <2> QED  BY <1>8, <1>9, <2>2, <2>3, <2>5
<1>11. CASE inDegree[v] # 1
  <2>1. /\ queue' = queue /\ hard' = hard /\ soft' = soft /\ front' = front
        /\ pc' = pc
    BY <1>2, <1>11
  <2>2. TypeOK'
    BY <1>2, <1>4, <1>6, <2>1 DEF TypeOK
  <2>3. OrderInv'
    BY <2>1 DEF OrderInv, AllDeps
  <2>4. QueueInv'
    <3>1. \A h \in Hook : inDegree'[h] = 0 <=> inDegree[h] = 0
      BY <1>1, <1>3, <1>5, <1>11
    <3>2. \A h \in Hook : (Queued(h))' <=> Queued(h)
      BY <2>1 DEF Queued
    <3> QED  BY <1>2, <1>7, <2>1, <3>1, <3>2 DEF QueueInv
  <2> QED  BY <1>8, <1>9, <2>2, <2>3, <2>4
<1> QED  BY <1>10, <1>11

\* The next hook: the row that was exhausted is the row that was relaxed.
LEMMA TakeKeeps == SortInv /\ Take => SortInv'
<1> SUFFICES ASSUME SortInv, Take PROVE SortInv'
  OBVIOUS
<1> USE DEF SortInv
<1>1. /\ pc = "drain" /\ front < Len(queue) /\ i = Len(adj[Current])
      /\ front' = front + 1 /\ i' = 0
      /\ hard' = hard /\ soft' = soft /\ pc' = pc /\ adj' = adj
      /\ inDegree' = inDegree /\ queue' = queue
  BY DEF Take
<1>2. /\ N \in Nat /\ i \in Nat /\ front \in Nat
      /\ queue \in Seq(Hook) /\ Len(queue) \in Nat
      /\ front + 1 \in 1 .. Len(queue)
  BY <1>1, HooksAreFinite, LenProperties DEF TypeOK
<1>3. TypeOK'
  BY <1>1, <1>2 DEF TypeOK
<1>4. Draining /\ Draining'
  BY <1>1 DEF Draining
<1>5. ASSUME NEW h \in Hook PROVE (Open(h))' = Open(h)
  <2>1. (Slots(h))' = Slots(h)
    BY <1>1, RowsKept
  <2>2. ASSUME NEW e \in Slots(h) PROVE (Relaxed(e))' <=> Relaxed(e)
    <3>1. e[2] \in 1 .. N /\ e[2] <= Len(adj[e[1]])
      BY DEF Slots
    <3>2. (Relaxed(e))' <=>
            \E j \in 1 .. Len(queue) :
               queue[j] = e[1]
               /\ (j <= front + 1 \/ (j = front + 1 + 1 /\ e[2] <= 0))
      BY <1>1 DEF Relaxed
    <3>3. ~(e[2] <= 0)
      BY <1>2, <3>1
    <3>4. queue[front + 1] = e[1] => e[2] <= i
      BY <1>1, <3>1 DEF Current
    <3>5. \A j \in 1 .. Len(queue) :
            j <= front + 1 <=> (j <= front \/ j = front + 1)
      BY <1>2
    <3> QED  BY <3>2, <3>3, <3>4, <3>5 DEF Relaxed
  <2> QED  BY <1>4, <2>1, <2>2 DEF Open
<1>6. CountInv'
  BY <1>1, <1>5 DEF CountInv
<1>7. ListInv' /\ RowInv'
  BY <1>1, RowsKept DEF ListInv, RowInv
<1>8. OrderInv'
  BY <1>1 DEF OrderInv, AllDeps
<1>9. QueueInv'
  BY <1>1, <1>4 DEF QueueInv, Queued
<1> QED  BY <1>3, <1>6, <1>7, <1>8, <1>9

\* Nothing is relaxed at the end.
LEMMA FinishKeeps == SortInv /\ Finish => SortInv'
<1> SUFFICES ASSUME SortInv, Finish PROVE SortInv'
  OBVIOUS
<1> USE DEF SortInv
<1>1. /\ pc = "drain" /\ pc' = "done" /\ front = Len(queue)
      /\ hard' = hard /\ soft' = soft /\ i' = i /\ adj' = adj
      /\ inDegree' = inDegree /\ queue' = queue /\ front' = front
  BY DEF Finish
<1>2. Draining /\ Draining'
  BY <1>1 DEF Draining
<1>3. \A h \in Hook : (Open(h))' = Open(h)
  BY <1>1, <1>2 DEF Open, Slots, Relaxed
<1>4. TypeOK' /\ CountInv'
  BY <1>1, <1>3 DEF TypeOK, CountInv
<1>5. ListInv' /\ RowInv'
  BY <1>1, RowsKept DEF ListInv, RowInv
<1>6. OrderInv'
  BY <1>1 DEF OrderInv, AllDeps
<1>7. QueueInv'
  BY <1>1, <1>2 DEF QueueInv, Queued
<1> QED  BY <1>4, <1>5, <1>6, <1>7

\* The invariant of the sort.
LEMMA SortHolds == Spec => []SortInv
<1>1. SortInv /\ UNCHANGED vars => SortInv'
  <2> SUFFICES ASSUME SortInv, UNCHANGED vars PROVE SortInv'
    OBVIOUS
  <2>1. /\ hard' = hard /\ soft' = soft /\ pc' = pc /\ i' = i /\ adj' = adj
        /\ inDegree' = inDegree /\ queue' = queue /\ front' = front
    BY DEF vars
  <2>2. \A h \in Hook : (Open(h))' = Open(h)
    BY <2>1 DEF Open, Slots, Relaxed, Draining
  <2>3. (TypeOK /\ CountInv)'
    BY <2>1, <2>2 DEF SortInv, TypeOK, CountInv
  <2>4. (ListInv /\ RowInv)'
    <3>1. \A h \in Hook : /\ (Slots(h))' = Slots(h)
                         /\ (Listed(h))' = Listed(h)
      BY <2>1, RowsKept
    <3>2. Doubled' = Doubled
      BY <2>1 DEF Doubled
    <3>3. ListInv'
      BY <2>1, <3>1 DEF SortInv, ListInv
    <3>4. RowInv'
      BY <2>1, <3>2 DEF SortInv, RowInv
    <3> QED  BY <3>3, <3>4
  <2>5. QueueInv'
    BY <2>1 DEF SortInv, QueueInv, Queued, Draining
  <2>6. OrderInv'
    BY <2>1 DEF SortInv, OrderInv, AllDeps
  <2> QED  BY <2>3, <2>4, <2>5, <2>6 DEF SortInv
<1>2. SortInv /\ [Next]_vars => SortInv'
  BY <1>1, AddEdgesKeeps, RowOverflowKeeps, PhasesKeep, SeedKeeps, RelaxKeeps,
     TakeKeeps, FinishKeeps DEF Next
<1> QED  BY <1>2, SortInit, PTL DEF Spec

-----------------------------------------------------------------------------
(* Dependency sort: what the build answers.                                *)

\* Type correctness of the sort.
THEOREM SortTypeCorrect == Spec => []TypeOK
BY SortHolds, PTL DEF SortInv

\* In a finished run an order of every hook and a dependency graph without
\* cycles are the same thing.
LEMMA CompleteIffAcyclic ==
    ASSUME SortInv, pc = "done"
    PROVE  Len(queue) = N <=> Acyclic
<1> USE DEF SortInv
<1>1. /\ queue \in Seq(Hook) /\ Len(queue) \in Nat
      /\ front = Len(queue) /\ Draining
      /\ \A h \in Hook : Queued(h) <=> inDegree[h] = 0
      /\ \A j \in 1 .. Len(queue) : queue[j] \in Hook
  BY LenProperties DEF TypeOK, QueueInv, Draining
<1>2. Len(queue) = N <=> \A h \in Hook : Queued(h)
  <2>1. \A j, k \in 1 .. Len(queue) : queue[j] = queue[k] => j = k
    BY DEF QueueInv
  <2> QED  BY <1>1, <2>1, QueueCounts DEF Queued
<1>3. ASSUME \A h \in Hook : Queued(h), NEW S \in SUBSET Hook, S # {}
      PROVE  \E h \in S : AllDeps(h) \intersect S = {}
  <2> DEFINE J == {j \in 1 .. Len(queue) : queue[j] \in S}
  <2>1. J \in SUBSET Nat /\ J # {}
    BY <1>1, <1>3 DEF Queued
  <2>2. PICK m \in J : \A j \in J : m <= j
    <3> HIDE DEF J
    <3> QED  BY <2>1, LeastOf
  <2>3. ASSUME NEW d \in AllDeps(queue[m]), d \in S PROVE FALSE
    <3>1. PICK j \in 1 .. (m - 1) : queue[j] = d
      BY <2>2 DEF OrderInv
    <3>2. j \in J /\ j < m
      BY <1>1, <2>2, <2>3, <3>1
    <3> QED  BY <1>1, <2>2, <3>2
  <2> QED  BY <2>2, <2>3
<1>4. ASSUME Acyclic PROVE \A h \in Hook : Queued(h)
  <2> DEFINE S == {h \in Hook : ~Queued(h)}
  <2> SUFFICES ASSUME S # {} PROVE FALSE
    OBVIOUS
  <2>1. PICK h \in S : AllDeps(h) \intersect S = {}
    BY <1>4 DEF Acyclic
  <2>2. Open(h) # {}
    BY <1>1, <2>1, SlotsAreFinite DEF CountInv
  <2>3. PICK e \in Slots(h) : ~Relaxed(e)
    BY <1>1, <2>2 DEF Open
  <2>4. e[1] \in Hook /\ e[1] \in AllDeps(h)
    <3>1. e[1] \in Hook
      BY DEF Slots
    <3>2. Listed(h)
      BY <2>1 DEF ListInv
    <3> QED  BY <3>1, <3>2 DEF Listed
  <2>5. Queued(e[1])
    BY <2>1, <2>4
  <2> QED  BY <1>1, <2>3, <2>5 DEF Queued, Relaxed
<1> QED  BY <1>2, <1>3, <1>4 DEF Acyclic

\* The build rejects exactly the cyclic graphs, and a row of adj overflows only
\* if some hook names a dependency twice.
THEOREM SortVerdictIsRight == Spec => []VerdictIsRight
<1>1. SortInv => VerdictIsRight
  <2> SUFFICES ASSUME SortInv PROVE VerdictIsRight
    OBVIOUS
  <2>1. pc = "done" => (Len(queue) = N <=> Acyclic)
    BY CompleteIffAcyclic
  <2>2. pc = "overflow" => \E h \in Hook : hard[h] \intersect soft[h] # {}
    BY DEF SortInv, RowInv, Doubled
  <2> QED  BY <2>1, <2>2 DEF VerdictIsRight
<1> QED  BY <1>1, SortHolds, PTL

\* An accepted order has every hook once, after all its dependencies.
THEOREM SortOrderIsTopological == Spec => []OrderIsTopological
<1>1. SortInv => OrderIsTopological
  <2> SUFFICES ASSUME SortInv, pc = "done", Len(queue) = N
               PROVE  /\ \A h \in Hook : \E k \in 1 .. N : queue[k] = h
                      /\ \A k \in 1 .. N : \A d \in AllDeps(queue[k]) :
                           \E j \in 1 .. (k - 1) : queue[j] = d
    BY DEF OrderIsTopological
  <2>1. /\ queue \in Seq(Hook)
        /\ \A j, k \in 1 .. Len(queue) : queue[j] = queue[k] => j = k
    BY DEF SortInv, TypeOK, QueueInv
  <2>2. \A h \in Hook : \E k \in 1 .. N : queue[k] = h
    BY <2>1, QueueCounts
  <2>3. \A k \in 1 .. N : \A d \in AllDeps(queue[k]) :
          \E j \in 1 .. (k - 1) : queue[j] = d
    BY DEF SortInv, OrderInv
  <2> QED  BY <2>2, <2>3
<1> QED  BY <1>1, SortHolds, PTL

\* The order as the registry has it, and what module HookGraph assumes of it:
\* it lists every hook once, and no hook before a hard dependency of its own.
InstallOrder == [k \in Hook |-> queue[k + 1]]
IsInstallOrder ==
    /\ InstallOrder \in [Hook -> Hook]
    /\ \A h \in Hook : \E k \in Hook : InstallOrder[k] = h
    /\ \A j, k \in Hook : InstallOrder[j] = InstallOrder[k] => j = k
    /\ \A j, k \in Hook :
         InstallOrder[j] \in hard[InstallOrder[k]] => j < k

\* What the registry takes on trust, the sort delivers: every order that passes
\* the static_assert satisfies InstallOrderAssumption of module HookGraph.
THEOREM SortDeliversInstallOrder ==
    Spec => [](pc = "done" /\ Len(queue) = N => IsInstallOrder)
<1>1. SortInv => (pc = "done" /\ Len(queue) = N => IsInstallOrder)
  <2> SUFFICES ASSUME SortInv, pc = "done", Len(queue) = N
               PROVE  IsInstallOrder
    OBVIOUS
  <2>1. /\ queue \in Seq(Hook)
        /\ \A j, k \in 1 .. Len(queue) : queue[j] = queue[k] => j = k
    BY DEF SortInv, TypeOK, QueueInv
  <2>2. /\ N \in Nat
        /\ \A k \in Hook : k \in Nat /\ k + 1 \in 1 .. N
        /\ \A k \in 1 .. N : k - 1 \in Hook /\ (k - 1) + 1 = k
    BY HooksAreFinite DEF Hook
  <2>3. ASSUME NEW k \in Hook
        PROVE  InstallOrder[k] = queue[k + 1] /\ queue[k + 1] \in Hook
    BY <2>1, <2>2 DEF InstallOrder
  <2>4. InstallOrder \in [Hook -> Hook]
    BY <2>3 DEF InstallOrder
  <2>5. ASSUME NEW h \in Hook PROVE \E k \in Hook : InstallOrder[k] = h
    <3>1. PICK k \in 1 .. N : queue[k] = h
      BY <2>1, QueueCounts
    <3>2. k - 1 \in Hook /\ InstallOrder[k - 1] = h
      BY <2>2, <2>3, <3>1
    <3> QED  BY <3>2
  <2>6. ASSUME NEW j \in Hook, NEW k \in Hook, InstallOrder[j] = InstallOrder[k]
        PROVE  j = k
    <3>1. j + 1 = k + 1
      BY <2>1, <2>2, <2>3, <2>6
    <3> QED  BY <2>2, <3>1
  <2>7. ASSUME NEW j \in Hook, NEW k \in Hook,
               InstallOrder[j] \in hard[InstallOrder[k]]
        PROVE  j < k
    <3>1. queue[j + 1] \in AllDeps(queue[k + 1])
      BY <2>3, <2>7 DEF AllDeps
    <3>2. PICK m \in 1 .. k : queue[m] = queue[j + 1]
      <4>1. PICK m \in 1 .. ((k + 1) - 1) : queue[m] = queue[j + 1]
        BY <2>2, <3>1 DEF SortInv, OrderInv
      <4> QED  BY <2>2, <4>1
    <3>3. m \in 1 .. N
      BY <2>2, <3>2
    <3>4. m = j + 1
      BY <2>1, <2>2, <3>2, <3>3
    <3> QED  BY <2>2, <3>2, <3>4
  <2> QED  BY <2>4, <2>5, <2>6, <2>7 DEF IsInstallOrder
<1> QED  BY <1>1, SortHolds, PTL
=============================================================================
