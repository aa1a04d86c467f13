---------------------------- MODULE RogueMotion ----------------------------
(***************************************************************************)
(* What Rogue's input and camera callbacks work out for one call: the      *)
(* filter that makes the game's mouse lag land on the mouse, the pause     *)
(* flag that gates it, the weight of the sprint lean.                      *)
(*                                                                         *)
(* Numbers of the filter are whole parts of a count, 2 * half of them to   *)
(* one; the mouse reports and the game takes whole counts.  A division     *)
(* rounds down, where the code's floats round to the nearest: what is said *)
(* of the filter must hold whatever the rounding.  A smoothing factor is   *)
(* 1 / gain.                                                               *)
(***************************************************************************)
EXTENDS Integers

Smallest(a, b) == IF a < b THEN a ELSE b
Clamp(x, low, high) == IF x < low THEN low ELSE Smallest(x, high)

-----------------------------------------------------------------------------
(* GameState.  A state has the plugin's two statics and the pause flag of  *)
(* each instance of the game's state; 0 is the null pointer.               *)

\* GameUnpause, GamePause, GamePause2: the flag is written through the
\* register of the erased instruction.
SetPause(state, base, pause) ==
    [in_game |-> ~pause,
     cached |-> IF state.cached = 0 THEN base ELSE state.cached,
     pause_flag |-> [state.pause_flag EXCEPT ![base] =
                       IF base = 0 THEN @ ELSE pause]]

-----------------------------------------------------------------------------
(* MouseSmoothing, one axis.  limit: k_mouse_delta_limit.                  *)

Within(x, limit) == -limit <= x /\ x <= limit

\* The game's lag, as the comment of the filter and its test have it.
Lagged(engine, input, gain) == engine + (input - engine) \div gain

\* MouseAxisFilter::reset
ResetFilter(raw) == [estimate |-> raw, carry |-> 0]

\* The delta MouseAxisFilter::apply works out, and goes on with.
Delta(filter, raw, gain, limit) ==
    Clamp(filter.estimate + (raw + filter.carry - filter.estimate) * gain,
          -limit, limit)

\* What it hands to the game: the nearest whole count, away from zero at a half.
Handed(delta, half) ==
    LET count == 2 * half
        Nearest(x) == count * ((x + half) \div count)
    IN  IF delta < 0 THEN -Nearest(-delta) ELSE Nearest(delta)

\* The filter apply leaves.
Applied(filter, raw, gain, limit) ==
    LET estimate ==
          Lagged(filter.estimate, Delta(filter, raw, gain, limit), gain)
    IN  [estimate |-> estimate,
         carry |-> Clamp(raw + filter.carry - estimate, -limit, limit)]

\* MouseSmoothingFunctor.  active: the fix is on, its factor is from 0.02 to
\* below 1, and the player is in the game.
FilterAfter(active, filter, raw, gain, limit) ==
    IF active THEN Applied(filter, raw, gain, limit) ELSE ResetFilter(raw)

MouseDelta(active, filter, raw, gain, limit, half) ==
    IF active THEN Handed(Delta(filter, raw, gain, limit), half) ELSE raw

\* factor_active, with 1 / factor.
MaxGain == 50
FactorActive(gain) == 1 < gain /\ gain <= MaxGain

-----------------------------------------------------------------------------
(* CameraLean.  Times are in milliseconds, weights in thousandths.         *)

MaxPlausibleDt == 200
MaxScale == 4000

\* SampleFrameTime: the smoothed frame time after a tick of the clock.  0: no
\* frame has been measured.
SmoothedDt(dt, prev, ticks) ==
    IF prev = 0 \/ ticks <= prev \/ ticks - prev > MaxPlausibleDt THEN dt
    ELSE IF dt <= 0 THEN ticks - prev
    ELSE dt + (ticks - prev - dt) \div 20

\* binding_targets: the owners of the entries, none for a null array.
BindingTargets(entries, fx) == \E i \in DOMAIN entries : entries[i] = fx

\* ScaleTrackWeight: an additive track of the camera's effects object (fx,
\* null when there is no camera) is scaled.
ScaledWeight(additive, entries, fx, fps, dt, weight) ==
    IF ~additive \/ fx = 0 \/ ~BindingTargets(entries, fx) THEN 1000 * weight
    ELSE IF fps <= 0 THEN 0
    ELSE IF dt <= 0 THEN 1000 * weight
    ELSE weight * Clamp(dt * fps, 0, MaxScale)

\* on_reload
ReferenceFps(setting) == IF setting < 0 THEN 0 ELSE setting
=============================================================================
