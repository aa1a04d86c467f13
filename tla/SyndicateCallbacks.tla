------------------------- MODULE SyndicateCallbacks -------------------------
(***************************************************************************)
(* What Syndicate's callbacks work out for one call of the game, as a      *)
(* function of what they read.  A ratio is a pair <<width, height>>.       *)
(***************************************************************************)
EXTENDS Integers

-----------------------------------------------------------------------------
(* AspectRatioFix, at the tail of the game's recompute.  Of the renderer's *)
(* three parallel blocks the recompute writes one, computed, and the       *)
(* viewport is read from another, active.                                  *)

\* The ratio to mirror: the one the INI gives, or the one of the mode; <<0, 0>>
\* where no mode is known and everything is left alone.
RatioToMirror(setting, w, h) ==
    IF setting[1] > 0 THEN setting
    ELSE IF w = 0 \/ h = 0 THEN <<0, 0>> ELSE <<w, h>>

MirrorAspect(enabled, state, setting, w, h) ==
    LET ratio == RatioToMirror(setting, w, h)
        computed == [state.computed EXCEPT !.ratio_primary = ratio,
                                           !.ratio_fallback = ratio]
    IN  IF ~enabled \/ ratio = <<0, 0>> THEN state
        ELSE [computed |-> computed,
              active |-> [state.active EXCEPT
                            !.gates = computed.gates,
                            !.ratio_primary = ratio,
                            !.ratio_fallback = ratio]]

\* DisplayMode_ComputeViewport, the game's own: the gates choose the ratio.
RatioRead(block) ==
    IF block.gates.primary /\ block.gates.secondary
    THEN block.ratio_primary ELSE block.ratio_fallback

-----------------------------------------------------------------------------
(* ResolutionFix: only modes of a standard aspect enter the game's list.   *)

StandardAspects ==
    {<<16, 9>>, <<16, 10>>, <<8, 5>>, <<21, 9>>, <<64, 27>>, <<43, 18>>,
     <<32, 9>>, <<5, 4>>, <<4, 3>>, <<3, 2>>}

CommonDivisors(w, h) == {d \in 1 .. w : w % d = 0 /\ h % d = 0}

Gcd(w, h) ==
    CHOOSE d \in CommonDivisors(w, h) : \A e \in CommonDivisors(w, h) : e <= d

IsStandardAspect(w, h) ==
    \/ w = 0 \/ h = 0
    \/ LET g == Gcd(w, h) IN <<w \div g, h \div g>> \in StandardAspects

-----------------------------------------------------------------------------
(* PromptOverride and DS4v2Fix.  A place to go on at: "entry" is the bytes *)
(* the hook moved, "after" the code behind the bytes it erased, "return"   *)
(* and "skip" the addresses install worked out.                            *)

\* OverrideDeviceType; a keyboard is device type 0, and null stands for any
\* of the pointers on the way to the slot.
PromptShown(enabled, null, device_type, type) ==
    IF null \/ device_type = 0 \/ ~enabled
    THEN [shown |-> device_type, goes |-> "entry"]
    ELSE [shown |-> type, goes |-> "return"]

Ds4Pids == {1476, 2508}     \* 0x05C4 and 0x09CC

\* CheckDS4PID stands for the erased compare and jump, on the low 16 bits.
ControllerCheck(rax) == IF rax % 65536 \in Ds4Pids THEN "after" ELSE "skip"
=============================================================================
