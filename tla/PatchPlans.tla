----------------------------- MODULE PatchPlans -----------------------------
(***************************************************************************)
(* What each hook's install asks of the patching layer, in order.  A site  *)
(* is an address relative to its function; functions lie Function apart,   *)
(* further than any address of one site is looked for near another.        *)
(*                                                                         *)
(* op:       "write"   mem::write, nop and ret: bytes replaced             *)
(*           "replace" make_hook(addr, end): bytes erased, then a jump     *)
(*           "hook"    make_hook(addr): a jump, the bytes move elsewhere   *)
(* len:      bytes written or erased, 0 for a plain hook                   *)
(* puts:     what a write may leave there: the plugin's bytes, nops, or    *)
(*           the game's own bytes again                                    *)
(* emulates: whether the callback does the work of the erased bytes; one   *)
(*           that sends the thread past the moved bytes is not told apart  *)
(* onFail:   what install does when the request fails: "stop" (return      *)
(*           false), "undo" (drop the hooks made so far, return false) or  *)
(*           "next" (attempt the others regardless)                        *)
(* again:    whether on_reload repeats the requests                        *)
(***************************************************************************)
EXTENDS Integers, Sequences, SequencesExt

Function == 1000

Write(addr, n, puts) ==
    [op |-> "write", addr |-> addr, len |-> n, puts |-> puts,
     emulates |-> FALSE]
Nop(addr, n) == Write(addr, n, {"nop"})
Ret(addr) == Write(addr, 1, {"data"})
Replace(addr, n) ==
    [op |-> "replace", addr |-> addr, len |-> n, puts |-> {"nop"},
     emulates |-> TRUE]
Hook(addr, emulates) ==
    [op |-> "hook", addr |-> addr, len |-> 0, puts |-> {},
     emulates |-> emulates]

Plan(requests, onFail, again) ==
    [requests |-> requests, onFail |-> onFail, again |-> again]

-----------------------------------------------------------------------------
(* Rogue.                                                                  *)

\* The last site of these three is an optional pattern.
GameState ==
    Plan(<<Replace(0, 7), Replace(Function, 8), Replace(2 * Function, 7)>>,
         "stop", FALSE)
ViewportFitting ==
    Plan(<<Replace(0, 8), Replace(Function, 8), Replace(2 * Function, 38)>>,
         "stop", FALSE)
\* The range is two offsets of one pattern, 0x52 apart.
ViewportScaling ==
    Plan(<<Replace(0, 82), Replace(Function, 20)>>, "stop", FALSE)

DisplayDetection == Plan(<<Replace(0, 7)>>, "stop", FALSE)
FovCorrection == Plan(<<Replace(0, 5)>>, "stop", FALSE)

\* UnlockAll: the bitfield callback, then the body of get_game_id replaced by
\* a callback and a return behind its jump.
RogueLanguage ==
    Plan(<<Replace(0, 7),
           Nop(Function, 9), Hook(Function, TRUE), Ret(Function + 5)>>,
         "stop", FALSE)

\* One callback in front of the game's code.
OneHook == Plan(<<Hook(0, FALSE)>>, "stop", FALSE)

FullModeList == OneHook
ModeIndexGuard == OneHook
MouseSmoothing == OneHook
CameraLean == Plan(<<Hook(0, FALSE), Hook(Function, FALSE)>>, "undo", FALSE)
RogueFps == Plan(<<Write(0, 4, {"data"})>>, "next", TRUE)

(* Syndicate.                                                              *)

CameraSmoothing == Plan(<<Write(0, 1, {"data", "game"})>>, "next", TRUE)
\* The flag gate, the branch ten bytes on, and the constant.
SyndicateFps ==
    Plan(<<Write(0, 6, {"nop", "game"}), Write(10, 1, {"data", "game"}),
           Write(Function, 4, {"data", "game"})>>,
         "next", TRUE)
Ds4v2Fix == Plan(<<Replace(0, 10)>>, "stop", FALSE)
PlatformSpecsFix == Plan(<<Ret(0)>>, "stop", FALSE)
ResolutionFix == OneHook
AspectRatioFix == OneHook
PromptOverride == OneHook
SyndicateLanguage == OneHook

WithoutOptional(plan) == [plan EXCEPT !.requests = Front(@)]

AllPlans ==
    {GameState, ViewportFitting, ViewportScaling, DisplayDetection,
     FovCorrection, RogueLanguage, FullModeList, ModeIndexGuard,
     MouseSmoothing, CameraLean, RogueFps}
    \union
    {CameraSmoothing, SyndicateFps, Ds4v2Fix, PlatformSpecsFix, ResolutionFix,
     AspectRatioFix, PromptOverride, SyndicateLanguage}
    \union {WithoutOptional(p) :
              p \in {GameState, ViewportFitting, ViewportScaling}}
=============================================================================
