--------------------------- MODULE LanguageUnlock ---------------------------
(***************************************************************************)
(* Rogue's LanguageUnlock hook beside the game's startup.  install runs on *)
(* the init thread, on_reload on the watcher's, the callback on the game's *)
(* own thread, which may be anywhere in its startup when install runs.     *)
(* The three share two globals of the game, its bitfield of languages and  *)
(* the hook's statics, without a lock.                                     *)
(*                                                                         *)
(* The platform half of a game id is the answer of the game's IsSteam and  *)
(* is left out.  Arming and erasing are as PatchSite takes them apart.     *)
(***************************************************************************)

CONSTANT Editions   \* the sets of languages that editions of the game come with

Unlockable == {"English", "Russian", "Korean", "ChineseTrad"}   \* k_all_menu

ASSUME EditionsKnown == Editions \subseteq SUBSET Unlockable

UILanguages == {"None", "English", "French"}

VARIABLES
    bits,       \* the languages of this edition of the game, never changed
    place,      \* where the game's thread is in its startup, see GamePlace
    copied,     \* GameInit has copied the language index
    menu_bf,    \* the game's bitfield
    ui_lang, lang_idx,      \* g_uiLanguage, g_languageIndex; "own": the game's
    bf_hook,    \* the callback is armed
    id_code,    \* get_game_id: "own", "stub", or "torn": erased in part
    s_real_game_id, s_ui_language, s_current_language,
    resolved,   \* the globals whose address install has found
    step,       \* where install or on_reload is, see PluginPlace; "off": the hook
                \* is installed, and the last reload has left it disabled
    new_lang,   \* the language the INI asks for
    fresh,      \* history: the game has written menu_bf since the pre-patch
    quiet       \* history: the game's startup has not met a switch

game == <<bits, copied, menu_bf, ui_lang, lang_idx>>
code == <<bf_hook, id_code>>
statics == <<s_real_game_id, s_ui_language, s_current_language, resolved>>
languageVars == <<game, place, code, statics, step, new_lang, fresh, quiet>>

InCallback == {"snapshot", "patched", "indexed"}
GamePlace == {"boot", "written", "passed", "unlocked"} \union InCallback
InstallPlace == {"override only", "override", "resolve", "prepatch", "arm", "stub"}
ReloadPlace == {"reload", "index"}
PluginPlace == {"out", "idle", "off", "failed"} \union InstallPlace \union ReloadPlace

LanguageTypeOK ==
    /\ bits \subseteq Unlockable /\ menu_bf \subseteq Unlockable
    /\ place \in GamePlace /\ step \in PluginPlace
    /\ ui_lang \in UILanguages \union {"own"}
    /\ lang_idx \in UILanguages \union {"own"}
    /\ s_ui_language \in UILanguages /\ s_current_language \in UILanguages
    /\ new_lang \in UILanguages /\ resolved \subseteq {"ui", "idx"}
    /\ s_real_game_id \in {"ww", "ru", "asia"}
    /\ id_code \in {"own", "stub", "torn"}
    /\ copied \in BOOLEAN /\ bf_hook \in BOOLEAN
    /\ fresh \in BOOLEAN /\ quiet \in BOOLEAN

LanguageInit ==
    /\ bits \in Editions
    /\ place = "boot" /\ copied = FALSE
    /\ menu_bf = {} /\ ui_lang = "own" /\ lang_idx = "own"
    /\ bf_hook = FALSE /\ id_code = "own"
    /\ s_real_game_id = "ww"
    /\ s_ui_language = "None" /\ s_current_language = "None"
    /\ resolved = {}
    /\ step = "out"
    /\ new_lang = "None"
    /\ fresh = FALSE /\ quiet = TRUE

\* The edition a set of languages stands for.
RealGameId(orig) ==
    IF "Russian" \in orig THEN "ru"
    ELSE IF {"Korean", "ChineseTrad"} \subseteq orig THEN "asia" ELSE "ww"

-----------------------------------------------------------------------------
(* The game's startup.  From a switch on, what the game writes is not what *)
(* the plugin has switched to.                                             *)

Switched == step \in ReloadPlace \/ s_current_language # s_ui_language

LoadLanguageFile ==
    /\ place \notin InCallback
    /\ menu_bf' = bits /\ fresh' = TRUE
    /\ place' = "written"
    /\ UNCHANGED <<bits, copied, ui_lang, lang_idx, code, statics, step, new_lang,
                   quiet>>

GameInitCopiesIndex ==
    /\ ~copied
    /\ copied' = TRUE
    /\ ui_lang' = lang_idx
    /\ quiet' = (quiet /\ ~Switched)
    /\ UNCHANGED <<bits, place, menu_bf, lang_idx, code, statics, step, new_lang,
                   fresh>>

\* lang_setup without the hook.
PassSetup ==
    /\ place = "written" /\ ~bf_hook
    /\ place' = "passed"
    /\ UNCHANGED <<game, code, statics, step, new_lang, fresh, quiet>>

\* Mutant: the bitfield is overwritten before it is read.
TakeSnapshot_PatchedFirst ==
    /\ place = "written" /\ bf_hook
    /\ menu_bf' = Unlockable
    /\ s_real_game_id' = RealGameId(menu_bf')
    /\ place' = "snapshot"
    /\ quiet' = (quiet /\ ~Switched)
    /\ UNCHANGED <<bits, copied, ui_lang, lang_idx, code, s_ui_language,
                   s_current_language, resolved, step, new_lang, fresh>>

\* lang_setup with it: LangBitfieldPatch reads the bitfield,
TakeSnapshot ==
    /\ place = "written" /\ bf_hook
    /\ s_real_game_id' = RealGameId(menu_bf)
    /\ place' = "snapshot"
    /\ quiet' = (quiet /\ ~Switched)
    /\ UNCHANGED <<game, code, s_ui_language, s_current_language, resolved, step,
                   new_lang, fresh>>

\* overwrites it,
PatchBitfields ==
    /\ place = "snapshot"
    /\ menu_bf' = Unlockable
    /\ place' = "patched"
    /\ UNCHANGED <<bits, copied, ui_lang, lang_idx, code, statics, step, new_lang,
                   fresh, quiet>>

\* and sets the language of install again, first in the index,
SetIndexAgain ==
    /\ place = "patched"
    /\ lang_idx' = IF s_ui_language # "None" /\ "idx" \in resolved
                   THEN s_ui_language ELSE lang_idx
    /\ place' = "indexed"
    /\ UNCHANGED <<bits, copied, menu_bf, ui_lang, code, statics, step, new_lang,
                   fresh, quiet>>

\* then in the language of the UI.
SetLanguageAgain ==
    /\ place = "indexed"
    /\ ui_lang' = IF s_ui_language # "None" /\ "ui" \in resolved
                  THEN s_ui_language ELSE ui_lang
    /\ place' = "unlocked"
    /\ UNCHANGED <<bits, copied, menu_bf, lang_idx, code, statics, step, new_lang,
                   fresh, quiet>>

Game ==
    \/ LoadLanguageFile \/ GameInitCopiesIndex \/ PassSetup
    \/ TakeSnapshot \/ PatchBitfields \/ SetIndexAgain \/ SetLanguageAgain

-----------------------------------------------------------------------------
(* install.                                                                *)

\* The INI has been read; with nothing asked for, the hook counts as installed.
BeginInstall ==
    /\ step = "out"
    /\ new_lang' \in UILanguages
    /\ s_ui_language' = new_lang'
    /\ \E unlock_all \in BOOLEAN :
         step' = IF new_lang' # "None"
                 THEN IF unlock_all THEN "override" ELSE "override only"
                 ELSE IF unlock_all THEN "resolve" ELSE "idle"
    /\ UNCHANGED <<game, place, code, s_real_game_id, s_current_language, resolved,
                   fresh, quiet>>

\* The addresses behind lang_setup and get_language are found, or not.
OverrideLanguage ==
    /\ step \in {"override", "override only"}
    /\ resolved' \in SUBSET {"ui", "idx"}
    /\ lang_idx' = IF "idx" \in resolved' THEN s_ui_language ELSE lang_idx
    /\ ui_lang' = IF "ui" \in resolved' THEN s_ui_language ELSE ui_lang
    /\ s_current_language' = s_ui_language
    /\ step' = IF step = "override" THEN "resolve" ELSE "idle"
    /\ UNCHANGED <<bits, copied, menu_bf, place, code, s_real_game_id,
                   s_ui_language, new_lang, fresh, quiet>>

ResolveIsSteam ==
    /\ step = "resolve"
    /\ step' \in {"prepatch", "failed"}
    /\ UNCHANGED <<game, place, code, statics, new_lang, fresh, quiet>>

PrePatch ==
    /\ step = "prepatch"
    /\ menu_bf' = Unlockable /\ fresh' = FALSE
    /\ step' = "arm"
    /\ UNCHANGED <<bits, copied, ui_lang, lang_idx, place, code, statics, new_lang,
                   quiet>>

ArmBitfieldHook ==
    /\ step = "arm"
    /\ \/ bf_hook' = TRUE /\ step' = "stub"
       \/ UNCHANGED bf_hook /\ step' = "failed"
    /\ UNCHANGED <<game, place, id_code, statics, new_lang, fresh, quiet>>

\* nop, hook and return: each can fail and leaves what the ones before it did.
StubGameId ==
    /\ step = "stub"
    /\ \/ id_code' = "stub" /\ step' = "idle"
       \/ id_code' \in {"own", "torn"} /\ step' = "failed"
    /\ UNCHANGED <<game, place, bf_hook, statics, new_lang, fresh, quiet>>

Install ==
    \/ BeginInstall \/ OverrideLanguage \/ ResolveIsSteam \/ PrePatch
    \/ ArmBitfieldHook \/ StubGameId

-----------------------------------------------------------------------------
(* on_reload, which the registry calls for an installed hook that is       *)
(* enabled; it has loaded the configuration in either case.  The hook's    *)
(* callbacks do not ask whether it is enabled.                             *)

ReloadConfig ==
    /\ step \in {"idle", "off"}
    /\ new_lang' \in UILanguages
    /\ step' \in {"reload", "off"}
    /\ UNCHANGED <<game, place, code, statics, fresh, quiet>>

\* Mutant: the new language is compared with the one of install.
NothingToSwitch_Installed == new_lang \in {s_ui_language, "None"}

\* No change, or a return to the game's own language, which needs a restart.
NothingToSwitch == new_lang \in {s_current_language, "None"}

KeepLanguage ==
    /\ step = "reload" /\ NothingToSwitch
    /\ step' = "idle"
    /\ UNCHANGED <<game, place, code, statics, new_lang, fresh, quiet>>

\* First the language of the UI, in the opposite order to the callback,
SwitchLanguage ==
    /\ step = "reload" /\ ~NothingToSwitch
    /\ ui_lang' = IF "ui" \in resolved THEN new_lang ELSE ui_lang
    /\ step' = "index"
    /\ quiet' = (place \notin InCallback)
    /\ UNCHANGED <<bits, copied, menu_bf, lang_idx, place, code, statics, new_lang,
                   fresh>>

\* then the index, the strings of the game and the hook's own note.
SwitchIndex ==
    /\ step = "index"
    /\ lang_idx' = IF "idx" \in resolved THEN new_lang ELSE lang_idx
    /\ s_current_language' = new_lang
    /\ step' = "idle"
    /\ UNCHANGED <<bits, copied, menu_bf, ui_lang, place, code, s_real_game_id,
                   s_ui_language, resolved, new_lang, fresh, quiet>>

OnReload == KeepLanguage \/ SwitchLanguage \/ SwitchIndex

-----------------------------------------------------------------------------
(* Properties.                                                             *)

\* LangBitfieldPatch, and the comment on the pre-patch: if the game's loader has
\* written the bitfield since install overwrote it, the game has all languages
\* behind lang_setup and get_game_id still answers with its own edition, however
\* often the file is loaded and wherever install began.
OwnEdition ==
    (id_code = "stub" /\ place = "unlocked" /\ fresh) =>
        menu_bf = Unlockable /\ s_real_game_id = RealGameId(bits)

\* on_reload against the callback: while the last reload has left the hook enabled,
\* the newest language the INI has asked for is in both globals, if both were found
\* and the game's startup has not come between.  It may have been asked for while
\* the hook was disabled, or be one the hook had set before.
NewestLanguageSet ==
    (/\ step = "idle" /\ place \notin InCallback
     /\ quiet /\ new_lang # "None" /\ {"ui", "idx"} \subseteq resolved)
    => ui_lang = new_lang /\ lang_idx = new_lang
=============================================================================
