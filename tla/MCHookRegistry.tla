--------------------------- MODULE MCHookRegistry ---------------------------
(* Three hooks.  The chain 0 -> 1 -> 2 runs against the list order, so that *)
(* cascade_disable needs a pass per link and the installation order differs *)
(* from the list order.  Hook 1 has no on_reload.                           *)
EXTENDS HookRegistry, TLC

MCHardDeps == 0 :> {1} @@ 1 :> {2} @@ 2 :> {}
MCInstallOrder == 0 :> 2 @@ 1 :> 1 @@ 2 :> 0
MCReloadable == {0, 2}
=============================================================================
