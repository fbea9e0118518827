-------------------------- MODULE MC_LayoutRuntime --------------------------
(* Instance: the pair, and a reordered pair with a third layout; a session   *)
(* that is detected late, on X11 and on GNOME, and one that is first taken   *)
(* for X11 and turns out to be GNOME on Wayland.                             *)
EXTENDS LayoutRuntime

MCSetups == {<<"us", "ru">>, <<"ru", "gb", "de">>}

Ctx(s, d) == [session |-> s, desktop |-> d, distro |-> "Unknown"]
MCContexts == {Ctx("Unknown", "Unknown"), Ctx("X11", "Unknown"),
               Ctx("Wayland", "Gnome")}
=============================================================================
