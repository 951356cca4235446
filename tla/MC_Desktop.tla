----------------------------- MODULE MC_Desktop -----------------------------
(***************************************************************************)
(* The desktop, one part in each behaviour: its windows under the commands *)
(* of a user, and the files of its configuration.                          *)
(***************************************************************************)
EXTENDS Desktop, DesktopConfig

VARIABLE part

desktopVars == <<part, windowVars, configVars>>

Sections == <<<<"}", "">>, <<"{", "general">>, <<"gaps_in", "99">>, <<"?", "">>, <<"}", "">>,
              <<"source", "extra">>, <<"bogus", "1">>>>
Circle == <<<<"source", "local">>, <<"source", "user">>, <<"source", "a/b">>,
            <<"input:follow_mouse", "2">>, <<"general:layout", "a/b">>, <<"plugin", "x">>>>

\* An empty file, a comment, an unsafe section, sections and a value out of
\* range, and includes that go in a circle.
MCTexts == {<<>>, <<<<"#", "">>>>, <<<<"={", "">>>>, Sections, Circle}

\* A fresh system, and one with files of the user that include each other.
MCStart == {<<>>, ("local" :> Sections) @@ ("extra" :> Circle)}

\* The part that stands still is in one initial state.
DesktopPartsInit ==
  /\ part \in {"windows", "configuration"} /\ DesktopInit /\ ConfigInit
  /\ IF part = "windows" THEN "extra" \notin DOMAIN files ELSE session.group = "keys"
DesktopPartsNext ==
  /\ UNCHANGED part
  /\ \/ part = "windows" /\ DesktopNext /\ UNCHANGED configVars
     \/ part = "configuration" /\ ConfigNext /\ UNCHANGED windowVars
DesktopPartsSpec == DesktopPartsInit /\ [][DesktopPartsNext]_desktopVars
-----------------------------------------------------------------------------
\* Whatever writes were refused, a configuration that was applied is settled,
\* sync and keywords keep their values over a reload, and desktop recover
\* makes the files the audit asks for (system/desktop.c).
ConfigurationSound == part = "configuration" => ConfigurationKept
=============================================================================
