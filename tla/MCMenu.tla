------------------------------- MODULE MCMenu -------------------------------
(* Instances of AdrenalineMenu for TLC.                                    *)
EXTENDS AdrenalineMenu

OneButton    == {{b} : b \in Buttons}
CancelEnter  == {{"CANCEL"}, {"ENTER"}, {"CANCEL", "ENTER"}}
JustList     == {"achievements"}
JustGame     == {"game"}
EveryApp     == AllApps
QuietEntries == AllEntries \ {"achievements"}
ListEntry    == {"close", "achievements"}

=============================================================================
