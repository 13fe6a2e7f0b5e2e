--------------------------- MODULE MCDurableFile ----------------------------
(***************************************************************************)
(* DurableFile for TLC: the default, another document and a legacy one     *)
(* that migrates to it.                                                    *)
(***************************************************************************)
EXTENDS DurableFile

CONSTANTS default, other, legacy

MCDocuments == {default, other, legacy}
MCMigrate == [d \in MCDocuments |-> IF d = legacy THEN other ELSE d]

=============================================================================
