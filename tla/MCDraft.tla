------------------------------ MODULE MCDraft ------------------------------
(* Small instances of Draft. *)
EXTENDS Draft

CONSTANTS x, y

\* One pack, with two cards of one name.
LongPacks == {<<x, y, x>>}

=============================================================================
