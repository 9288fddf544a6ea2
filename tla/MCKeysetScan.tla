----------------------------- MODULE MCKeysetScan -----------------------------
(* Small instances of KeysetScan: five rows, two of which share a key, so  *)
(* that the unique index has something to forbid; pages of one, two and    *)
(* (asked for as zero) the default of two rows.                            *)
EXTENDS KeysetScan

MCRows == 1..5
MCKeyOf == <<1, 2, 2, 3, 4>>
MCPageSizes == {0, 1}

(* The List methods that do not read rows.Err after the last row.          *)
UncheckedLists == {l \in AllLists : ~l.checksRowsErr}

=============================================================================
