-------------------------- MODULE MCImportPipeline --------------------------
(***************************************************************************)
(* ImportPipeline for TLC: sheets of two rows that have passwords, repeat  *)
(* a device, and mix tested, annotated and rejected rows.                  *)
(***************************************************************************)
EXTENDS ImportPipeline, TLC

CONSTANTS k1, k2, k3

MCRow(kind, key) == [kind |-> kind, key |-> key]

MCSheets ==
    {<<MCRow("password", k1), MCRow("password", k2)>>,
     <<MCRow("annotated", k1), MCRow("password", k1)>>,
     <<MCRow("annotated", k3), MCRow("password", k1)>>,
     <<MCRow("invalid", k1), MCRow("password", k2)>>}

OneDevice == {<<MCRow("password", k1)>>}

=============================================================================
