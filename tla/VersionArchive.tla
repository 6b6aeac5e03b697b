--------------------------- MODULE VersionArchive ---------------------------
(***************************************************************************)
(* What a template's history promises to the orders that point into it: a  *)
(* numbered version, once kept, is never lost or altered, and the version  *)
(* the storefront shows is always one that was kept to be shown.           *)
(***************************************************************************)
CONSTANTS Numbers, Contents, Empty, Nowhere

VARIABLES kept, shown

ArchiveInit == kept = [n \in Numbers |-> Empty] /\ shown = Nowhere

Keep(n, c) ==
  /\ kept[n] = Empty
  /\ kept' = [kept EXCEPT ![n] = c]
  /\ shown' \in {shown, n}

ArchiveNext == \E n \in Numbers, c \in Contents : Keep(n, c)

ArchiveSpec == ArchiveInit /\ [][ArchiveNext]_<<kept, shown>>
=============================================================================
