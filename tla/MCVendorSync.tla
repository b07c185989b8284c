---------------------------- MODULE MCVendorSync ----------------------------
(***************************************************************************)
(* Two dependencies, one of them pinned with skip_update; a command names  *)
(* either or both.                                                         *)
(***************************************************************************)
EXTENDS VendorSync

CONSTANTS fmtlog, fmt

SmallSelections == {<<fmtlog>>, <<fmt>>, <<fmtlog, fmt>>}
=============================================================================
