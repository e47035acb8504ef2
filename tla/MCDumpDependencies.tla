-------------------------- MODULE MCDumpDependencies --------------------------
(***************************************************************************)
(* An instance of DumpDependencies for TLC.                                *)
(***************************************************************************)
EXTENDS DumpDependencies

\* Seven lines: room for two ranges of three ids, or a range between two pairs.
MCId == 1..7
===============================================================================
