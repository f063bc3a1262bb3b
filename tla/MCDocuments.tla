---------------------------- MODULE MCDocuments ----------------------------
(***************************************************************************)
(* All classes of Documents, with entities that are typical but for any    *)
(* values of a bounded number of their fields.                             *)
(***************************************************************************)
EXTENDS Documents

MCClasses == DOMAIN Schema
=============================================================================
