-------------------------- MODULE MCReleasePaging --------------------------
(* An instance of ReleasePaging for TLC: ids 1 .. Created. *)
EXTENDS ReleasePaging

CONSTANT Created      \* bound: releases ever created

MCIds == 1 .. Created
=============================================================================
