----------------------------- MODULE MCRspLink -----------------------------
(* RspLink alone: a command is only the way it is served, a reply says *)
(* nothing.                                                            *)
EXTENDS RspLink

MCRequests == [kind : Kinds]
MCBodies   == {"any"}
=============================================================================
