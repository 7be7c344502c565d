----------------------------- MODULE MCProcess ------------------------------
(***************************************************************************)
(* Instances of Process for TLC: a marker of two equal bytes, which can be *)
(* cut in two and can overlap itself.                                      *)
(***************************************************************************)
EXTENDS Process

MCMarker == <<"m", "m">>
MCParsers == {[s \in Streams |-> IF s = "stdout" THEN "split" ELSE "collect"],
              [s \in Streams |-> IF s = "stdout" THEN "live" ELSE "split"]}
=============================================================================
