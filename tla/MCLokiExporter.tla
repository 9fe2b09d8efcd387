--------------------------- MODULE MCLokiExporter ---------------------------
(* Instance of LokiExporter for TLC: entries alternate between two label   *)
(* sets, so that a batch of two or three entries has two streams.          *)
EXTENDS LokiExporter

MCLabelsOf == [e \in Entries |-> IF e % 2 = 1 THEN "request" ELSE "response"]
=============================================================================
