----------------------------- MODULE MCPipeline -----------------------------
(* Two lines that share their item, or two with items of their own, the    *)
(* second of an earlier time.                                              *)
EXTENDS Pipeline

CONSTANTS cpu, mem, tick
ManyLineKeys == {<< <<cpu, 1>>, <<cpu, 1>> >>, << <<cpu, 2>>, <<mem, 1>> >>}
=============================================================================
