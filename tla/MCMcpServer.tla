------------------------------ MODULE MCMcpServer ------------------------------
(* Model-checking instance of McpServer: two revisions that differ in both *)
(* files, one of them deleted by the second; a toolset without the risk    *)
(* gates, with a name that call_tool does not know.  The visible answers   *)
(* have up to three items over two paths, and lists that are cut further   *)
(* keep one or two rows.                                                   *)
EXTENDS McpServer

CONSTANTS a, b, t1, t2, r1, r2

MCTools == {"orient", "expand", "search_graph", "scan_risks", "ingest_runtime_evidence",
            "get_outline", "find_similar", "memory_record"}

MCCommitted ==
  [r \in Revs |-> [p \in Paths |->
     IF r = r1 THEN t1 ELSE IF p = a THEN t2 ELSE None]]

MCMost == [results |-> 2, issues |-> 1, symbol_communities |-> 2, unindexed |-> 2,
           import_gaps |-> 2, coverage_gaps |-> 2]
=============================================================================
