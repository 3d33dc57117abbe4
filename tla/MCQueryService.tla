--------------------------- MODULE MCQueryService ---------------------------
(***************************************************************************)
(* One source name with two sources, the built-in DuckDB engine with a     *)
(* factory that can make three of them, and engines registered by the      *)
(* application: a Spark engine, another one to replace it with, and a      *)
(* DuckDB engine of the application's own.                                 *)
(***************************************************************************)
EXTENDS QueryService

CONSTANTS s1, s2, d1, d2, d3, own, spark1, spark2

MCAdapters == {s1, s2, d1, d2, d3, own, spark1, spark2}
MCSourceKeys == {"orders"}
MCEngineKeys == {"duckdb", "spark"}
MCMade == {d1, d2, d3}
MCKeyOf ==
  [a \in MCAdapters |-> IF a \in {s1, s2} THEN "orders"
                        ELSE IF a \in {spark1, spark2} THEN "spark" ELSE "duckdb"]
MCLocal == {d1, d2, d3, own}
MCCompiling == {spark1, spark2}

(* Sources, made engines and Spark engines are interchangeable.            *)
Symmetry ==
  {[a \in MCAdapters |->
      IF a \in {s1, s2} THEN f[a] ELSE IF a \in MCCompiling THEN g[a] ELSE a] :
     f \in {h \in [{s1, s2} -> {s1, s2}] : h[s1] # h[s2]},
     g \in {h \in [MCCompiling -> MCCompiling] : h[spark1] # h[spark2]}}

=============================================================================
