------------------------------ MODULE Neo4jSource ------------------------------
(***************************************************************************)
(* The driver of a Neo4j source (adapters/sources/neo4j.py): made with the *)
(* source, and shared by schema discovery and every scan, each of which    *)
(* has a session of it.                                                    *)
(***************************************************************************)
EXTENDS ClientSource

Init ==
  /\ StreamsInit
  /\ primary = IF owned THEN CHOOSE k \in Connections : k # Injected ELSE Injected
  /\ live = {Injected, primary}
  /\ schema \in BOOLEAN
  /\ dropped = None

-----------------------------------------------------------------------------
(* schema(): one that is declared or cached is returned without a look at  *)
(* _closed.  The sessions of a discovery end with it.                      *)

SchemaReturns ==
  /\ schema \/ ~ closed
  /\ schema' = TRUE

(* The source is closed, the discovery fails, or it finds no properties.   *)
SchemaRaises ==
  /\ ~ schema
  /\ UNCHANGED schema

ReadSchema ==
  /\ SchemaReturns \/ SchemaRaises
  /\ UNCHANGED <<owned, primary, streams, closed, live, scanVars, closeVars, dropped>>

-----------------------------------------------------------------------------
(* scan().                                                                 *)

ScanSchema(c) ==
  /\ pc[c] = "start"
  /\ \/ ~ closed /\ SchemaReturns /\ Go(c, "open")
     \/ SchemaRaises /\ Go(c, "failed")
     \/ closed /\ UNCHANGED schema /\ Go(c, "failed")
  /\ UNCHANGED <<owned, primary, streams, closed, live, session, cursor, stream, closeVars, dropped>>

(* _session looks at _closed, without the lock, then asks the driver.      *)
CheckOpen(c) ==
  /\ pc[c] = "open" /\ ~ closed
  /\ Go(c, "session")
  /\ UNCHANGED <<sourceVars, session, cursor, stream, closeVars, dropped>>

OpenSession(c) ==
  /\ pc[c] = "session"
  /\ cursor' = [cursor EXCEPT ![c] = "open"]
  /\ Go(c, "execute")
  /\ UNCHANGED <<sourceVars, session, stream, closeVars, dropped>>

(* An unknown column, a predicate without Cypher, a closed source, or a    *)
(* driver that gives no session.                                           *)
OpenSessionRaises(c) ==
  /\ pc[c] \in {"open", "session"}
  /\ Go(c, "failed")
  /\ UNCHANGED <<sourceVars, session, cursor, stream, closeVars, dropped>>

Run(c) ==
  /\ pc[c] = "execute"
  /\ Go(c, "register")
  /\ UNCHANGED <<sourceVars, session, cursor, stream, closeVars, dropped>>

(* The query is refused and the session closed.                            *)
RunRaises(c) ==
  /\ pc[c] = "execute"
  /\ CloseCursor(c)
  /\ Go(c, "failed")
  /\ UNCHANGED <<sourceVars, session, stream, closeVars, dropped>>

-----------------------------------------------------------------------------
Close == TakeStreams /\ UNCHANGED <<primary, dropped>>

CloseReturns == CloseClient(primary) /\ UNCHANGED <<primary, dropped>>

Next ==
  \/ ReadSchema \/ Close \/ CloseReturns
  \/ \E c \in Scans :
       \/ ScanSchema(c) \/ CheckOpen(c) \/ OpenSession(c) \/ OpenSessionRaises(c)
       \/ Run(c) \/ RunRaises(c) \/ Streaming(c)

Spec == Init /\ [][Next]_vars

=============================================================================
