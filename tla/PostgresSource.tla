---------------------------- MODULE PostgresSource ----------------------------
(***************************************************************************)
(* The connections of a PostgreSQL source (adapters/sources/postgres.py).  *)
(* An owned scan takes the source's connection over, or opens one, and     *)
(* closes it at its end; an injected connection is shared and left open.   *)
(* A connection may break at any time, which its `closed` flag then tells. *)
(***************************************************************************)
EXTENDS SourceStreams

VARIABLE broken \* the injected connection was lost

vars == <<sourceVars, scanVars, closeVars, broken>>

Init == StreamsInit /\ Unconnected /\ schema = FALSE /\ broken = FALSE

Fresh == NewConnection({})

(* The server or the network ends a connection.                            *)
Break(k) ==
  /\ k \in live
  /\ live' = live \ {k}
  /\ broken' = (broken \/ k = Injected)
  /\ UNCHANGED <<owned, primary, schema, streams, closed, scanVars, closeVars>>

-----------------------------------------------------------------------------
(* schema().                                                               *)

(* _connect: the open connection, or a new one in the place of an owned    *)
(* one that is missing or broken.                                          *)
Connect ==
  /\ ~ closed
  /\ IF primary \in live
     THEN UNCHANGED <<primary, live>>
     ELSE owned /\ primary' = Fresh /\ live' = live \cup {primary'}

(* Mutant of ReleaseConnection: the user's connection is closed as well.   *)
ReleaseAnyConnection == primary' = None /\ live' = live \ {primary}

(* _release_connection.                                                    *)
ReleaseConnection ==
  IF owned THEN primary' = None /\ live' = live \ {primary}
  ELSE UNCHANGED <<primary, live>>

SchemaReturns ==
  /\ schema' = TRUE
  /\ IF schema THEN UNCHANGED <<primary, live>> ELSE Connect

(* No connection can be had; or the query fails or finds no columns.       *)
SchemaRaises ==
  /\ ~ schema
  /\ UNCHANGED schema
  /\ \/ UNCHANGED <<primary, live>>
     \/ ~ closed /\ ReleaseConnection

ReadSchema ==
  /\ SchemaReturns \/ SchemaRaises
  /\ UNCHANGED <<owned, streams, closed, broken, scanVars, closeVars>>

-----------------------------------------------------------------------------
(* scan().                                                                 *)

ScanSchema(c) ==
  /\ pc[c] = "start"
  /\ \/ SchemaReturns /\ Go(c, "open")
     \/ SchemaRaises /\ Go(c, "failed")
  /\ UNCHANGED <<owned, streams, closed, broken, session, cursor, stream, closeVars>>

(* Mutant of TakeScanConnection: the connection stays the source's too.    *)
ShareScanConnection(c) ==
  /\ Connect
  /\ session' = [session EXCEPT ![c] = primary']

(* _take_scan_connection.                                                  *)
TakeScanConnection(c) ==
  /\ ~ closed
  /\ IF owned
     THEN LET taken == IF primary \in live THEN primary ELSE Fresh
          IN  /\ session' = [session EXCEPT ![c] = taken]
              /\ live' = live \cup {taken}
              /\ primary' = None
     ELSE /\ primary \in live
          /\ session' = [session EXCEPT ![c] = primary]
          /\ UNCHANGED <<primary, live>>

OpenScan(c) ==
  /\ pc[c] = "open"
  /\ TakeScanConnection(c)
  /\ cursor' = [cursor EXCEPT ![c] = "open"]
  /\ Go(c, "register")
  /\ UNCHANGED <<owned, schema, streams, closed, broken, stream, closeVars>>

(* Nothing can be taken, a new connection cannot be opened (a broken one   *)
(* is forgotten all the same), or the server refuses the statement and an  *)
(* owned connection is closed.                                             *)
OpenScanRaises(c) ==
  /\ pc[c] = "open"
  /\ Go(c, "failed")
  /\ \/ UNCHANGED <<primary, live>>
     \/ ~ closed /\ ReleaseConnection
  /\ UNCHANGED <<owned, schema, streams, closed, broken, session, cursor, stream, closeVars>>

(* The hook release() of a scan's stream, in one block.                    *)
Release(c) ==
  /\ streams' = streams \ {c}
  /\ cursor' = [cursor EXCEPT ![c] = "closed"]
  /\ live' = IF owned THEN live \ {session[c]} ELSE live

(* Mutant of Release: the connection is kept.                              *)
ReleaseCursor(c) ==
  /\ streams' = streams \ {c}
  /\ cursor' = [cursor EXCEPT ![c] = "closed"]
  /\ UNCHANGED live

(* Mutant of Register: without the second look at _closed.                 *)
RegisterUnchecked(c) ==
  /\ pc[c] = "register"
  /\ stream' = [stream EXCEPT ![c] = "open"]
  /\ streams' = streams \cup {c}
  /\ Go(c, "streaming")
  /\ UNCHANGED <<owned, primary, schema, closed, live, broken, session, cursor, closeVars>>

(* Mutant of Register: the connection is registered, not the stream.       *)
RegisterConnection(c) ==
  /\ pc[c] = "register"
  /\ stream' = [stream EXCEPT ![c] = "open"]
  /\ streams' = streams \cup {session[c]}
  /\ Go(c, "streaming")
  /\ UNCHANGED <<owned, primary, schema, closed, live, broken, session, cursor, closeVars>>

Register(c) ==
  /\ pc[c] = "register"
  /\ IF closed
     THEN /\ stream' = [stream EXCEPT ![c] = "closed"]
          /\ Release(c)
          /\ Go(c, "failed")
     ELSE /\ stream' = [stream EXCEPT ![c] = "open"]
          /\ streams' = streams \cup {c}
          /\ Go(c, "streaming")
          /\ UNCHANGED <<cursor, live>>
  /\ UNCHANGED <<owned, primary, schema, closed, broken, session, closeVars>>

RunRelease(a, c) ==
  /\ closing[a][c] = "release"
  /\ Release(c)
  /\ At(a, c, "idle")
  /\ UNCHANGED <<owned, primary, schema, closed, pc, session, stream, closer, toClose>>

CloseStream(a, c) ==
  /\ LookAtClosed(a, c) \/ SetClosed(a, c) \/ RunRelease(a, c)
  /\ UNCHANGED broken

-----------------------------------------------------------------------------
(* close().                                                                *)

(* Mutant of Close: the connection is left to the streams.                 *)
CloseStreamsOnly ==
  /\ ~ closed
  /\ closed' = TRUE
  /\ toClose' = streams
  /\ streams' = {}
  /\ closer' = "streams"
  /\ UNCHANGED <<owned, primary, schema, live, broken, scanVars, closing>>

Close ==
  /\ ~ closed
  /\ closed' = TRUE
  /\ toClose' = streams
  /\ streams' = {}
  /\ ReleaseConnection
  /\ closer' = "streams"
  /\ UNCHANGED <<owned, schema, broken, scanVars, closing>>

CloseReturns ==
  /\ closer = "streams" /\ toClose = {}
  /\ closer' = "done"
  /\ UNCHANGED <<sourceVars, broken, scanVars, closing, toClose>>

Next ==
  \/ ReadSchema \/ Close \/ CloseReturns
  \/ \E k \in Connections : Break(k)
  \/ \E c \in Scans :
       \/ ScanSchema(c) \/ OpenScan(c) \/ OpenScanRaises(c) \/ Register(c)
       \/ NextToClose(c) /\ UNCHANGED broken
       \/ \E a \in Agents : CloseStream(a, c)

Spec == Init /\ [][Next]_vars

-----------------------------------------------------------------------------
TypeOK == StreamsTypeOK /\ broken \in BOOLEAN

(* "The source never opens or closes a connection of its own" over an      *)
(* injected one: only the server or the network ends that.                 *)
InjectedStaysOpen == Injected \in live \/ broken

=============================================================================
