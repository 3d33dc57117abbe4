------------------------------ MODULE MySQLSource ------------------------------
(***************************************************************************)
(* The connections of a MySQL source (adapters/sources/mysql.py).  A       *)
(* source owns its connections, a primary one for schema discovery and one *)
(* more per scan, or works on a connection its user injected.              *)
(***************************************************************************)
EXTENDS SourceStreams

VARIABLES
  prepared, \* _prepared: the primary's session is initialised
  dropped   \* the connection close() took over

vars == <<sourceVars, scanVars, closeVars, prepared, dropped>>

Init == StreamsInit /\ Unconnected /\ schema = FALSE /\ prepared = FALSE /\ dropped = None

Fresh == NewConnection({dropped})

-----------------------------------------------------------------------------
(* _primary_session and schema().                                          *)

(* The primary is opened, or prepared, at its first use.  (A connection    *)
(* that fails to open or to prepare is closed again: nothing changes.)     *)
PrimarySession ==
  /\ prepared' = TRUE
  /\ IF primary = None
     THEN primary' = Fresh /\ live' = live \cup {primary'}
     ELSE UNCHANGED <<primary, live>>

DiscardPrimary ==
  /\ primary' = None
  /\ prepared' = FALSE
  /\ live' = live \ {primary}

(* schema() returns, with its discovery done now or before.                *)
SchemaReturns ==
  /\ schema' = TRUE
  /\ \/ schema /\ UNCHANGED <<primary, prepared, live>>
     \/ ~ schema /\ ~ closed /\ PrimarySession

(* Mutant of SchemaRaises: any connection whose query failed is discarded. *)
SchemaRaisesDiscarding ==
  /\ ~ schema
  /\ UNCHANGED schema
  /\ \/ UNCHANGED <<primary, prepared, live>>
     \/ ~ closed /\ DiscardPrimary

(* schema() raises: the source is closed, no session can be had; the query *)
(* fails, and an owned primary is discarded; or the table has no rows.     *)
SchemaRaises ==
  /\ ~ schema
  /\ UNCHANGED schema
  /\ \/ UNCHANGED <<primary, prepared, live>>
     \/ ~ closed /\ owned /\ DiscardPrimary
     \/ ~ closed /\ PrimarySession

ReadSchema ==
  /\ SchemaReturns \/ SchemaRaises
  /\ UNCHANGED <<owned, streams, closed, scanVars, closeVars, dropped>>

-----------------------------------------------------------------------------
(* scan().                                                                 *)

ScanSchema(c) ==
  /\ pc[c] = "start"
  /\ \/ SchemaReturns /\ Go(c, "open")
     \/ SchemaRaises /\ Go(c, "failed")
  /\ UNCHANGED <<owned, streams, closed, session, cursor, stream, closeVars, dropped>>

(* Mutant of ScanSession: an owned scan runs on the primary if there is one.*)
ScanSessionOnPrimary(c) ==
  IF ~ owned \/ primary # None
  THEN PrimarySession /\ session' = [session EXCEPT ![c] = primary']
  ELSE /\ session' = [session EXCEPT ![c] = Fresh]
       /\ live' = live \cup {Fresh}
       /\ UNCHANGED <<primary, prepared>>

(* _scan_session: a connection of its own, or the injected one.            *)
ScanSession(c) ==
  IF owned
  THEN /\ session' = [session EXCEPT ![c] = Fresh]
       /\ live' = live \cup {Fresh}
       /\ UNCHANGED <<primary, prepared>>
  ELSE PrimarySession /\ session' = [session EXCEPT ![c] = primary']

Admit(c) ==
  /\ pc[c] = "open" /\ ~ closed
  /\ owned \/ streams = {}
  /\ ScanSession(c)
  /\ Go(c, "execute")
  /\ UNCHANGED <<owned, schema, streams, closed, cursor, stream, closeVars, dropped>>

(* The source is closed or busy, or no session can be had.                 *)
AdmitRaises(c) ==
  /\ pc[c] = "open"
  /\ Go(c, "failed")
  /\ UNCHANGED <<sourceVars, session, cursor, stream, closeVars, prepared, dropped>>

(* _release_session: an owned connection is closed, on an injected one the *)
(* cursor is.                                                              *)
ReleaseSession(c) ==
  /\ live' = IF owned THEN live \ {session[c]} ELSE live
  /\ cursor' = [cursor EXCEPT ![c] = IF @ = "none" THEN @ ELSE "closed"]

Execute(c) ==
  /\ pc[c] = "execute"
  /\ cursor' = [cursor EXCEPT ![c] = "open"]
  /\ Go(c, "register")
  /\ UNCHANGED <<sourceVars, session, stream, closeVars, prepared, dropped>>

(* Mutant of ExecuteRaises: the session is left as it is.                  *)
ExecuteRaisesUnreleased(c) ==
  /\ pc[c] = "execute"
  /\ Go(c, "failed")
  /\ UNCHANGED <<sourceVars, session, cursor, stream, closeVars, prepared, dropped>>

ExecuteRaises(c) ==
  /\ pc[c] = "execute"
  /\ ReleaseSession(c)
  /\ Go(c, "failed")
  /\ UNCHANGED <<owned, primary, schema, streams, closed, session, stream, closeVars,
                 prepared, dropped>>

(* Mutant of Register: the connection is registered, not the stream.       *)
RegisterConnection(c) ==
  /\ pc[c] = "register"
  /\ stream' = [stream EXCEPT ![c] = "open"]
  /\ streams' = streams \cup {session[c]}
  /\ Go(c, "streaming")
  /\ UNCHANGED <<owned, primary, schema, closed, live, session, cursor, closeVars,
                 prepared, dropped>>

(* The stream is made and registered, without another look at _closed.     *)
Register(c) ==
  /\ pc[c] = "register"
  /\ stream' = [stream EXCEPT ![c] = "open"]
  /\ streams' = streams \cup {c}
  /\ Go(c, "streaming")
  /\ UNCHANGED <<owned, primary, schema, closed, live, session, cursor, closeVars,
                 prepared, dropped>>

-----------------------------------------------------------------------------
(* The hook release() of a stream: one block under the lock, then the      *)
(* session without it.                                                     *)

Unregister(a, c) ==
  /\ closing[a][c] = "release"
  /\ streams' = streams \ {c}
  /\ At(a, c, "session")
  /\ UNCHANGED <<owned, primary, schema, closed, live, scanVars, closer, toClose>>

CloseSession(a, c) ==
  /\ closing[a][c] = "session"
  /\ ReleaseSession(c)
  /\ At(a, c, "idle")
  /\ UNCHANGED <<owned, primary, schema, streams, closed, pc, session, stream, closer, toClose>>

CloseStream(a, c) ==
  /\ LookAtClosed(a, c) \/ SetClosed(a, c) \/ Unregister(a, c) \/ CloseSession(a, c)
  /\ UNCHANGED <<prepared, dropped>>

-----------------------------------------------------------------------------
(* close().                                                                *)

(* Mutant of Close: the primary stays.                                     *)
CloseStreamsOnly ==
  /\ ~ closed
  /\ closed' = TRUE
  /\ toClose' = streams
  /\ streams' = {}
  /\ closer' = "streams"
  /\ UNCHANGED <<owned, primary, schema, live, scanVars, closing, prepared, dropped>>

Close ==
  /\ ~ closed
  /\ closed' = TRUE
  /\ toClose' = streams
  /\ streams' = {}
  /\ dropped' = primary
  /\ primary' = None
  /\ closer' = "streams"
  /\ UNCHANGED <<owned, schema, live, scanVars, closing, prepared>>

CloseConnection ==
  /\ closer = "streams" /\ toClose = {}
  /\ live' = IF owned THEN live \ {dropped} ELSE live
  /\ dropped' = None
  /\ closer' = "done"
  /\ UNCHANGED <<owned, primary, schema, streams, closed, scanVars, closing, toClose, prepared>>

Next ==
  \/ ReadSchema \/ Close \/ CloseConnection
  \/ \E c \in Scans :
       \/ ScanSchema(c) \/ Admit(c) \/ AdmitRaises(c)
       \/ Execute(c) \/ ExecuteRaises(c) \/ Register(c)
       \/ NextToClose(c) /\ UNCHANGED <<prepared, dropped>>
       \/ \E a \in Agents : CloseStream(a, c)

Spec == Init /\ [][Next]_vars

-----------------------------------------------------------------------------
TypeOK == StreamsTypeOK /\ prepared \in BOOLEAN /\ dropped \in Connections \cup {None}

(* "It is ... not closed by close()": nor by a failed discovery or scan.   *)
InjectedStaysOpen == Injected \in live

(* "Only one scan may be in flight at a time" on an injected connection.   *)
OneScanInFlight ==
  ~ owned => Cardinality({c \in Scans : cursor[c] = "open"}) <= 1

=============================================================================
