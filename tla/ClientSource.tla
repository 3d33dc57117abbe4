----------------------------- MODULE ClientSource -----------------------------
(***************************************************************************)
(* Sources whose scans share one client: a MongoDB client, of which a scan *)
(* has a cursor, or a Neo4j driver, of which it has a session.  (Both are  *)
(* `cursor` here, and the client is `primary`; scans have no connection of *)
(* their own.)  What the two sources do alike when a scan has its cursor.  *)
(***************************************************************************)
EXTENDS SourceStreams

VARIABLE dropped \* the client close() took over

vars == <<sourceVars, scanVars, closeVars, dropped>>

CloseCursor(c) == cursor' = [cursor EXCEPT ![c] = IF @ = "none" THEN @ ELSE "closed"]

-----------------------------------------------------------------------------
(* The end of scan(): its stream is made, and registered in one block      *)
(* under the lock if the source is open, else closed with its cursor.      *)

(* Mutant of Register: without the second look at _closed.                 *)
RegisterUnchecked(c) ==
  /\ pc[c] = "register"
  /\ stream' = [stream EXCEPT ![c] = "open"]
  /\ streams' = streams \cup {c}
  /\ Go(c, "streaming")
  /\ UNCHANGED <<owned, primary, schema, closed, live, session, cursor, closeVars, dropped>>

Register(c) ==
  /\ pc[c] = "register"
  /\ IF closed
     THEN /\ stream' = [stream EXCEPT ![c] = "closed"]
          /\ CloseCursor(c)
          /\ Go(c, "failed")
          /\ UNCHANGED streams
     ELSE /\ stream' = [stream EXCEPT ![c] = "open"]
          /\ streams' = streams \cup {c}
          /\ Go(c, "streaming")
          /\ UNCHANGED cursor
  /\ UNCHANGED <<owned, primary, schema, closed, live, session, closeVars, dropped>>

-----------------------------------------------------------------------------
(* The hook release() of a stream: one block under the lock, then the      *)
(* cursor without it.                                                      *)

Unregister(a, c) ==
  /\ closing[a][c] = "release"
  /\ streams' = streams \ {c}
  /\ At(a, c, "session")
  /\ UNCHANGED <<owned, primary, schema, closed, live, scanVars, closer, toClose>>

(* Mutant of ReleaseCursor: the cursor is left to the client.              *)
ForgetCursor(a, c) ==
  /\ closing[a][c] = "session"
  /\ At(a, c, "idle")
  /\ UNCHANGED <<sourceVars, scanVars, closer, toClose>>

ReleaseCursor(a, c) ==
  /\ closing[a][c] = "session"
  /\ CloseCursor(c)
  /\ At(a, c, "idle")
  /\ UNCHANGED <<sourceVars, pc, session, stream, closer, toClose>>

CloseStream(a, c) ==
  /\ LookAtClosed(a, c) \/ SetClosed(a, c) \/ Unregister(a, c) \/ ReleaseCursor(a, c)
  /\ UNCHANGED dropped

-----------------------------------------------------------------------------
(* close(): its block under the lock, and its end, when every stream it    *)
(* took over is closed: a client of the source's own is closed.            *)

TakeStreams ==
  /\ ~ closed
  /\ closed' = TRUE
  /\ toClose' = streams
  /\ streams' = {}
  /\ closer' = "streams"
  /\ UNCHANGED <<owned, schema, live, scanVars, closing>>

CloseClient(client) ==
  /\ closer = "streams" /\ toClose = {}
  /\ live' = IF owned THEN live \ {client} ELSE live
  /\ closer' = "done"
  /\ UNCHANGED <<owned, schema, streams, closed, scanVars, closing, toClose>>

Streaming(c) ==
  \/ Register(c)
  \/ NextToClose(c) /\ UNCHANGED dropped
  \/ \E a \in Agents : CloseStream(a, c)

-----------------------------------------------------------------------------
TypeOK == StreamsTypeOK /\ dropped \in Connections \cup {None}

(* The user's client is left open.                                         *)
InjectedStaysOpen == Injected \in live

=============================================================================
