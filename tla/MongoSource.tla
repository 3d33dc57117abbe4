------------------------------ MODULE MongoSource ------------------------------
(***************************************************************************)
(* The client of a MongoDB source (adapters/sources/mongodb.py): made at   *)
(* its first use, under the lock, and shared by schema inference and every *)
(* scan.                                                                   *)
(***************************************************************************)
EXTENDS ClientSource

(* A schema may be declared: it is known from the start then.              *)
Init == StreamsInit /\ Unconnected /\ schema \in BOOLEAN /\ dropped = None

(* _handle, when it returns.                                               *)
Handle ==
  /\ ~ closed
  /\ IF primary = None
     THEN primary' = NewConnection({dropped}) /\ live' = live \cup {primary'}
     ELSE UNCHANGED <<primary, live>>

-----------------------------------------------------------------------------
(* schema(): under the lock from its beginning to its end.  The cursor of  *)
(* a sample is closed however the sample ends.                             *)

SchemaReturns ==
  /\ ~ closed
  /\ schema' = TRUE
  /\ IF schema THEN UNCHANGED <<primary, live>> ELSE Handle

(* The source is closed; no client can be made; or there is none to make,  *)
(* but the sample fails or is empty.                                       *)
SchemaRaises ==
  /\ UNCHANGED schema
  /\ \/ closed /\ UNCHANGED <<primary, live>>
     \/ ~ schema /\ UNCHANGED <<primary, live>>
     \/ ~ schema /\ Handle

ReadSchema ==
  /\ SchemaReturns \/ SchemaRaises
  /\ UNCHANGED <<owned, streams, closed, scanVars, closeVars, dropped>>

-----------------------------------------------------------------------------
(* scan().                                                                 *)

ScanSchema(c) ==
  /\ pc[c] = "start"
  /\ \/ SchemaReturns /\ Go(c, "open")
     \/ SchemaRaises /\ Go(c, "failed")
  /\ UNCHANGED <<owned, streams, closed, session, cursor, stream, closeVars, dropped>>

(* A scan with the limit zero returns a stream that holds nothing; one     *)
(* with an unknown column or a missing parameter raises.                   *)
EndEarly(c) ==
  /\ pc[c] = "open"
  /\ Go(c, "empty") \/ Go(c, "failed")
  /\ UNCHANGED <<sourceVars, session, cursor, stream, closeVars, dropped>>

TakeHandle(c) ==
  /\ pc[c] = "open"
  /\ Handle
  /\ Go(c, "execute")
  /\ UNCHANGED <<owned, schema, streams, closed, session, cursor, stream, closeVars, dropped>>

(* find() makes a cursor.                                                  *)
Find(c) ==
  /\ pc[c] = "execute"
  /\ cursor' = [cursor EXCEPT ![c] = "open"]
  /\ Go(c, "register")
  /\ UNCHANGED <<sourceVars, session, stream, closeVars, dropped>>

(* find() raises, or the stream cannot be made and the cursor is closed.   *)
FindRaises(c) ==
  /\ pc[c] = "execute"
  /\ cursor' \in {cursor, [cursor EXCEPT ![c] = "closed"]}
  /\ Go(c, "failed")
  /\ UNCHANGED <<sourceVars, session, stream, closeVars, dropped>>

-----------------------------------------------------------------------------
(* Mutant of Close: the client stays the source's, and is not closed.      *)
CloseKeepingClient == TakeStreams /\ UNCHANGED <<primary, dropped>>

Close == TakeStreams /\ dropped' = primary /\ primary' = None

CloseReturns == CloseClient(dropped) /\ dropped' = None /\ UNCHANGED primary

Next ==
  \/ ReadSchema \/ Close \/ CloseReturns
  \/ \E c \in Scans :
       ScanSchema(c) \/ EndEarly(c) \/ TakeHandle(c) \/ Find(c) \/ FindRaises(c) \/ Streaming(c)

Spec == Init /\ [][Next]_vars

=============================================================================
