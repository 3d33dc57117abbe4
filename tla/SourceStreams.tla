----------------------------- MODULE SourceStreams -----------------------------
(***************************************************************************)
(* What the database sources share: the streams their scans return         *)
(* (ArrowStream, adapters/_shared/arrow.py) and the state by which a       *)
(* source keeps account of its streams and connections.  Several threads   *)
(* use a source: one per scan, one that closes it.  What a method does in  *)
(* one `with self._lock` block is one action; the steps between two blocks *)
(* interleave with the other threads'.                                     *)
(***************************************************************************)
EXTENDS Naturals, FiniteSets

CONSTANTS
  Scans,       \* scan() calls, each on a thread of its own
  Connections, \* identities of connections, clients and drivers; one that is
               \* closed may come back
  Injected,    \* the one that is the user's
  None

ASSUME ConnectionsSuffice ==
  /\ Injected \in Connections /\ None \notin Connections
  /\ IsFiniteSet(Scans) /\ IsFiniteSet(Connections)
  /\ Cardinality(Connections) >= Cardinality(Scans) + 2
  /\ Cardinality(Connections) >= 3

VARIABLES
  owned,   \* _owns_connection, _owns_client, _owns_driver
  primary, \* _connection, _client, _driver
  schema,  \* the schema is cached
  streams, \* _streams: scans whose stream is registered
  closed,  \* _closed
  live,    \* connections that are open
  pc,      \* scan -> a step of Steps
  session, \* scan -> its connection
  cursor,  \* scan -> "none" | "open" | "closed"
  stream,  \* scan -> "none" | "open" | "closed"
  closing, \* agent -> scan -> how far it is in closing the scan's stream
  closer,  \* close(): "idle" | "streams" | "done"
  toClose  \* the streams close() took over

sourceVars == <<owned, primary, schema, streams, closed, live>>
scanVars == <<pc, session, cursor, stream>>
closeVars == <<closing, closer, toClose>>

(* A stream is closed by its consumer or by the source's close().          *)
Agents == {"consumer", "close"}

Steps == {"start", "open", "session", "execute", "register", "streaming", "empty", "failed"}

StreamsInit ==
  /\ owned \in BOOLEAN
  /\ streams = {}
  /\ closed = FALSE
  /\ pc = [c \in Scans |-> "start"]
  /\ session = [c \in Scans |-> None]
  /\ cursor = [c \in Scans |-> "none"]
  /\ stream = [c \in Scans |-> "none"]
  /\ closing = [a \in Agents |-> [c \in Scans |-> "idle"]]
  /\ closer = "idle"
  /\ toClose = {}

(* Nothing was opened yet.                                                 *)
Unconnected ==
  /\ primary = IF owned THEN None ELSE Injected
  /\ live = {Injected}

Go(c, step) == pc' = [pc EXCEPT ![c] = step]

(* A connection that is not the user's and that nobody has or remembers,   *)
(* the others included.                                                    *)
NewConnection(others) ==
  CHOOSE k \in Connections :
    k \notin live \cup others \cup {primary, Injected} \cup {session[c] : c \in Scans}

-----------------------------------------------------------------------------
(* ArrowStream.close by either agent: look at the flag, set it, run the    *)
(* hook release().  Nothing makes look and set one step.                   *)

At(a, c, step) == closing' = [closing EXCEPT ![a][c] = step]

(* A consumer closes a stream by closing, exhausting or abandoning it.     *)
MayClose(a, c) ==
  CASE a = "consumer" -> pc[c] = "streaming"
    [] a = "close" -> closer = "streams" /\ c \in toClose

LookAtClosed(a, c) ==
  /\ MayClose(a, c) /\ closing[a][c] = "idle" /\ stream[c] = "open"
  /\ At(a, c, "set")
  /\ UNCHANGED <<sourceVars, scanVars, closer, toClose>>

SetClosed(a, c) ==
  /\ closing[a][c] = "set"
  /\ stream' = [stream EXCEPT ![c] = "closed"]
  /\ At(a, c, "release")
  /\ UNCHANGED <<sourceVars, pc, session, cursor, closer, toClose>>

(* The loop of a source's close() is past a stream that is closed.         *)
NextToClose(c) ==
  /\ closer = "streams" /\ c \in toClose
  /\ stream[c] = "closed" /\ closing["close"][c] = "idle"
  /\ toClose' = toClose \ {c}
  /\ UNCHANGED <<sourceVars, scanVars, closing, closer>>

-----------------------------------------------------------------------------
StreamsTypeOK ==
  /\ owned \in BOOLEAN /\ schema \in BOOLEAN /\ closed \in BOOLEAN
  /\ primary \in Connections \cup {None}
  /\ streams \subseteq Scans /\ toClose \subseteq Scans
  /\ live \subseteq Connections
  /\ pc \in [Scans -> Steps]
  /\ session \in [Scans -> Connections \cup {None}]
  /\ cursor \in [Scans -> {"none", "open", "closed"}]
  /\ stream \in [Scans -> {"none", "open", "closed"}]
  /\ closing \in [Agents -> [Scans -> {"idle", "set", "release", "session"}]]
  /\ closer \in {"idle", "streams", "done"}

(* A scan that has failed, or returned a stream of no rows, or whose       *)
(* stream is closed with nobody still releasing it.                        *)
Over(c) ==
  \/ pc[c] \in {"failed", "empty"}
  \/ stream[c] = "closed" /\ \A a \in Agents : closing[a][c] = "idle"

(* However a scan ends (refused, failed at any step, closed by its         *)
(* consumer, by close() or by both at once), its cursor is closed, and an  *)
(* owned connection is closed with it.                                     *)
SessionsReleased ==
  \A c \in Scans : Over(c) =>
    /\ cursor[c] # "open"
    /\ owned /\ session[c] # None => session[c] \notin live

(* An owned connection serves one scan or the source, never two at a time, *)
(* also where the connection of schema() is handed on to a scan.           *)
ScansDoNotShare ==
  owned =>
    \A c \in Scans : session[c] \in live =>
      /\ session[c] # primary
      /\ \A d \in Scans : d # c => session[d] # session[c]

(* After close(), when the scans are over, the source keeps no connection, *)
(* wherever close() found them.                                            *)
NothingOutlivesClose ==
  owned /\ closer = "done" /\ (\A c \in Scans : pc[c] \in {"start", "open", "session"} \/ Over(c)) =>
    live \subseteq {Injected}

(* Once close() has returned, no stream of the source is open, and none    *)
(* opens again.                                                            *)
CloseClosesEveryStream == closer = "done" => \A c \in Scans : stream[c] # "open"

=============================================================================
