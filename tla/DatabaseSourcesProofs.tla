------------------------ MODULE DatabaseSourcesProofs ------------------------
(***************************************************************************)
(* What the database sources promise about connections, cursors and        *)
(* streams, for any number of scans and through every interleaving of      *)
(* scans, their consumers, schema discovery and close().                   *)
(***************************************************************************)
EXTENDS DatabaseSources, FiniteSetTheorems, TLAPS

-----------------------------------------------------------------------------
(* The invariant: a scan's step and its stream.                            *)

Released(c) == cursor[c] # "open" /\ (owned /\ session[c] # None => session[c] \notin live)

(* The agent has closed the stream and has its hook release() to run.      *)
Hooked(a, c) == closing[a][c] \in {"release", "session"}

StreamInv(c) ==
  /\ stream[c] # "none" => pc[c] \in {"streaming", "failed"}
  /\ pc[c] = "streaming" => stream[c] # "none"
  /\ pc[c] = "failed" => stream[c] # "open"
  /\ \A a \in Agents :
       /\ closing[a][c] # "idle" => pc[c] = "streaming"
       /\ Hooked(a, c) => stream[c] = "closed"

(* Somebody is left to release what a scan has, until it is released.      *)
ReleaseInv(c) ==
  /\ pc[c] \in {"start", "open", "session"} => session[c] = None /\ cursor[c] = "none"
  /\ pc[c] = "execute" /\ kind = "mongo" => cursor[c] = "none"
  /\ stream[c] = "closed" /\ (\A a \in Agents : ~ Hooked(a, c)) => Released(c)
  /\ pc[c] \in {"failed", "empty"} => Released(c)

ScanInv(c) == StreamInv(c) /\ ReleaseInv(c)

(* The source's account of its streams.                                    *)
AccountInv ==
  /\ \A c \in streams \cup toClose : pc[c] = "streaming"
  /\ closed <=> closer # "idle"
  /\ kind # "mysql" =>
       \A c \in Scans : stream[c] = "open" =>
         IF closed THEN closer = "streams" /\ c \in toClose ELSE c \in streams

(* Who has which connection.                                               *)
OwnedInv ==
  /\ live \subseteq {Injected, primary, dropped} \cup {session[c] : c \in Scans}
  /\ primary # Injected /\ dropped # Injected
  /\ \A c \in Scans : session[c] # None =>
       /\ session[c] \notin {primary, dropped, Injected}
       /\ \A d \in Scans \ {c} : session[d] # session[c]
  /\ closer = "done" => primary \notin live /\ dropped \notin live
  /\ closed /\ kind # "neo4j" => primary = None

InjectedInv ==
  /\ live \subseteq {Injected}
  /\ primary \in {Injected, None} /\ dropped \in {Injected, None}
  /\ \A c \in Scans : session[c] \in {Injected, None}
  /\ kind = "postgres" \/ ~ closed => primary = Injected

ConnectionInv ==
  /\ IF owned THEN OwnedInv ELSE InjectedInv
  /\ InjectedStaysOpen
  /\ ~ closed \/ kind \in {"postgres", "neo4j"} => dropped = None
  /\ kind \in {"mongo", "neo4j"} => \A c \in Scans : session[c] = None

(* A scan that has come to open its connection has had the schema.         *)
SchemaFirst == \A c \in Scans : pc[c] = "open" \/ session[c] # None => schema

TypesInv ==
  /\ StreamsTypeOK /\ kind \in {"mysql", "postgres", "mongo", "neo4j"}
  /\ prepared \in BOOLEAN /\ broken \in BOOLEAN /\ dropped \in Connections \cup {None}

SourceInv ==
  TypesInv /\ (\A c \in Scans : ScanInv(c)) /\ AccountInv /\ ConnectionInv /\ SchemaFirst

-----------------------------------------------------------------------------
(* New connections: there are always some that nobody has.                 *)

LEMMA OneMore ==
  ASSUME NEW S, IsFiniteSet(S), NEW x
  PROVE  /\ IsFiniteSet(S \cup {x})
         /\ Cardinality(S) \in Nat /\ Cardinality(S \cup {x}) \in Nat
         /\ Cardinality(S \cup {x}) <= Cardinality(S) + 1
<1>1. IsFiniteSet(S \cup {x}) /\ Cardinality(S) \in Nat
  BY FS_AddElement, FS_CardinalityType
<1>2. Cardinality(S \cup {x}) \in Nat
  BY <1>1, FS_CardinalityType
<1>3. Cardinality(S \cup {x}) = IF x \in S THEN Cardinality(S) ELSE Cardinality(S) + 1
  BY FS_AddElement
<1> QED BY <1>1, <1>2, <1>3

LEMMA ConnectionLeft ==
  ASSUME NEW c \in Scans, NEW p
  PROVE  \E k \in Connections : k \notin {Injected, p} \cup {session[d] : d \in Scans \ {c}}
<1> DEFINE others == Scans \ {c}
           theirs == {session[d] : d \in others}
           f == [d \in others |-> session[d]]
<1>1. /\ IsFiniteSet(Scans) /\ IsFiniteSet(Connections)
      /\ Cardinality(Connections) >= Cardinality(Scans) + 2
  BY ConnectionsSuffice
<1>2. /\ Cardinality(Scans) \in Nat /\ Cardinality(Connections) \in Nat
      /\ IsFiniteSet(others) /\ Cardinality(others) = Cardinality(Scans) - 1
  BY <1>1, FS_CardinalityType, FS_RemoveElement
<1>3. f \in Surjection(others, theirs)
  BY DEF Surjection
<1>4. IsFiniteSet(theirs) /\ Cardinality(theirs) <= Cardinality(Scans) - 1
  BY <1>2, <1>3, FS_Surjection
<1> HIDE DEF theirs
<1>5. /\ IsFiniteSet(theirs \cup {Injected}) /\ Cardinality(theirs) \in Nat
      /\ Cardinality(theirs \cup {Injected}) <= Cardinality(theirs) + 1
  BY <1>4, OneMore
<1>6. /\ IsFiniteSet((theirs \cup {Injected}) \cup {p})
      /\ Cardinality((theirs \cup {Injected}) \cup {p}) <= Cardinality(theirs) + 2
  <2>1. /\ IsFiniteSet((theirs \cup {Injected}) \cup {p})
        /\ Cardinality(theirs \cup {Injected}) \in Nat
        /\ Cardinality((theirs \cup {Injected}) \cup {p}) \in Nat
        /\ Cardinality((theirs \cup {Injected}) \cup {p}) <= Cardinality(theirs \cup {Injected}) + 1
    BY <1>5, OneMore
  <2> QED BY <1>5, <2>1
<1>7. ~ (Connections \subseteq (theirs \cup {Injected}) \cup {p})
  <2> SUFFICES ASSUME Connections \subseteq (theirs \cup {Injected}) \cup {p} PROVE FALSE
    OBVIOUS
  <2>1. Cardinality(Connections) <= Cardinality((theirs \cup {Injected}) \cup {p})
    BY <1>6, FS_Subset
  <2> QED BY <1>1, <1>2, <1>4, <1>5, <1>6, <2>1, FS_CardinalityType
<1> QED BY <1>7 DEF theirs

LEMMA ThirdConnection ==
  ASSUME NEW p
  PROVE  \E k \in Connections : k \notin {Injected, p}
<1>1. IsFiniteSet(Connections) /\ Cardinality(Connections) >= 3
  BY ConnectionsSuffice
<1>2. IsFiniteSet({Injected}) /\ Cardinality({Injected}) = 1
  BY FS_Singleton
<1>3. /\ IsFiniteSet({Injected} \cup {p}) /\ Cardinality({Injected} \cup {p}) <= 2
      /\ Cardinality({Injected} \cup {p}) \in Nat
  <2>1. /\ IsFiniteSet({Injected} \cup {p}) /\ Cardinality({Injected} \cup {p}) \in Nat
        /\ Cardinality({Injected} \cup {p}) <= Cardinality({Injected}) + 1
    BY <1>2, OneMore
  <2> QED BY <1>2, <2>1
<1>4. ~ (Connections \subseteq {Injected} \cup {p})
  <2> SUFFICES ASSUME Connections \subseteq {Injected} \cup {p} PROVE FALSE
    OBVIOUS
  <2>1. Cardinality(Connections) <= Cardinality({Injected} \cup {p}) /\ Cardinality(Connections) \in Nat
    BY <1>1, <1>3, FS_Subset, FS_CardinalityType
  <2> QED BY <1>1, <1>3, <2>1
<1> QED BY <1>4

(* The connection a scan opens is nobody's.                                *)
IsNew(k) ==
  /\ k \in Connections
  /\ k \notin live \cup {primary, dropped, Injected, None}
  /\ \A d \in Scans : session[d] # k

LEMMA ScanConnectionIsNew ==
  ASSUME SourceInv, owned, dropped = None, NEW c \in Scans, session[c] = None,
         NEW others \in {{}, {dropped}}
  PROVE  IsNew(NewConnection(others))
<1> DEFINE used == live \cup others \cup {primary, Injected} \cup {session[d] : d \in Scans}
<1>1. None \notin Connections /\ OwnedInv
  BY ConnectionsSuffice DEF SourceInv, ConnectionInv
<1>2. PICK k \in Connections : k \notin {Injected, primary} \cup {session[d] : d \in Scans \ {c}}
  BY ConnectionLeft
<1>3. k \notin used
  <2>1. k # None /\ \A d \in Scans : session[d] # k
    BY <1>1, <1>2
  <2> QED BY <1>1, <1>2, <2>1 DEF OwnedInv
<1>4. NewConnection(others) \in Connections \ used
  BY <1>2, <1>3 DEF NewConnection
<1> QED BY <1>1, <1>4 DEF IsNew

(* So is the one schema discovery opens.                                   *)
LEMMA PrimaryIsNew ==
  ASSUME SourceInv, owned, dropped = None, \A d \in Scans : session[d] = None,
         NEW others \in {{}, {dropped}}
  PROVE  IsNew(NewConnection(others))
<1> DEFINE used == live \cup others \cup {primary, Injected} \cup {session[d] : d \in Scans}
<1>1. None \notin Connections /\ OwnedInv
  BY ConnectionsSuffice DEF SourceInv, ConnectionInv
<1>2. PICK k \in Connections : k \notin {Injected, primary}
  BY ThirdConnection
<1>3. k \notin used
  BY <1>1, <1>2 DEF OwnedInv
<1>4. NewConnection(others) \in Connections \ used
  BY <1>2, <1>3 DEF NewConnection
<1> QED BY <1>1, <1>4 DEF IsNew

-----------------------------------------------------------------------------
(* What a step leaves alone.                                               *)

SameScan(d) ==
  /\ pc'[d] = pc[d] /\ session'[d] = session[d]
  /\ cursor'[d] = cursor[d] /\ stream'[d] = stream[d]
  /\ \A a \in Agents : closing'[a][d] = closing[a][d]

(* No connection that a scan has closed is opened again.                   *)
NoneRevived ==
  \A d \in Scans : owned /\ session[d] # None /\ session[d] \notin live => session[d] \notin live'

LEMMA SameScanKeeps ==
  ASSUME NEW d \in Scans, ScanInv(d), SameScan(d), NoneRevived, UNCHANGED <<owned, kind>>
  PROVE  ScanInv(d)'
<1>1. StreamInv(d)'
  BY DEF ScanInv, StreamInv, SameScan, Hooked
<1>2. Released(d) => Released(d)'
  BY DEF Released, SameScan, NoneRevived
<1>3. ReleaseInv(d)'
  BY <1>2 DEF ScanInv, ReleaseInv, SameScan, Hooked
<1> QED BY <1>1, <1>3 DEF ScanInv

(* A step of one scan.                                                     *)
LEMMA OneScanMoves ==
  ASSUME SourceInv, NEW c \in Scans, \A d \in Scans \ {c} : SameScan(d), NoneRevived,
         UNCHANGED <<owned, kind>>, schema => schema',
         pc'[c] = "open" \/ session'[c] # None => schema',
         TypesInv', ScanInv(c)', AccountInv', ConnectionInv'
  PROVE  SourceInv'
<1>1. \A d \in Scans : ScanInv(d)'
  BY SameScanKeeps DEF SourceInv
<1>2. SchemaFirst'
  BY DEF SourceInv, SchemaFirst, SameScan
<1> QED BY <1>1, <1>2 DEF SourceInv

(* A step of schema() or close().                                          *)
LEMMA NoScanMoves ==
  ASSUME SourceInv, UNCHANGED <<scanVars, closing, owned, kind>>, NoneRevived, schema => schema',
         TypesInv', AccountInv', ConnectionInv'
  PROVE  SourceInv'
<1>1. \A d \in Scans : ScanInv(d)'
  BY SameScanKeeps DEF SourceInv, SameScan, scanVars
<1>2. SchemaFirst'
  BY DEF SourceInv, SchemaFirst, scanVars
<1> QED BY <1>1, <1>2 DEF SourceInv

(* The connections stay as they are.                                       *)
LEMMA ConnectionsStay ==
  ASSUME ConnectionInv, UNCHANGED <<owned, primary, closed, live, session, closer, kind, dropped, broken>>
  PROVE  ConnectionInv' /\ NoneRevived
BY DEF ConnectionInv, OwnedInv, InjectedInv, InjectedStaysOpen, Postgres!InjectedStaysOpen, NoneRevived

-----------------------------------------------------------------------------
(* Closing a stream: the steps that all kinds share.                       *)

LEMMA LookAtClosedKeeps ==
  ASSUME SourceInv, NEW c \in Scans, NEW a \in Agents, LookAtClosed(a, c),
         UNCHANGED <<kind, prepared, dropped, broken>>
  PROVE  SourceInv'
<1>1. /\ stream[c] = "open" /\ MayClose(a, c) /\ closing' = [closing EXCEPT ![a][c] = "set"]
      /\ UNCHANGED <<sourceVars, scanVars, closer, toClose>>
  BY DEF LookAtClosed, At
<1>2. TypesInv'
  BY <1>1 DEF SourceInv, TypesInv, StreamsTypeOK, sourceVars, scanVars
<1>3. pc[c] = "streaming"
  BY <1>1 DEF SourceInv, AccountInv, MayClose, Agents
<1>4. closing \in [Agents -> [Scans -> {"idle", "set", "release", "session"}]]
  BY DEF SourceInv, TypesInv, StreamsTypeOK
<1>5. ScanInv(c)'
  BY <1>1, <1>3, <1>4 DEF SourceInv, ScanInv, StreamInv, ReleaseInv, Released, Hooked, sourceVars, scanVars
<1>6. AccountInv' /\ ConnectionInv' /\ NoneRevived
  BY <1>1, ConnectionsStay DEF SourceInv, AccountInv, sourceVars, scanVars
<1>7. \A d \in Scans \ {c} : SameScan(d)
  BY <1>1, <1>4 DEF SameScan, scanVars
<1> QED BY <1>1, <1>2, <1>5, <1>6, <1>7, OneScanMoves DEF SourceInv, SchemaFirst, sourceVars, scanVars

LEMMA SetClosedKeeps ==
  ASSUME SourceInv, NEW c \in Scans, NEW a \in Agents, SetClosed(a, c),
         UNCHANGED <<kind, prepared, dropped, broken>>
  PROVE  SourceInv'
<1>1. /\ closing[a][c] = "set" /\ stream' = [stream EXCEPT ![c] = "closed"]
      /\ closing' = [closing EXCEPT ![a][c] = "release"]
      /\ UNCHANGED <<sourceVars, pc, session, cursor, closer, toClose>>
  BY DEF SetClosed, At
<1>2. TypesInv'
  BY <1>1 DEF SourceInv, TypesInv, StreamsTypeOK, sourceVars
<1>3. /\ closing \in [Agents -> [Scans -> {"idle", "set", "release", "session"}]]
      /\ stream \in [Scans -> {"none", "open", "closed"}]
  BY DEF SourceInv, TypesInv, StreamsTypeOK
<1>4. ScanInv(c)'
  BY <1>1, <1>3 DEF SourceInv, ScanInv, StreamInv, ReleaseInv, Released, Hooked, sourceVars
<1>5. AccountInv' /\ ConnectionInv' /\ NoneRevived
  BY <1>1, <1>3, ConnectionsStay DEF SourceInv, AccountInv, sourceVars
<1>6. \A d \in Scans \ {c} : SameScan(d)
  BY <1>1, <1>3 DEF SameScan
<1> QED BY <1>1, <1>2, <1>4, <1>5, <1>6, OneScanMoves DEF SourceInv, SchemaFirst, sourceVars

LEMMA NextToCloseKeeps ==
  ASSUME SourceInv, NEW c \in Scans, NextToClose(c), UNCHANGED <<kind, prepared, dropped, broken>>
  PROVE  SourceInv'
<1>1. /\ closer = "streams" /\ stream[c] = "closed" /\ toClose' = toClose \ {c}
      /\ UNCHANGED <<sourceVars, scanVars, closing, closer>>
  BY DEF NextToClose
<1>2. TypesInv' /\ AccountInv'
  BY <1>1 DEF SourceInv, TypesInv, StreamsTypeOK, AccountInv, sourceVars, scanVars
<1>3. ConnectionInv' /\ NoneRevived
  BY <1>1, ConnectionsStay DEF SourceInv, sourceVars, scanVars
<1> QED BY <1>1, <1>2, <1>3, NoScanMoves DEF sourceVars

-----------------------------------------------------------------------------
(* A scan before it has a stream.                                          *)

Starting == {"start", "open", "session", "execute", "register"}

LEMMA NoStreamYet ==
  ASSUME SourceInv, NEW c \in Scans, pc[c] \in Starting
  PROVE  /\ stream[c] = "none" /\ c \notin streams /\ c \notin toClose
         /\ \A a \in Agents : closing[a][c] = "idle"
BY DEF SourceInv, ScanInv, StreamInv, AccountInv, Starting

LEMMA ScanAdvances ==
  ASSUME SourceInv, NEW c \in Scans, pc[c] \in Starting, NEW step \in (Starting \cup {"empty", "failed"}),
         Go(c, step), UNCHANGED <<owned, streams, closed, stream, closeVars, kind>>,
         \A d \in Scans \ {c} : session'[d] = session[d] /\ cursor'[d] = cursor[d],
         schema => schema', step = "open" \/ session'[c] # None => schema',
         TypesInv', ReleaseInv(c)', ConnectionInv', NoneRevived
  PROVE  SourceInv'
<1>1. /\ pc' = [pc EXCEPT ![c] = step] /\ stream' = stream /\ closing' = closing
      /\ UNCHANGED <<owned, streams, closed, closer, toClose, kind>>
  BY DEF Go, closeVars
<1>2. pc \in [Scans -> Steps]
  BY DEF SourceInv, TypesInv, StreamsTypeOK
<1>3. pc'[c] = step /\ step # "streaming" /\ \A d \in Scans \ {c} : pc'[d] = pc[d]
  BY <1>1, <1>2 DEF Starting
<1>4. ScanInv(c)'
  BY <1>1, <1>3, NoStreamYet DEF ScanInv, StreamInv, Hooked
<1>5. AccountInv'
  BY <1>1, <1>3, NoStreamYet DEF SourceInv, AccountInv
<1>6. \A d \in Scans \ {c} : SameScan(d)
  BY <1>1, <1>3 DEF SameScan
<1> QED BY <1>1, <1>3, <1>4, <1>5, <1>6, OneScanMoves

(* The stream is made, and registered.                                     *)
LEMMA StreamMade ==
  ASSUME SourceInv, NEW c \in Scans, pc[c] = "register", kind = "mysql" \/ ~ closed,
         stream' = [stream EXCEPT ![c] = "open"], streams' = streams \cup {c}, Go(c, "streaming"),
         UNCHANGED <<owned, primary, schema, closed, live, session, cursor, closeVars,
                     kind, prepared, dropped, broken>>
  PROVE  SourceInv'
<1>1. /\ pc' = [pc EXCEPT ![c] = "streaming"] /\ closing' = closing
      /\ UNCHANGED <<closer, toClose>>
  BY DEF Go, closeVars
<1>2. TypesInv'
  BY <1>1 DEF SourceInv, TypesInv, StreamsTypeOK, Steps
<1>3. /\ pc \in [Scans -> Steps] /\ stream \in [Scans -> {"none", "open", "closed"}]
      /\ streams \subseteq Scans
  BY DEF SourceInv, TypesInv, StreamsTypeOK
<1>4. /\ pc'[c] = "streaming" /\ stream'[c] = "open"
      /\ \A d \in Scans \ {c} : pc'[d] = pc[d] /\ stream'[d] = stream[d]
  BY <1>1, <1>3
<1>5. \A a \in Agents : closing[a][c] = "idle"
  BY NoStreamYet DEF Starting
<1>6. ScanInv(c)'
  BY <1>1, <1>4, <1>5 DEF ScanInv, StreamInv, ReleaseInv, Hooked
<1>7. AccountInv'
  BY <1>1, <1>3, <1>4 DEF SourceInv, AccountInv
<1>8. ConnectionInv' /\ NoneRevived
  BY <1>1, ConnectionsStay DEF SourceInv
<1>9. \A d \in Scans \ {c} : SameScan(d)
  BY <1>1, <1>4 DEF SameScan
<1> QED BY <1>1, <1>2, <1>4, <1>6, <1>7, <1>8, <1>9, OneScanMoves DEF SourceInv, SchemaFirst

(* The source was closed meanwhile: the stream is closed with its cursor.  *)
LEMMA StreamRefused ==
  ASSUME SourceInv, NEW c \in Scans, pc[c] = "register",
         stream' = [stream EXCEPT ![c] = "closed"], streams' \subseteq streams, Go(c, "failed"),
         \A d \in streams \ {c} : d \in streams', \A d \in Scans \ {c} : cursor'[d] = cursor[d],
         UNCHANGED <<owned, schema, closed, session, closeVars, kind>>,
         TypesInv', Released(c)', ConnectionInv', NoneRevived
  PROVE  SourceInv'
<1>1. /\ pc' = [pc EXCEPT ![c] = "failed"] /\ closing' = closing
      /\ UNCHANGED <<closer, toClose>>
  BY DEF Go, closeVars
<1>2. /\ pc \in [Scans -> Steps] /\ stream \in [Scans -> {"none", "open", "closed"}]
      /\ streams \subseteq Scans
  BY DEF SourceInv, TypesInv, StreamsTypeOK
<1>3. /\ pc'[c] = "failed" /\ stream'[c] = "closed"
      /\ \A d \in Scans \ {c} : pc'[d] = pc[d] /\ stream'[d] = stream[d]
  BY <1>1, <1>2
<1>4. c \notin streams /\ c \notin toClose /\ \A a \in Agents : closing[a][c] = "idle"
  BY NoStreamYet DEF Starting
<1>5. ScanInv(c)'
  BY <1>1, <1>3, <1>4 DEF ScanInv, StreamInv, ReleaseInv, Hooked
<1>6. AccountInv'
  BY <1>1, <1>2, <1>3, <1>4 DEF SourceInv, AccountInv
<1>7. \A d \in Scans \ {c} : SameScan(d)
  BY <1>1, <1>3 DEF SameScan
<1> QED BY <1>1, <1>3, <1>5, <1>6, <1>7, OneScanMoves DEF SourceInv, SchemaFirst

(* The hook release() of a stream, and its first block where it has two.   *)
LEMMA HookRuns ==
  ASSUME SourceInv, NEW c \in Scans, NEW a \in Agents, Hooked(a, c), NEW step \in {"idle", "session"},
         At(a, c, step), streams' \subseteq streams, \A d \in streams \ {c} : d \in streams',
         \A d \in Scans \ {c} : cursor'[d] = cursor[d],
         UNCHANGED <<owned, schema, closed, pc, session, stream, closer, toClose, kind>>,
         TypesInv', step = "idle" \/ Released(c) => Released(c)', ConnectionInv', NoneRevived
  PROVE  SourceInv'
<1>1. closing' = [closing EXCEPT ![a][c] = step]
  BY DEF At
<1>2. /\ closing \in [Agents -> [Scans -> {"idle", "set", "release", "session"}]]
      /\ streams \subseteq Scans
  BY DEF SourceInv, TypesInv, StreamsTypeOK
<1>3. /\ closing'[a][c] = step
      /\ \A b \in Agents \ {a} : closing'[b][c] = closing[b][c]
      /\ \A d \in Scans \ {c}, b \in Agents : closing'[b][d] = closing[b][d]
  BY <1>1, <1>2
<1>4. stream[c] = "closed" /\ pc[c] = "streaming"
  BY DEF SourceInv, ScanInv, StreamInv, Hooked
<1>5. StreamInv(c)'
  BY <1>3, <1>4 DEF SourceInv, ScanInv, StreamInv, Hooked
<1>6. ReleaseInv(c)'
  BY <1>3, <1>4 DEF SourceInv, ScanInv, ReleaseInv, Hooked
<1>7. AccountInv'
  BY <1>2, <1>4 DEF SourceInv, AccountInv
<1>8. \A d \in Scans \ {c} : SameScan(d)
  BY <1>3 DEF SameScan
<1> QED BY <1>4, <1>5, <1>6, <1>7, <1>8, OneScanMoves DEF SourceInv, SchemaFirst, ScanInv

-----------------------------------------------------------------------------
(* What happens to the connections.                                        *)

LEMMA ConnectionCloses ==
  ASSUME SourceInv, owned, NEW k, k # Injected, live' = live \ {k},
         UNCHANGED <<owned, primary, closed, session, closer, kind, dropped, broken>>
  PROVE  ConnectionInv' /\ NoneRevived
BY DEF SourceInv, ConnectionInv, OwnedInv, InjectedStaysOpen, Postgres!InjectedStaysOpen, NoneRevived

LEMMA PrimaryCloses ==
  ASSUME SourceInv, owned, primary' = None, live' = live \ {primary},
         UNCHANGED <<owned, closed, session, closer, kind, dropped, broken>>
  PROVE  ConnectionInv' /\ NoneRevived
<1>1. None # Injected
  BY ConnectionsSuffice
<1>2. OwnedInv'
  BY <1>1 DEF SourceInv, ConnectionInv, OwnedInv
<1> QED
  BY <1>2 DEF SourceInv, ConnectionInv, OwnedInv, InjectedStaysOpen, Postgres!InjectedStaysOpen, NoneRevived

LEMMA PrimaryOpens ==
  ASSUME SourceInv, owned, ~ closed, NEW k, IsNew(k), primary = None \/ primary \notin live,
         primary' = k, live' = live \cup {k},
         UNCHANGED <<owned, closed, session, closer, kind, dropped, broken>>
  PROVE  ConnectionInv' /\ NoneRevived
<1>1. None \notin Connections /\ live \subseteq Connections
  BY ConnectionsSuffice DEF SourceInv, TypesInv, StreamsTypeOK
<1>2. closer = "idle"
  BY DEF SourceInv, AccountInv
<1>3. OwnedInv'
  BY <1>1, <1>2 DEF SourceInv, ConnectionInv, OwnedInv, IsNew
<1> QED
  BY <1>3 DEF SourceInv, ConnectionInv, InjectedStaysOpen, Postgres!InjectedStaysOpen, NoneRevived, IsNew

LEMMA SessionOpens ==
  ASSUME SourceInv, owned, ~ closed, kind \in {"mysql", "postgres"}, NEW c \in Scans, session[c] = None,
         NEW k, IsNew(k), session' = [session EXCEPT ![c] = k], live' = live \cup {k},
         primary' = primary \/ (primary' = None /\ primary \notin live),
         UNCHANGED <<owned, closed, closer, kind, dropped, broken>>
  PROVE  ConnectionInv' /\ NoneRevived
<1>1. /\ None \notin Connections /\ Injected \in Connections /\ live \subseteq Connections
      /\ session \in [Scans -> Connections \cup {None}]
  BY ConnectionsSuffice DEF SourceInv, TypesInv, StreamsTypeOK
<1>2. closer = "idle"
  BY DEF SourceInv, AccountInv
<1>3. session'[c] = k /\ \A d \in Scans \ {c} : session'[d] = session[d]
  BY <1>1
<1>4. live' \subseteq {Injected, primary', dropped'} \cup {session'[d] : d \in Scans}
  <2> SUFFICES ASSUME NEW j \in live', j \notin {Injected, primary', dropped'}
               PROVE  \E d \in Scans : session'[d] = j
    OBVIOUS
  <2>1. CASE j = k
    BY <2>1, <1>3
  <2>2. CASE j # k
    BY <1>1, <1>3, <2>2 DEF SourceInv, ConnectionInv, OwnedInv
  <2> QED BY <2>1, <2>2
<1>5. OwnedInv'
  <2>1. \A d \in Scans : session'[d] # None =>
          /\ session'[d] \notin {primary', dropped', Injected}
          /\ \A e \in Scans \ {d} : session'[e] # session'[d]
    BY <1>1, <1>3 DEF SourceInv, ConnectionInv, OwnedInv, IsNew
  <2> QED BY <1>1, <1>2, <1>4, <2>1 DEF SourceInv, ConnectionInv, OwnedInv
<1>6. NoneRevived
  BY DEF NoneRevived, IsNew
<1> QED
  BY <1>5, <1>6 DEF SourceInv, ConnectionInv, InjectedStaysOpen, Postgres!InjectedStaysOpen

(* A PostgreSQL scan takes the source's connection over.                   *)
LEMMA PrimaryTaken ==
  ASSUME SourceInv, owned, ~ closed, kind = "postgres", NEW c \in Scans, session[c] = None,
         primary \in live, session' = [session EXCEPT ![c] = primary], live' = live \cup {primary},
         primary' = None, UNCHANGED <<owned, closed, closer, kind, dropped, broken>>
  PROVE  ConnectionInv' /\ NoneRevived
<1>1. /\ None \notin Connections /\ Injected \in Connections /\ live \subseteq Connections
      /\ session \in [Scans -> Connections \cup {None}] /\ live' = live
  BY ConnectionsSuffice DEF SourceInv, TypesInv, StreamsTypeOK
<1>2. closer = "idle"
  BY DEF SourceInv, AccountInv
<1>3. session'[c] = primary /\ \A d \in Scans \ {c} : session'[d] = session[d]
  BY <1>1
<1>4. live' \subseteq {Injected, primary', dropped'} \cup {session'[d] : d \in Scans}
  <2> SUFFICES ASSUME NEW j \in live, j \notin {Injected, dropped}
               PROVE  \E d \in Scans : session'[d] = j
    BY <1>1
  <2>1. CASE j = primary
    BY <2>1, <1>3
  <2>2. CASE j # primary
    BY <1>1, <1>3, <2>2 DEF SourceInv, ConnectionInv, OwnedInv
  <2> QED BY <2>1, <2>2
<1>5. OwnedInv'
  <2>1. \A d \in Scans : session'[d] # None =>
          /\ session'[d] \notin {primary', dropped', Injected}
          /\ \A e \in Scans \ {d} : session'[e] # session'[d]
    BY <1>1, <1>3 DEF SourceInv, ConnectionInv, OwnedInv
  <2> QED BY <1>1, <1>2, <1>4, <2>1 DEF SourceInv, ConnectionInv, OwnedInv
<1>6. NoneRevived
  BY <1>1 DEF NoneRevived
<1> QED
  BY <1>1, <1>5, <1>6 DEF SourceInv, ConnectionInv, InjectedStaysOpen, Postgres!InjectedStaysOpen

(* A scan works on the user's connection.                                  *)
LEMMA InjectedShared ==
  ASSUME SourceInv, ~ owned, ~ closed, kind \in {"mysql", "postgres"}, NEW c \in Scans,
         session' = [session EXCEPT ![c] = primary],
         UNCHANGED <<owned, primary, closed, live, closer, kind, dropped, broken>>
  PROVE  ConnectionInv' /\ NoneRevived
<1>1. session \in [Scans -> Connections \cup {None}]
  BY DEF SourceInv, TypesInv, StreamsTypeOK
<1> QED
  BY <1>1 DEF SourceInv, ConnectionInv, InjectedInv, InjectedStaysOpen, Postgres!InjectedStaysOpen, NoneRevived

(* close() takes the connection over, or leaves it where it is.            *)
LEMMA PrimaryDropped ==
  ASSUME SourceInv, ~ closed, closed' = TRUE, closer' = "streams",
         \/ kind \in {"mysql", "mongo"} /\ dropped' = primary /\ primary' = None
         \/ kind = "neo4j" /\ dropped' = dropped /\ primary' = primary,
         UNCHANGED <<owned, live, session, kind, broken>>
  PROVE  ConnectionInv' /\ NoneRevived
<1>1. None # Injected /\ None \notin live
  BY ConnectionsSuffice DEF SourceInv, TypesInv, StreamsTypeOK
<1>2. dropped = None
  BY DEF SourceInv, ConnectionInv
<1>3. owned => OwnedInv'
  BY <1>1, <1>2 DEF SourceInv, ConnectionInv, OwnedInv
<1>4. ~ owned => InjectedInv'
  BY <1>1, <1>2 DEF SourceInv, ConnectionInv, InjectedInv
<1>5. NoneRevived
  BY DEF NoneRevived
<1> QED BY <1>2, <1>3, <1>4, <1>5 DEF SourceInv, ConnectionInv, InjectedStaysOpen, Postgres!InjectedStaysOpen

(* close() returns, when a connection of the source's own is closed.       *)
LEMMA LastConnectionCloses ==
  ASSUME SourceInv, closed, closer' = "done", dropped' = None,
         kind \in {"mysql", "mongo"} => live' = IF owned THEN live \ {dropped} ELSE live,
         kind = "neo4j" => live' = IF owned THEN live \ {primary} ELSE live,
         kind = "postgres" => live' = live,
         UNCHANGED <<owned, primary, closed, session, kind, broken>>
  PROVE  ConnectionInv' /\ NoneRevived
<1>1. None # Injected /\ None \notin live
  BY ConnectionsSuffice DEF SourceInv, TypesInv, StreamsTypeOK
<1>2. kind \in {"mysql", "postgres", "mongo", "neo4j"} /\ live' \subseteq live
  BY DEF SourceInv, TypesInv
<1>3. kind \in {"postgres", "neo4j"} => dropped = None
  BY DEF SourceInv, ConnectionInv
<1>4. owned => OwnedInv'
  BY <1>1, <1>2, <1>3 DEF SourceInv, ConnectionInv, OwnedInv
<1>5. ~ owned => InjectedInv'
  BY <1>1, <1>2 DEF SourceInv, ConnectionInv, InjectedInv
<1>6. NoneRevived
  BY <1>2 DEF NoneRevived
<1>7. InjectedStaysOpen'
  BY <1>2 DEF SourceInv, ConnectionInv, OwnedInv, InjectedStaysOpen, Postgres!InjectedStaysOpen
<1> QED BY <1>4, <1>5, <1>6, <1>7 DEF SourceInv, ConnectionInv

(* What schema discovery, and a scan that opens, may do to the primary.    *)
PrimaryStep ==
  \/ UNCHANGED <<primary, live>>
  \/ owned /\ primary' = None /\ live' = live \ {primary}
  \/ /\ owned /\ ~ closed
     /\ primary = None \/ primary \notin live
     /\ \E k : IsNew(k) /\ primary' = k /\ live' = live \cup {k}

LEMMA PrimaryStepKeeps ==
  ASSUME SourceInv, PrimaryStep, UNCHANGED <<owned, closed, session, closer, kind, dropped, broken>>
  PROVE  /\ ConnectionInv' /\ NoneRevived
         /\ primary' \in Connections \cup {None} /\ live' \subseteq Connections
<1>1. primary \in Connections \cup {None} /\ live \subseteq Connections
  BY DEF SourceInv, TypesInv, StreamsTypeOK
<1>2. CASE UNCHANGED <<primary, live>>
  BY <1>1, <1>2, ConnectionsStay DEF SourceInv
<1>3. CASE owned /\ primary' = None /\ live' = live \ {primary}
  BY <1>1, <1>3, PrimaryCloses
<1>4. CASE /\ owned /\ ~ closed
           /\ primary = None \/ primary \notin live
           /\ \E k : IsNew(k) /\ primary' = k /\ live' = live \cup {k}
  <2>1. PICK k : IsNew(k) /\ primary' = k /\ live' = live \cup {k}
    BY <1>4
  <2>2. ConnectionInv' /\ NoneRevived
    BY <1>4, <2>1, PrimaryOpens
  <2> QED BY <1>1, <2>1, <2>2 DEF IsNew
<1> QED BY <1>2, <1>3, <1>4 DEF PrimaryStep

(* schema().                                                               *)
LEMMA SchemaRead ==
  ASSUME SourceInv, PrimaryStep, schema => schema', schema' \in BOOLEAN, prepared' \in BOOLEAN,
         UNCHANGED <<owned, streams, closed, scanVars, closeVars, kind, dropped, broken>>
  PROVE  SourceInv'
<1>1. UNCHANGED <<owned, streams, closed, pc, session, cursor, stream, closing, closer, toClose>>
  BY DEF scanVars, closeVars
<1>2. /\ ConnectionInv' /\ NoneRevived
      /\ primary' \in Connections \cup {None} /\ live' \subseteq Connections
  BY <1>1, PrimaryStepKeeps
<1>3. TypesInv'
  BY <1>1, <1>2 DEF SourceInv, TypesInv, StreamsTypeOK
<1>4. AccountInv'
  BY <1>1 DEF SourceInv, AccountInv
<1> QED BY <1>1, <1>2, <1>3, <1>4, NoScanMoves

(* A scan gets on, or ends, before it has anything to release.             *)
LEMMA ScanContinues ==
  ASSUME SourceInv, PrimaryStep, schema => schema', schema' \in BOOLEAN, prepared' \in BOOLEAN,
         NEW c \in Scans, pc[c] \in {"start", "open", "session"},
         NEW step \in {"open", "session", "execute", "failed", "empty"}, Go(c, step),
         step = "open" => schema',
         UNCHANGED <<owned, streams, closed, session, cursor, stream, closeVars, kind, dropped, broken>>
  PROVE  SourceInv'
<1>1. UNCHANGED <<closing, closer, toClose>>
  BY DEF closeVars
<1>2. /\ ConnectionInv' /\ NoneRevived
      /\ primary' \in Connections \cup {None} /\ live' \subseteq Connections
  BY <1>1, PrimaryStepKeeps
<1>3. TypesInv'
  BY <1>1, <1>2 DEF SourceInv, TypesInv, StreamsTypeOK, Steps, Go
<1>4. session[c] = None /\ cursor[c] = "none" /\ stream[c] = "none"
  BY NoStreamYet DEF SourceInv, ScanInv, ReleaseInv, Starting
<1>5. ReleaseInv(c)'
  BY <1>4 DEF ReleaseInv, Released
<1>6. pc[c] \in Starting /\ step \in Starting \cup {"empty", "failed"}
  BY DEF Starting
<1> QED BY <1>2, <1>3, <1>4, <1>5, <1>6, ScanAdvances

(* A scan gets its cursor, or fails to, on a connection that is shared.    *)
LEMMA CursorMoves ==
  ASSUME SourceInv, NEW c \in Scans, pc[c] \in {"session", "execute"},
         NEW v \in {"none", "open", "closed"}, cursor' = [cursor EXCEPT ![c] = v],
         NEW step \in {"execute", "register", "failed"}, Go(c, step),
         step = "execute" => kind = "neo4j", step = "failed" => v # "open" /\ session[c] = None,
         UNCHANGED <<sourceVars, session, stream, closeVars, kind, prepared, dropped, broken>>
  PROVE  SourceInv'
<1>1. UNCHANGED <<owned, primary, schema, streams, closed, live, closing, closer, toClose>>
  BY DEF closeVars, sourceVars
<1>2. TypesInv'
  BY <1>1 DEF SourceInv, TypesInv, StreamsTypeOK, Steps, Go
<1>3. ConnectionInv' /\ NoneRevived
  BY <1>1, ConnectionsStay DEF SourceInv
<1>4. stream[c] = "none" /\ pc[c] \in Starting /\ step \in Starting \cup {"empty", "failed"}
  BY NoStreamYet DEF Starting
<1>5. cursor'[c] = v /\ (\A d \in Scans \ {c} : cursor'[d] = cursor[d]) /\ pc'[c] = step
  BY DEF SourceInv, TypesInv, StreamsTypeOK, Go
<1>6. ReleaseInv(c)'
  BY <1>4, <1>5 DEF ReleaseInv, Released
<1>7. step # "open" /\ (session'[c] # None => schema')
  BY <1>1 DEF SourceInv, SchemaFirst
<1> QED BY <1>1, <1>2, <1>3, <1>4, <1>5, <1>6, <1>7, ScanAdvances

-----------------------------------------------------------------------------
(* close(): its beginning and its end.                                     *)

LEMMA CloseBegins ==
  ASSUME SourceInv, ~ closed, closed' = TRUE, toClose' = streams, streams' = {}, closer' = "streams",
         UNCHANGED <<owned, schema, scanVars, closing, kind, prepared, broken>>,
         primary' \in Connections \cup {None}, dropped' \in Connections \cup {None},
         live' \subseteq Connections, ConnectionInv', NoneRevived
  PROVE  SourceInv'
<1>1. TypesInv'
  BY DEF SourceInv, TypesInv, StreamsTypeOK, scanVars
<1>2. AccountInv'
  BY DEF SourceInv, AccountInv, scanVars
<1> QED BY <1>1, <1>2, NoScanMoves

LEMMA CloseEnds ==
  ASSUME SourceInv, closer = "streams", toClose = {}, closer' = "done", dropped' = None,
         kind \in {"mysql", "mongo"} => live' = IF owned THEN live \ {dropped} ELSE live,
         kind = "neo4j" => live' = IF owned THEN live \ {primary} ELSE live,
         kind = "postgres" => live' = live,
         UNCHANGED <<owned, primary, schema, streams, closed, scanVars, closing, toClose,
                     kind, prepared, broken>>
  PROVE  SourceInv'
<1>1. closed
  BY DEF SourceInv, AccountInv
<1>2. ConnectionInv' /\ NoneRevived
  BY <1>1, LastConnectionCloses DEF scanVars
<1>3. live' \subseteq live
  BY DEF SourceInv, TypesInv
<1>4. TypesInv'
  BY <1>3 DEF SourceInv, TypesInv, StreamsTypeOK, scanVars
<1>5. AccountInv'
  BY <1>1 DEF SourceInv, AccountInv, scanVars
<1> QED BY <1>2, <1>4, <1>5, NoScanMoves

-----------------------------------------------------------------------------
(* The MySQL source.                                                       *)

LEMMA MySQLPrimarySession ==
  ASSUME SourceInv, kind = "mysql", ~ closed, ~ owned \/ (\A d \in Scans : session[d] = None),
         MySQL!PrimarySession
  PROVE  PrimaryStep /\ prepared' \in BOOLEAN /\ (~ owned => UNCHANGED <<primary, live>>)
<1>1. prepared' = TRUE
  BY DEF MySQL!PrimarySession
<1>2. CASE primary # None
  BY <1>1, <1>2 DEF MySQL!PrimarySession, PrimaryStep
<1>3. CASE primary = None
  <2>1. owned
    BY <1>3, ConnectionsSuffice DEF SourceInv, ConnectionInv, InjectedInv
  <2>2. MySQL!Fresh = NewConnection({dropped})
    BY DEF MySQL!Fresh, MySQL!NewConnection, NewConnection
  <2>3. dropped = None
    BY DEF SourceInv, ConnectionInv
  <2>4. IsNew(NewConnection({dropped}))
    BY <2>1, <2>3, PrimaryIsNew
  <2>5. primary' = NewConnection({dropped}) /\ live' = live \cup {NewConnection({dropped})}
    BY <1>3, <2>2 DEF MySQL!PrimarySession
  <2> QED BY <1>1, <1>3, <2>1, <2>4, <2>5 DEF PrimaryStep
<1> QED BY <1>2, <1>3

LEMMA MySQLSchema ==
  ASSUME SourceInv, kind = "mysql", MySQL!SchemaReturns \/ MySQL!SchemaRaises
  PROVE  /\ PrimaryStep /\ prepared' \in BOOLEAN /\ schema' \in BOOLEAN /\ (schema => schema')
         /\ MySQL!SchemaReturns => schema'
<1>1. ~ schema => \A d \in Scans : session[d] = None
  BY DEF SourceInv, SchemaFirst
<1>2. prepared \in BOOLEAN /\ schema \in BOOLEAN
  BY DEF SourceInv, TypesInv, StreamsTypeOK
<1>3. CASE MySQL!SchemaReturns
  <2>1. schema' = TRUE
    BY <1>3 DEF MySQL!SchemaReturns
  <2>2. CASE schema /\ UNCHANGED <<primary, prepared, live>>
    BY <1>2, <2>1, <2>2 DEF PrimaryStep
  <2>3. CASE ~ schema /\ ~ closed /\ MySQL!PrimarySession
    BY <1>1, <2>1, <2>3, MySQLPrimarySession
  <2> QED BY <1>3, <2>2, <2>3 DEF MySQL!SchemaReturns
<1>4. CASE MySQL!SchemaRaises
  <2>1. ~ schema /\ schema' = schema
    BY <1>4 DEF MySQL!SchemaRaises
  <2>2. ~ MySQL!SchemaReturns
    BY <2>1 DEF MySQL!SchemaReturns
  <2>3. CASE UNCHANGED <<primary, prepared, live>>
    BY <1>2, <2>1, <2>2, <2>3 DEF PrimaryStep
  <2>4. CASE owned /\ MySQL!DiscardPrimary
    BY <1>2, <2>1, <2>2, <2>4 DEF PrimaryStep, MySQL!DiscardPrimary
  <2>5. CASE ~ closed /\ MySQL!PrimarySession
    BY <1>1, <1>2, <2>1, <2>2, <2>5, MySQLPrimarySession
  <2> QED BY <1>4, <2>3, <2>4, <2>5 DEF MySQL!SchemaRaises
<1> QED BY <1>3, <1>4

LEMMA MySQLAdmit ==
  ASSUME SourceInv, kind = "mysql", NEW c \in Scans, MySQL!Admit(c), UNCHANGED <<kind, broken>>
  PROVE  SourceInv'
<1>1. /\ pc[c] = "open" /\ ~ closed /\ MySQL!ScanSession(c) /\ Go(c, "execute")
      /\ UNCHANGED <<owned, schema, streams, closed, cursor, stream, closeVars, kind, dropped, broken>>
  BY DEF MySQL!Admit, MySQL!Go, Go, MySQL!closeVars, closeVars
<1>2. /\ session[c] = None /\ cursor[c] = "none" /\ stream[c] = "none" /\ schema /\ dropped = None
  BY <1>1, NoStreamYet DEF SourceInv, ScanInv, ReleaseInv, Starting, SchemaFirst, ConnectionInv
<1>3. /\ ConnectionInv' /\ NoneRevived /\ prepared' \in BOOLEAN
      /\ primary' \in Connections \cup {None} /\ live' \subseteq Connections
      /\ \E k \in Connections : session' = [session EXCEPT ![c] = k]
  <2>1. /\ prepared \in BOOLEAN /\ primary \in Connections \cup {None} /\ live \subseteq Connections
        /\ UNCHANGED <<owned, closed, closer, kind, dropped, broken>>
    BY <1>1 DEF SourceInv, TypesInv, StreamsTypeOK, closeVars
  <2>2. CASE owned
    <3>1. MySQL!Fresh = NewConnection({dropped})
      BY DEF MySQL!Fresh, MySQL!NewConnection, NewConnection
    <3>2. /\ session' = [session EXCEPT ![c] = NewConnection({dropped})]
          /\ live' = live \cup {NewConnection({dropped})} /\ primary' = primary /\ prepared' = prepared
      BY <1>1, <2>2, <3>1 DEF MySQL!ScanSession
    <3>3. IsNew(NewConnection({dropped}))
      BY <1>2, <2>2, ScanConnectionIsNew
    <3>4. ConnectionInv' /\ NoneRevived
      BY <1>1, <1>2, <2>1, <2>2, <3>2, <3>3, SessionOpens
    <3> QED BY <2>1, <3>2, <3>3, <3>4 DEF IsNew
  <2>3. CASE ~ owned
    <3>1. primary = Injected /\ Injected # None
      BY <1>1, <2>3, ConnectionsSuffice DEF SourceInv, ConnectionInv, InjectedInv
    <3>2. /\ session' = [session EXCEPT ![c] = primary] /\ primary' = primary /\ live' = live
          /\ prepared' = TRUE
      BY <1>1, <2>3, <3>1 DEF MySQL!ScanSession, MySQL!PrimarySession
    <3>3. ConnectionInv' /\ NoneRevived
      BY <1>1, <2>1, <2>3, <3>2, InjectedShared
    <3> QED BY <2>1, <3>1, <3>2, <3>3, ConnectionsSuffice
  <2> QED BY <2>2, <2>3
<1>4. TypesInv'
  BY <1>1, <1>3 DEF SourceInv, TypesInv, StreamsTypeOK, Steps, Go, closeVars
<1>5. ReleaseInv(c)'
  BY <1>1, <1>2 DEF ReleaseInv, SourceInv, TypesInv, StreamsTypeOK, Go
<1>6. /\ pc[c] \in Starting /\ "execute" \in Starting \cup {"empty", "failed"}
      /\ \A d \in Scans \ {c} : session'[d] = session[d] /\ cursor'[d] = cursor[d]
  BY <1>1, <1>3 DEF Starting, SourceInv, TypesInv, StreamsTypeOK
<1> QED BY <1>1, <1>2, <1>3, <1>4, <1>5, <1>6, ScanAdvances

(* An owned connection is closed, a cursor on the user's is.               *)
LEMMA MySQLReleaseSession ==
  ASSUME SourceInv, kind = "mysql", NEW c \in Scans, MySQL!ReleaseSession(c),
         UNCHANGED <<owned, primary, closed, session, closer, kind, dropped, broken>>
  PROVE  /\ Released(c)' /\ ConnectionInv' /\ NoneRevived
         /\ live' \subseteq live /\ cursor' \in [Scans -> {"none", "open", "closed"}]
         /\ \A d \in Scans \ {c} : cursor'[d] = cursor[d]
<1>1. /\ live' = IF owned THEN live \ {session[c]} ELSE live
      /\ cursor' = [cursor EXCEPT ![c] = IF @ = "none" THEN @ ELSE "closed"]
  BY DEF MySQL!ReleaseSession
<1>2. cursor \in [Scans -> {"none", "open", "closed"}]
  BY DEF SourceInv, TypesInv, StreamsTypeOK
<1>3. /\ cursor' \in [Scans -> {"none", "open", "closed"}] /\ cursor'[c] # "open"
      /\ \A d \in Scans \ {c} : cursor'[d] = cursor[d]
  BY <1>1, <1>2
<1>4. owned => session[c] # Injected
  BY ConnectionsSuffice DEF SourceInv, ConnectionInv, OwnedInv
<1>5. ConnectionInv' /\ NoneRevived
  BY <1>1, <1>4, ConnectionCloses, ConnectionsStay DEF SourceInv
<1> QED BY <1>1, <1>3, <1>5 DEF Released

LEMMA MySQLExecuteRaises ==
  ASSUME SourceInv, kind = "mysql", NEW c \in Scans, MySQL!ExecuteRaises(c), UNCHANGED <<kind, broken>>
  PROVE  SourceInv'
<1>1. /\ pc[c] = "execute" /\ MySQL!ReleaseSession(c) /\ Go(c, "failed")
      /\ UNCHANGED <<owned, primary, schema, streams, closed, session, stream, closeVars,
                     kind, prepared, dropped, broken>>
  BY DEF MySQL!ExecuteRaises, MySQL!Go, Go, MySQL!closeVars, closeVars
<1>2. /\ Released(c)' /\ ConnectionInv' /\ NoneRevived
      /\ live' \subseteq live /\ cursor' \in [Scans -> {"none", "open", "closed"}]
      /\ \A d \in Scans \ {c} : cursor'[d] = cursor[d]
  BY <1>1, MySQLReleaseSession DEF closeVars
<1>3. TypesInv'
  BY <1>1, <1>2 DEF SourceInv, TypesInv, StreamsTypeOK, Steps, Go, closeVars
<1>4. ReleaseInv(c)' /\ (session'[c] # None => schema')
  BY <1>1, <1>2 DEF ReleaseInv, SourceInv, TypesInv, StreamsTypeOK, Go, SchemaFirst
<1>5. pc[c] \in Starting /\ "failed" \in Starting \cup {"empty", "failed"}
  BY <1>1 DEF Starting
<1> QED BY <1>1, <1>2, <1>3, <1>4, <1>5, ScanAdvances

LEMMA MySQLExecute ==
  ASSUME SourceInv, kind = "mysql", NEW c \in Scans, MySQL!Execute(c), UNCHANGED <<kind, broken>>
  PROVE  SourceInv'
BY CursorMoves DEF MySQL!Execute, MySQL!Go, Go, MySQL!closeVars, closeVars, MySQL!sourceVars, sourceVars

LEMMA MySQLRegister ==
  ASSUME SourceInv, kind = "mysql", NEW c \in Scans, MySQL!Register(c), UNCHANGED <<kind, broken>>
  PROVE  SourceInv'
BY StreamMade DEF MySQL!Register, MySQL!Go, Go, MySQL!closeVars, closeVars

LEMMA MySQLCloseStream ==
  ASSUME SourceInv, kind = "mysql", NEW c \in Scans, NEW a \in Agents, MySQL!CloseStream(a, c),
         UNCHANGED <<kind, broken>>
  PROVE  SourceInv'
<1> USE DEF MySQL!At, At, MySQL!sourceVars, sourceVars, MySQL!scanVars, scanVars
<1>1. UNCHANGED <<kind, prepared, dropped, broken>>
  BY DEF MySQL!CloseStream
<1>2. CASE MySQL!LookAtClosed(a, c)
  BY <1>1, <1>2, LookAtClosedKeeps DEF MySQL!LookAtClosed, LookAtClosed, MySQL!MayClose, MayClose
<1>3. CASE MySQL!SetClosed(a, c)
  BY <1>1, <1>3, SetClosedKeeps DEF MySQL!SetClosed, SetClosed
<1>4. CASE MySQL!Unregister(a, c)
  <2>1. /\ closing[a][c] = "release" /\ streams' = streams \ {c} /\ At(a, c, "session")
        /\ UNCHANGED <<owned, primary, schema, closed, live, scanVars, closer, toClose>>
    BY <1>4 DEF MySQL!Unregister
  <2>2. TypesInv'
    BY <1>1, <2>1 DEF SourceInv, TypesInv, StreamsTypeOK
  <2>3. ConnectionInv' /\ NoneRevived
    BY <1>1, <2>1, ConnectionsStay DEF SourceInv
  <2>4. Released(c) => Released(c)'
    BY <2>1 DEF Released
  <2> QED BY <1>1, <2>1, <2>2, <2>3, <2>4, HookRuns DEF Hooked
<1>5. CASE MySQL!CloseSession(a, c)
  <2>1. /\ closing[a][c] = "session" /\ MySQL!ReleaseSession(c) /\ At(a, c, "idle")
        /\ UNCHANGED <<owned, primary, schema, streams, closed, pc, session, stream, closer, toClose>>
    BY <1>5 DEF MySQL!CloseSession
  <2>2. /\ Released(c)' /\ ConnectionInv' /\ NoneRevived
        /\ live' \subseteq live /\ cursor' \in [Scans -> {"none", "open", "closed"}]
        /\ \A d \in Scans \ {c} : cursor'[d] = cursor[d]
    BY <1>1, <2>1, MySQLReleaseSession
  <2>3. TypesInv'
    BY <1>1, <2>1, <2>2 DEF SourceInv, TypesInv, StreamsTypeOK
  <2> QED BY <1>1, <2>1, <2>2, <2>3, HookRuns DEF Hooked
<1> QED BY <1>2, <1>3, <1>4, <1>5 DEF MySQL!CloseStream

LEMMA MySQLNext ==
  ASSUME SourceInv, kind = "mysql", MySQL!Next, UNCHANGED <<kind, broken>>
  PROVE  SourceInv'
<1> USE DEF MySQL!Go, Go, MySQL!closeVars, closeVars, MySQL!sourceVars, sourceVars,
            MySQL!scanVars, scanVars
<1>1. CASE MySQL!ReadSchema
  BY <1>1, MySQLSchema, SchemaRead DEF MySQL!ReadSchema
<1>2. CASE MySQL!Close
  <2>1. /\ primary \in Connections \cup {None} /\ None \in Connections \cup {None}
        /\ live \subseteq Connections
    BY DEF SourceInv, TypesInv, StreamsTypeOK
  <2>2. ConnectionInv' /\ NoneRevived
    BY <1>2, PrimaryDropped DEF MySQL!Close
  <2> QED BY <1>2, <2>1, <2>2, CloseBegins DEF MySQL!Close
<1>3. CASE MySQL!CloseConnection
  BY <1>3, CloseEnds DEF MySQL!CloseConnection
<1>4. ASSUME NEW c \in Scans, MySQL!ScanSchema(c) PROVE SourceInv'
  <2>1. CASE MySQL!SchemaReturns /\ Go(c, "open")
    BY <1>4, <2>1, MySQLSchema, ScanContinues DEF MySQL!ScanSchema
  <2>2. CASE MySQL!SchemaRaises /\ Go(c, "failed")
    BY <1>4, <2>2, MySQLSchema, ScanContinues DEF MySQL!ScanSchema
  <2> QED BY <1>4, <2>1, <2>2 DEF MySQL!ScanSchema
<1>5. ASSUME NEW c \in Scans, MySQL!AdmitRaises(c) PROVE SourceInv'
  <2>1. PrimaryStep /\ schema \in BOOLEAN /\ prepared \in BOOLEAN
    BY <1>5 DEF MySQL!AdmitRaises, PrimaryStep, SourceInv, TypesInv, StreamsTypeOK
  <2> QED BY <1>5, <2>1, ScanContinues DEF MySQL!AdmitRaises
<1>6. ASSUME NEW c \in Scans, MySQL!NextToClose(c), UNCHANGED <<prepared, dropped>> PROVE SourceInv'
  BY <1>6, NextToCloseKeeps DEF MySQL!NextToClose, NextToClose
<1> QED
  BY <1>1, <1>2, <1>3, <1>4, <1>5, <1>6, MySQLAdmit, MySQLExecute, MySQLExecuteRaises, MySQLRegister,
     MySQLCloseStream DEF MySQL!Next, MySQL!Agents, Agents

-----------------------------------------------------------------------------
(* The PostgreSQL source.                                                  *)

LEMMA PostgresFresh == Postgres!Fresh = NewConnection({})
BY DEF Postgres!Fresh, Postgres!NewConnection, NewConnection

LEMMA PostgresBreak ==
  ASSUME SourceInv, kind = "postgres", NEW k, Postgres!Break(k), UNCHANGED <<kind, prepared, dropped>>
  PROVE  SourceInv'
<1>1. /\ live' = live \ {k} /\ broken' = (broken \/ k = Injected)
      /\ UNCHANGED <<owned, primary, schema, streams, closed, scanVars, closing, closer, toClose>>
  BY DEF Postgres!Break, Postgres!scanVars, scanVars, Postgres!closeVars, closeVars
<1>2. broken' \in BOOLEAN
  BY <1>1 DEF SourceInv, TypesInv
<1>3. TypesInv' /\ AccountInv'
  BY <1>1, <1>2 DEF SourceInv, TypesInv, StreamsTypeOK, AccountInv, scanVars
<1>4. InjectedStaysOpen'
  <2>1. CASE k = Injected
    BY <1>1, <2>1 DEF InjectedStaysOpen, Postgres!InjectedStaysOpen
  <2>2. CASE k # Injected
    BY <1>1, <2>2 DEF SourceInv, ConnectionInv, InjectedStaysOpen, Postgres!InjectedStaysOpen
  <2> QED BY <2>1, <2>2
<1>5. ConnectionInv' /\ NoneRevived
  BY <1>1, <1>4 DEF SourceInv, ConnectionInv, OwnedInv, InjectedInv, NoneRevived, scanVars
<1> QED BY <1>1, <1>3, <1>5, NoScanMoves

LEMMA PostgresConnect ==
  ASSUME SourceInv, kind = "postgres", \A d \in Scans : session[d] = None, Postgres!Connect
  PROVE  PrimaryStep
<1>1. CASE primary \in live
  BY <1>1 DEF Postgres!Connect, PrimaryStep
<1>2. CASE primary \notin live
  <2>1. /\ owned /\ ~ closed /\ primary' = NewConnection({}) /\ live' = live \cup {NewConnection({})}
    BY <1>2, PostgresFresh DEF Postgres!Connect
  <2>2. IsNew(NewConnection({}))
    BY <2>1, PrimaryIsNew DEF SourceInv, ConnectionInv
  <2> QED BY <1>2, <2>1, <2>2 DEF PrimaryStep
<1> QED BY <1>1, <1>2

LEMMA PostgresReleaseConnection ==
  ASSUME Postgres!ReleaseConnection
  PROVE  PrimaryStep
BY DEF Postgres!ReleaseConnection, PrimaryStep

LEMMA PostgresSchema ==
  ASSUME SourceInv, kind = "postgres", Postgres!SchemaReturns \/ Postgres!SchemaRaises
  PROVE  /\ PrimaryStep /\ schema' \in BOOLEAN /\ (schema => schema')
         /\ Postgres!SchemaReturns => schema'
<1>1. ~ schema => \A d \in Scans : session[d] = None
  BY DEF SourceInv, SchemaFirst
<1>2. schema \in BOOLEAN
  BY DEF SourceInv, TypesInv, StreamsTypeOK
<1>3. CASE Postgres!SchemaReturns
  <2>1. schema' = TRUE
    BY <1>3 DEF Postgres!SchemaReturns
  <2>2. CASE schema
    BY <1>3, <2>1, <2>2 DEF Postgres!SchemaReturns, PrimaryStep
  <2>3. CASE ~ schema
    BY <1>1, <1>3, <2>1, <2>3, PostgresConnect DEF Postgres!SchemaReturns
  <2> QED BY <2>2, <2>3
<1>4. CASE Postgres!SchemaRaises
  <2>1. ~ schema /\ schema' = schema /\ ~ Postgres!SchemaReturns
    BY <1>4 DEF Postgres!SchemaRaises, Postgres!SchemaReturns
  <2>2. CASE UNCHANGED <<primary, live>>
    BY <1>2, <2>1, <2>2 DEF PrimaryStep
  <2>3. CASE Postgres!ReleaseConnection
    BY <1>2, <2>1, <2>3, PostgresReleaseConnection
  <2> QED BY <1>4, <2>2, <2>3 DEF Postgres!SchemaRaises
<1> QED BY <1>3, <1>4

LEMMA PostgresOpenScan ==
  ASSUME SourceInv, kind = "postgres", NEW c \in Scans, Postgres!OpenScan(c),
         UNCHANGED <<kind, prepared, dropped>>
  PROVE  SourceInv'
<1>1. /\ pc[c] = "open" /\ Postgres!TakeScanConnection(c) /\ Go(c, "register")
      /\ cursor' = [cursor EXCEPT ![c] = "open"]
      /\ UNCHANGED <<owned, schema, streams, closed, stream, closeVars, kind, prepared, dropped, broken>>
  BY DEF Postgres!OpenScan, Postgres!Go, Go, Postgres!closeVars, closeVars
<1>2. session[c] = None /\ stream[c] = "none" /\ schema /\ dropped = None
  BY <1>1, NoStreamYet DEF SourceInv, ScanInv, ReleaseInv, Starting, SchemaFirst, ConnectionInv
<1>3. ~ closed
  BY <1>1 DEF Postgres!TakeScanConnection
<1>4. /\ ConnectionInv' /\ NoneRevived
      /\ primary' \in Connections \cup {None} /\ live' \subseteq Connections
      /\ \E k \in Connections : session' = [session EXCEPT ![c] = k]
  <2>1. /\ primary \in Connections \cup {None} /\ live \subseteq Connections
        /\ UNCHANGED <<owned, closed, closer, kind, dropped, broken>>
    BY <1>1 DEF SourceInv, TypesInv, StreamsTypeOK, closeVars
  <2>2. CASE owned /\ primary \in live
    <3>1. /\ session' = [session EXCEPT ![c] = primary] /\ live' = live \cup {primary}
          /\ primary' = None
      BY <1>1, <2>2 DEF Postgres!TakeScanConnection
    <3>2. ConnectionInv' /\ NoneRevived
      BY <1>2, <1>3, <2>1, <2>2, <3>1, PrimaryTaken
    <3> QED BY <2>1, <2>2, <3>1, <3>2
  <2>3. CASE owned /\ primary \notin live
    <3>1. /\ session' = [session EXCEPT ![c] = NewConnection({})]
          /\ live' = live \cup {NewConnection({})} /\ primary' = None
      BY <1>1, <2>3, PostgresFresh DEF Postgres!TakeScanConnection
    <3>2. IsNew(NewConnection({}))
      BY <1>2, <2>3, ScanConnectionIsNew
    <3>3. ConnectionInv' /\ NoneRevived
      BY <1>2, <1>3, <2>1, <2>3, <3>1, <3>2, SessionOpens
    <3> QED BY <2>1, <3>1, <3>2, <3>3 DEF IsNew
  <2>4. CASE ~ owned
    <3>1. /\ primary \in live /\ session' = [session EXCEPT ![c] = primary]
          /\ primary' = primary /\ live' = live
      BY <1>1, <2>4 DEF Postgres!TakeScanConnection
    <3>2. ConnectionInv' /\ NoneRevived
      BY <1>3, <2>1, <2>4, <3>1, InjectedShared
    <3> QED BY <2>1, <3>1, <3>2
  <2> QED BY <2>2, <2>3, <2>4
<1>5. TypesInv'
  BY <1>1, <1>4 DEF SourceInv, TypesInv, StreamsTypeOK, Steps, Go, closeVars
<1>6. ReleaseInv(c)'
  BY <1>1, <1>2 DEF ReleaseInv, SourceInv, TypesInv, StreamsTypeOK, Go
<1>7. /\ pc[c] \in Starting /\ "register" \in Starting \cup {"empty", "failed"}
      /\ \A d \in Scans \ {c} : session'[d] = session[d] /\ cursor'[d] = cursor[d]
  BY <1>1, <1>4 DEF Starting, SourceInv, TypesInv, StreamsTypeOK
<1> QED BY <1>1, <1>2, <1>4, <1>5, <1>6, <1>7, ScanAdvances

LEMMA PostgresRelease ==
  ASSUME SourceInv, kind = "postgres", NEW c \in Scans, Postgres!Release(c),
         UNCHANGED <<owned, primary, closed, session, closer, kind, dropped, broken>>
  PROVE  /\ Released(c)' /\ ConnectionInv' /\ NoneRevived
         /\ streams' = streams \ {c} /\ live' \subseteq live
         /\ cursor' \in [Scans -> {"none", "open", "closed"}]
         /\ \A d \in Scans \ {c} : cursor'[d] = cursor[d]
<1>1. /\ live' = IF owned THEN live \ {session[c]} ELSE live
      /\ cursor' = [cursor EXCEPT ![c] = "closed"] /\ streams' = streams \ {c}
  BY DEF Postgres!Release
<1>2. cursor \in [Scans -> {"none", "open", "closed"}]
  BY DEF SourceInv, TypesInv, StreamsTypeOK
<1>3. owned => session[c] # Injected
  BY ConnectionsSuffice DEF SourceInv, ConnectionInv, OwnedInv
<1>4. ConnectionInv' /\ NoneRevived
  BY <1>1, <1>3, ConnectionCloses, ConnectionsStay DEF SourceInv
<1> QED BY <1>1, <1>2, <1>4 DEF Released

LEMMA PostgresRegister ==
  ASSUME SourceInv, kind = "postgres", NEW c \in Scans, Postgres!Register(c),
         UNCHANGED <<kind, prepared, dropped>>
  PROVE  SourceInv'
<1>1. /\ pc[c] = "register"
      /\ UNCHANGED <<owned, primary, schema, closed, session, closeVars, kind, prepared, dropped, broken>>
  BY DEF Postgres!Register, Postgres!closeVars, closeVars
<1>2. CASE ~ closed
  <2>1. /\ stream' = [stream EXCEPT ![c] = "open"] /\ streams' = streams \cup {c}
        /\ Go(c, "streaming") /\ UNCHANGED <<cursor, live>>
    BY <1>2 DEF Postgres!Register, Postgres!Go, Go
  <2> QED BY <1>1, <1>2, <2>1, StreamMade
<1>3. CASE closed
  <2>1. /\ stream' = [stream EXCEPT ![c] = "closed"] /\ Postgres!Release(c) /\ Go(c, "failed")
    BY <1>3 DEF Postgres!Register, Postgres!Go, Go
  <2>2. /\ Released(c)' /\ ConnectionInv' /\ NoneRevived
        /\ streams' = streams \ {c} /\ live' \subseteq live
        /\ cursor' \in [Scans -> {"none", "open", "closed"}]
        /\ \A d \in Scans \ {c} : cursor'[d] = cursor[d]
    BY <1>1, <2>1, PostgresRelease DEF closeVars
  <2>3. TypesInv'
    BY <1>1, <2>1, <2>2 DEF SourceInv, TypesInv, StreamsTypeOK, Steps, Go, closeVars
  <2> QED BY <1>1, <2>1, <2>2, <2>3, StreamRefused
<1> QED BY <1>2, <1>3

LEMMA PostgresCloseStream ==
  ASSUME SourceInv, kind = "postgres", NEW c \in Scans, NEW a \in Agents, Postgres!CloseStream(a, c),
         UNCHANGED <<kind, prepared, dropped>>
  PROVE  SourceInv'
<1> USE DEF Postgres!At, At, Postgres!sourceVars, sourceVars, Postgres!scanVars, scanVars
<1>1. UNCHANGED <<kind, prepared, dropped, broken>>
  BY DEF Postgres!CloseStream
<1>2. CASE Postgres!LookAtClosed(a, c)
  BY <1>1, <1>2, LookAtClosedKeeps
     DEF Postgres!LookAtClosed, LookAtClosed, Postgres!MayClose, MayClose
<1>3. CASE Postgres!SetClosed(a, c)
  BY <1>1, <1>3, SetClosedKeeps DEF Postgres!SetClosed, SetClosed
<1>4. CASE Postgres!RunRelease(a, c)
  <2>1. /\ closing[a][c] = "release" /\ Postgres!Release(c) /\ At(a, c, "idle")
        /\ UNCHANGED <<owned, primary, schema, closed, pc, session, stream, closer, toClose>>
    BY <1>4 DEF Postgres!RunRelease
  <2>2. /\ Released(c)' /\ ConnectionInv' /\ NoneRevived
        /\ streams' = streams \ {c} /\ live' \subseteq live
        /\ cursor' \in [Scans -> {"none", "open", "closed"}]
        /\ \A d \in Scans \ {c} : cursor'[d] = cursor[d]
    BY <1>1, <2>1, PostgresRelease
  <2>3. TypesInv'
    BY <1>1, <2>1, <2>2 DEF SourceInv, TypesInv, StreamsTypeOK
  <2> QED BY <1>1, <2>1, <2>2, <2>3, HookRuns DEF Hooked
<1> QED BY <1>2, <1>3, <1>4 DEF Postgres!CloseStream

LEMMA PostgresNext ==
  ASSUME SourceInv, kind = "postgres", Postgres!Next, UNCHANGED <<kind, prepared, dropped>>
  PROVE  SourceInv'
<1> USE DEF Postgres!Go, Go, Postgres!closeVars, closeVars, Postgres!sourceVars, sourceVars,
            Postgres!scanVars, scanVars
<1>1. prepared \in BOOLEAN /\ schema \in BOOLEAN /\ dropped = None
  BY DEF SourceInv, TypesInv, StreamsTypeOK, ConnectionInv
<1>2. CASE Postgres!ReadSchema
  BY <1>1, <1>2, PostgresSchema, SchemaRead DEF Postgres!ReadSchema
<1>3. CASE Postgres!Close
  <2>1. /\ primary \in Connections \cup {None} /\ None \in Connections \cup {None}
        /\ live \subseteq Connections
    BY DEF SourceInv, TypesInv, StreamsTypeOK
  <2>2. /\ ~ closed /\ closed' = TRUE /\ closer' = "streams" /\ Postgres!ReleaseConnection
        /\ UNCHANGED <<owned, session, broken>>
    BY <1>3 DEF Postgres!Close
  <2>3. ConnectionInv' /\ NoneRevived
    <3>1. CASE owned
      <4>1. primary' = None /\ live' = live \ {primary}
        BY <2>2, <3>1 DEF Postgres!ReleaseConnection
      <4>2. primary # Injected /\ closer = "idle" /\ None # Injected /\ None \notin live
        BY <2>1, <2>2, <3>1, ConnectionsSuffice DEF SourceInv, ConnectionInv, OwnedInv, AccountInv
      <4>3. OwnedInv'
        BY <1>1, <2>2, <3>1, <4>1, <4>2 DEF SourceInv, ConnectionInv, OwnedInv
      <4> QED
        BY <2>2, <3>1, <4>1, <4>2, <4>3
           DEF SourceInv, ConnectionInv, InjectedStaysOpen, Postgres!InjectedStaysOpen, NoneRevived
    <3>2. CASE ~ owned
      BY <2>2, <3>2
         DEF Postgres!ReleaseConnection, SourceInv, ConnectionInv, InjectedInv, InjectedStaysOpen,
             Postgres!InjectedStaysOpen, NoneRevived
    <3> QED BY <3>1, <3>2
  <2>4. primary' \in Connections \cup {None} /\ live' \subseteq Connections
    BY <2>1, <2>2 DEF Postgres!ReleaseConnection
  <2> QED BY <1>1, <1>3, <2>1, <2>3, <2>4, CloseBegins DEF Postgres!Close
<1>4. CASE Postgres!CloseReturns
  BY <1>1, <1>4, CloseEnds DEF Postgres!CloseReturns
<1>5. ASSUME NEW c \in Scans, Postgres!ScanSchema(c) PROVE SourceInv'
  <2>1. CASE Postgres!SchemaReturns /\ Go(c, "open")
    BY <1>1, <1>5, <2>1, PostgresSchema, ScanContinues DEF Postgres!ScanSchema
  <2>2. CASE Postgres!SchemaRaises /\ Go(c, "failed")
    BY <1>1, <1>5, <2>2, PostgresSchema, ScanContinues DEF Postgres!ScanSchema
  <2> QED BY <1>5, <2>1, <2>2 DEF Postgres!ScanSchema
<1>6. ASSUME NEW c \in Scans, Postgres!OpenScanRaises(c) PROVE SourceInv'
  <2>1. PrimaryStep
    BY <1>6, PostgresReleaseConnection DEF Postgres!OpenScanRaises, PrimaryStep
  <2> QED BY <1>1, <1>6, <2>1, ScanContinues DEF Postgres!OpenScanRaises
<1>7. ASSUME NEW c \in Scans, Postgres!NextToClose(c), UNCHANGED broken PROVE SourceInv'
  BY <1>7, NextToCloseKeeps DEF Postgres!NextToClose, NextToClose
<1> QED
  BY <1>2, <1>3, <1>4, <1>5, <1>6, <1>7, PostgresBreak, PostgresOpenScan, PostgresRegister,
     PostgresCloseStream DEF Postgres!Next, Postgres!Agents, Agents

-----------------------------------------------------------------------------
(* What the MongoDB and the Neo4j source do alike.                         *)

Client == INSTANCE ClientSource

LEMMA ClientScan ==
  ASSUME NEW c \in Scans
  PROVE  Mongo!Streaming(c) \/ Neo4j!Streaming(c) => Client!Streaming(c)
<1> USE DEF Mongo!At, Neo4j!At, Client!At, Mongo!Go, Neo4j!Go, Client!Go, Mongo!MayClose, Neo4j!MayClose,
            Client!MayClose, Mongo!Agents, Neo4j!Agents, Client!Agents, Mongo!sourceVars, Neo4j!sourceVars,
            Client!sourceVars, Mongo!scanVars, Neo4j!scanVars, Client!scanVars, Mongo!closeVars,
            Neo4j!closeVars, Client!closeVars, Mongo!CloseCursor, Neo4j!CloseCursor, Client!CloseCursor
<1>1. Mongo!Register(c) \/ Neo4j!Register(c) => Client!Register(c)
  BY DEF Mongo!Register, Neo4j!Register, Client!Register
<1>2. Mongo!NextToClose(c) \/ Neo4j!NextToClose(c) => Client!NextToClose(c)
  BY DEF Mongo!NextToClose, Neo4j!NextToClose, Client!NextToClose
<1>3. ASSUME NEW a \in Agents
      PROVE  Mongo!CloseStream(a, c) \/ Neo4j!CloseStream(a, c) => Client!CloseStream(a, c)
  <2>1. Mongo!LookAtClosed(a, c) \/ Neo4j!LookAtClosed(a, c) => Client!LookAtClosed(a, c)
    BY DEF Mongo!LookAtClosed, Neo4j!LookAtClosed, Client!LookAtClosed
  <2>2. Mongo!SetClosed(a, c) \/ Neo4j!SetClosed(a, c) => Client!SetClosed(a, c)
    BY DEF Mongo!SetClosed, Neo4j!SetClosed, Client!SetClosed
  <2>3. Mongo!Unregister(a, c) \/ Neo4j!Unregister(a, c) => Client!Unregister(a, c)
    BY DEF Mongo!Unregister, Neo4j!Unregister, Client!Unregister
  <2>4. Mongo!ReleaseCursor(a, c) \/ Neo4j!ReleaseCursor(a, c) => Client!ReleaseCursor(a, c)
    BY DEF Mongo!ReleaseCursor, Neo4j!ReleaseCursor, Client!ReleaseCursor
  <2> QED BY <2>1, <2>2, <2>3, <2>4 DEF Mongo!CloseStream, Neo4j!CloseStream, Client!CloseStream
<1> QED
  BY <1>1, <1>2, <1>3 DEF Mongo!Streaming, Neo4j!Streaming, Client!Streaming, Agents

LEMMA ClientCloseCursor ==
  ASSUME SourceInv, kind \in {"mongo", "neo4j"}, NEW c \in Scans, Client!CloseCursor(c),
         UNCHANGED <<owned, session, kind>>
  PROVE  /\ Released(c)' /\ cursor' \in [Scans -> {"none", "open", "closed"}]
         /\ \A d \in Scans \ {c} : cursor'[d] = cursor[d]
BY DEF Client!CloseCursor, Released, SourceInv, TypesInv, StreamsTypeOK, ConnectionInv

LEMMA ClientRegister ==
  ASSUME SourceInv, kind \in {"mongo", "neo4j"}, NEW c \in Scans, Client!Register(c),
         UNCHANGED <<kind, prepared, broken>>
  PROVE  SourceInv'
<1>1. /\ pc[c] = "register"
      /\ UNCHANGED <<owned, primary, schema, closed, live, session, closeVars, kind, prepared, dropped, broken>>
  BY DEF Client!Register, Client!closeVars, closeVars
<1>2. CASE ~ closed
  <2>1. /\ stream' = [stream EXCEPT ![c] = "open"] /\ streams' = streams \cup {c}
        /\ Go(c, "streaming") /\ UNCHANGED cursor
    BY <1>2 DEF Client!Register, Client!Go, Go
  <2> QED BY <1>1, <1>2, <2>1, StreamMade
<1>3. CASE closed
  <2>1. /\ stream' = [stream EXCEPT ![c] = "closed"] /\ Client!CloseCursor(c) /\ Go(c, "failed")
        /\ streams' = streams
    BY <1>3 DEF Client!Register, Client!Go, Go
  <2>2. /\ Released(c)' /\ cursor' \in [Scans -> {"none", "open", "closed"}]
        /\ \A d \in Scans \ {c} : cursor'[d] = cursor[d]
    BY <1>1, <2>1, ClientCloseCursor
  <2>3. TypesInv'
    BY <1>1, <2>1, <2>2 DEF SourceInv, TypesInv, StreamsTypeOK, Steps, Go, closeVars
  <2>4. ConnectionInv' /\ NoneRevived
    BY <1>1, ConnectionsStay DEF SourceInv, closeVars
  <2> QED BY <1>1, <2>1, <2>2, <2>3, <2>4, StreamRefused
<1> QED BY <1>2, <1>3

LEMMA ClientCloseStream ==
  ASSUME SourceInv, kind \in {"mongo", "neo4j"}, NEW c \in Scans, NEW a \in Agents,
         Client!CloseStream(a, c), UNCHANGED <<kind, prepared, broken>>
  PROVE  SourceInv'
<1> USE DEF Client!At, At, Client!sourceVars, sourceVars, Client!scanVars, scanVars
<1>1. UNCHANGED <<kind, prepared, dropped, broken>>
  BY DEF Client!CloseStream
<1>2. CASE Client!LookAtClosed(a, c)
  BY <1>1, <1>2, LookAtClosedKeeps DEF Client!LookAtClosed, LookAtClosed, Client!MayClose, MayClose
<1>3. CASE Client!SetClosed(a, c)
  BY <1>1, <1>3, SetClosedKeeps DEF Client!SetClosed, SetClosed
<1>4. CASE Client!Unregister(a, c)
  <2>1. /\ closing[a][c] = "release" /\ streams' = streams \ {c} /\ At(a, c, "session")
        /\ UNCHANGED <<owned, primary, schema, closed, live, scanVars, closer, toClose>>
    BY <1>4 DEF Client!Unregister
  <2>2. TypesInv'
    BY <1>1, <2>1 DEF SourceInv, TypesInv, StreamsTypeOK
  <2>3. ConnectionInv' /\ NoneRevived
    BY <1>1, <2>1, ConnectionsStay DEF SourceInv
  <2>4. Released(c) => Released(c)'
    BY <2>1 DEF Released
  <2> QED BY <1>1, <2>1, <2>2, <2>3, <2>4, HookRuns DEF Hooked
<1>5. CASE Client!ReleaseCursor(a, c)
  <2>1. /\ closing[a][c] = "session" /\ Client!CloseCursor(c) /\ At(a, c, "idle")
        /\ UNCHANGED <<sourceVars, pc, session, stream, closer, toClose>>
    BY <1>5 DEF Client!ReleaseCursor
  <2>2. /\ Released(c)' /\ cursor' \in [Scans -> {"none", "open", "closed"}]
        /\ \A d \in Scans \ {c} : cursor'[d] = cursor[d]
    BY <1>1, <2>1, ClientCloseCursor
  <2>3. TypesInv'
    BY <1>1, <2>1, <2>2 DEF SourceInv, TypesInv, StreamsTypeOK
  <2>4. ConnectionInv' /\ NoneRevived
    BY <1>1, <2>1, ConnectionsStay DEF SourceInv
  <2> QED BY <1>1, <2>1, <2>2, <2>3, <2>4, HookRuns DEF Hooked
<1> QED BY <1>2, <1>3, <1>4, <1>5 DEF Client!CloseStream

LEMMA ClientStreaming ==
  ASSUME SourceInv, kind \in {"mongo", "neo4j"}, NEW c \in Scans, Client!Streaming(c),
         UNCHANGED <<kind, prepared, broken>>
  PROVE  SourceInv'
<1>1. ASSUME Client!NextToClose(c), UNCHANGED dropped PROVE SourceInv'
  BY <1>1, NextToCloseKeeps
     DEF Client!NextToClose, NextToClose, Client!sourceVars, sourceVars, Client!scanVars, scanVars
<1> QED BY <1>1, ClientRegister, ClientCloseStream DEF Client!Streaming, Client!Agents, Agents

-----------------------------------------------------------------------------
(* The MongoDB source.                                                     *)

LEMMA MongoHandle ==
  ASSUME SourceInv, kind = "mongo", Mongo!Handle
  PROVE  PrimaryStep
<1>1. CASE primary # None
  BY <1>1 DEF Mongo!Handle, PrimaryStep
<1>2. CASE primary = None
  <2>1. ~ closed /\ dropped = None /\ \A d \in Scans : session[d] = None
    BY DEF Mongo!Handle, SourceInv, ConnectionInv
  <2>2. owned
    BY <1>2, <2>1, ConnectionsSuffice DEF SourceInv, ConnectionInv, InjectedInv
  <2>3. IsNew(NewConnection({dropped}))
    BY <2>1, <2>2, PrimaryIsNew
  <2>4. Mongo!NewConnection({dropped}) = NewConnection({dropped})
    BY DEF Mongo!NewConnection, NewConnection
  <2>5. primary' = NewConnection({dropped}) /\ live' = live \cup {NewConnection({dropped})}
    BY <1>2, <2>4 DEF Mongo!Handle
  <2> QED BY <1>2, <2>1, <2>2, <2>3, <2>5 DEF PrimaryStep
<1> QED BY <1>1, <1>2

LEMMA MongoSchema ==
  ASSUME SourceInv, kind = "mongo", Mongo!SchemaReturns \/ Mongo!SchemaRaises
  PROVE  /\ PrimaryStep /\ schema' \in BOOLEAN /\ (schema => schema')
         /\ Mongo!SchemaReturns => schema'
<1>1. schema \in BOOLEAN
  BY DEF SourceInv, TypesInv, StreamsTypeOK
<1>2. Mongo!SchemaReturns => schema' = TRUE
  BY DEF Mongo!SchemaReturns
<1>3. Mongo!SchemaRaises => schema' = schema
  BY DEF Mongo!SchemaRaises
<1>4. (UNCHANGED <<primary, live>>) \/ Mongo!Handle
  BY DEF Mongo!SchemaReturns, Mongo!SchemaRaises
<1>5. PrimaryStep
  BY <1>4, MongoHandle DEF PrimaryStep
<1> QED BY <1>1, <1>2, <1>3, <1>5

LEMMA MongoNext ==
  ASSUME SourceInv, kind = "mongo", Mongo!Next, UNCHANGED <<kind, prepared, broken>>
  PROVE  SourceInv'
<1> USE DEF Mongo!Go, Go, Mongo!closeVars, closeVars, Mongo!sourceVars, sourceVars,
            Mongo!scanVars, scanVars
<1>1. /\ prepared \in BOOLEAN /\ schema \in BOOLEAN /\ \A c \in Scans : session[c] = None
      /\ cursor \in [Scans -> {"none", "open", "closed"}]
  BY DEF SourceInv, TypesInv, StreamsTypeOK, ConnectionInv
<1>2. CASE Mongo!ReadSchema
  BY <1>1, <1>2, MongoSchema, SchemaRead DEF Mongo!ReadSchema
<1>3. CASE Mongo!Close
  <2>1. /\ primary \in Connections \cup {None} /\ None \in Connections \cup {None}
        /\ live \subseteq Connections
    BY DEF SourceInv, TypesInv, StreamsTypeOK
  <2>2. ConnectionInv' /\ NoneRevived
    BY <1>3, PrimaryDropped DEF Mongo!Close, Mongo!TakeStreams
  <2> QED BY <1>3, <2>1, <2>2, CloseBegins DEF Mongo!Close, Mongo!TakeStreams
<1>4. CASE Mongo!CloseReturns
  BY <1>4, CloseEnds DEF Mongo!CloseReturns, Mongo!CloseClient
<1>5. ASSUME NEW c \in Scans, Mongo!ScanSchema(c) PROVE SourceInv'
  <2>1. CASE Mongo!SchemaReturns /\ Go(c, "open")
    BY <1>1, <1>5, <2>1, MongoSchema, ScanContinues DEF Mongo!ScanSchema
  <2>2. CASE Mongo!SchemaRaises /\ Go(c, "failed")
    BY <1>1, <1>5, <2>2, MongoSchema, ScanContinues DEF Mongo!ScanSchema
  <2> QED BY <1>5, <2>1, <2>2 DEF Mongo!ScanSchema
<1>6. ASSUME NEW c \in Scans, Mongo!EndEarly(c) PROVE SourceInv'
  <2>1. PrimaryStep
    BY <1>6 DEF Mongo!EndEarly, PrimaryStep
  <2>2. CASE Go(c, "empty")
    BY <1>1, <1>6, <2>1, <2>2, ScanContinues DEF Mongo!EndEarly
  <2>3. CASE Go(c, "failed")
    BY <1>1, <1>6, <2>1, <2>3, ScanContinues DEF Mongo!EndEarly
  <2> QED BY <1>6, <2>2, <2>3 DEF Mongo!EndEarly
<1>7. ASSUME NEW c \in Scans, Mongo!TakeHandle(c) PROVE SourceInv'
  BY <1>1, <1>7, MongoHandle, ScanContinues DEF Mongo!TakeHandle
<1>8. ASSUME NEW c \in Scans, Mongo!Find(c) PROVE SourceInv'
  BY <1>1, <1>8, CursorMoves DEF Mongo!Find
<1>9. ASSUME NEW c \in Scans, Mongo!FindRaises(c) PROVE SourceInv'
  <2>1. cursor[c] = "none"
    BY <1>9 DEF Mongo!FindRaises, SourceInv, ScanInv, ReleaseInv
  <2>2. cursor' = [cursor EXCEPT ![c] = "none"] \/ cursor' = [cursor EXCEPT ![c] = "closed"]
    BY <1>1, <1>9, <2>1 DEF Mongo!FindRaises
  <2> QED BY <1>1, <1>9, <2>2, CursorMoves DEF Mongo!FindRaises
<1> QED
  BY <1>2, <1>3, <1>4, <1>5, <1>6, <1>7, <1>8, <1>9, ClientScan, ClientStreaming DEF Mongo!Next

-----------------------------------------------------------------------------
(* The Neo4j source.                                                       *)

LEMMA Neo4jNext ==
  ASSUME SourceInv, kind = "neo4j", Neo4j!Next, UNCHANGED <<kind, prepared, broken>>
  PROVE  SourceInv'
<1> USE DEF Neo4j!Go, Go, Neo4j!closeVars, closeVars, Neo4j!sourceVars, sourceVars,
            Neo4j!scanVars, scanVars
<1>1. /\ prepared \in BOOLEAN /\ schema \in BOOLEAN /\ \A c \in Scans : session[c] = None
      /\ cursor \in [Scans -> {"none", "open", "closed"}] /\ dropped = None
  BY DEF SourceInv, TypesInv, StreamsTypeOK, ConnectionInv
<1>2. (UNCHANGED <<primary, live>>) => PrimaryStep
  BY DEF PrimaryStep
<1>3. Neo4j!SchemaReturns \/ Neo4j!SchemaRaises => schema' \in BOOLEAN /\ (schema => schema')
  BY <1>1 DEF Neo4j!SchemaReturns, Neo4j!SchemaRaises
<1>4. CASE Neo4j!ReadSchema
  BY <1>1, <1>2, <1>3, <1>4, SchemaRead DEF Neo4j!ReadSchema
<1>5. CASE Neo4j!Close
  <2>1. primary \in Connections \cup {None} /\ live \subseteq Connections
    BY DEF SourceInv, TypesInv, StreamsTypeOK
  <2>2. ConnectionInv' /\ NoneRevived
    BY <1>5, PrimaryDropped DEF Neo4j!Close, Neo4j!TakeStreams
  <2> QED BY <1>1, <1>5, <2>1, <2>2, CloseBegins DEF Neo4j!Close, Neo4j!TakeStreams
<1>6. CASE Neo4j!CloseReturns
  BY <1>1, <1>6, CloseEnds DEF Neo4j!CloseReturns, Neo4j!CloseClient
<1>7. ASSUME NEW c \in Scans, Neo4j!ScanSchema(c) PROVE SourceInv'
  <2>1. CASE Neo4j!SchemaReturns /\ Go(c, "open")
    <3>1. schema'
      BY <2>1 DEF Neo4j!SchemaReturns
    <3> QED BY <1>1, <1>2, <1>3, <1>7, <2>1, <3>1, ScanContinues DEF Neo4j!ScanSchema
  <2>2. CASE Neo4j!SchemaRaises /\ Go(c, "failed")
    BY <1>1, <1>2, <1>3, <1>7, <2>2, ScanContinues DEF Neo4j!ScanSchema
  <2>3. CASE UNCHANGED schema /\ Go(c, "failed")
    BY <1>1, <1>2, <1>7, <2>3, ScanContinues DEF Neo4j!ScanSchema
  <2> QED BY <1>7, <2>1, <2>2, <2>3 DEF Neo4j!ScanSchema
<1>8. ASSUME NEW c \in Scans, Neo4j!CheckOpen(c) PROVE SourceInv'
  BY <1>1, <1>2, <1>8, ScanContinues DEF Neo4j!CheckOpen
<1>9. ASSUME NEW c \in Scans, Neo4j!OpenSession(c) PROVE SourceInv'
  BY <1>1, <1>9, CursorMoves DEF Neo4j!OpenSession
<1>10. ASSUME NEW c \in Scans, Neo4j!OpenSessionRaises(c) PROVE SourceInv'
  BY <1>1, <1>2, <1>10, ScanContinues DEF Neo4j!OpenSessionRaises
<1>11. ASSUME NEW c \in Scans, Neo4j!Run(c) PROVE SourceInv'
  <2>1. cursor[c] \in {"none", "open", "closed"} /\ cursor' = [cursor EXCEPT ![c] = cursor[c]]
    BY <1>1, <1>11 DEF Neo4j!Run
  <2> QED BY <1>1, <1>11, <2>1, CursorMoves DEF Neo4j!Run
<1>12. ASSUME NEW c \in Scans, Neo4j!RunRaises(c) PROVE SourceInv'
  <2>1. cursor' = [cursor EXCEPT ![c] = "none"] \/ cursor' = [cursor EXCEPT ![c] = "closed"]
    BY <1>1, <1>12 DEF Neo4j!RunRaises, Neo4j!CloseCursor
  <2> QED BY <1>1, <1>12, <2>1, CursorMoves DEF Neo4j!RunRaises
<1> QED
  BY <1>4, <1>5, <1>6, <1>7, <1>8, <1>9, <1>10, <1>11, <1>12, ClientScan, ClientStreaming
     DEF Neo4j!Next

-----------------------------------------------------------------------------
(* The invariant holds at first.                                           *)

(* The driver a Neo4j source makes is its own.                             *)
LEMMA Neo4jDriver == (CHOOSE k \in Connections : k # Injected) \in Connections \ {Injected}
BY ThirdConnection

(* A connection is the user's, or there is none, or it is a new driver.    *)
LEMMA StartsSound ==
  ASSUME StreamsInit, kind \in {"mysql", "postgres", "mongo", "neo4j"}, schema \in BOOLEAN,
         prepared \in BOOLEAN, broken = FALSE, dropped = None,
         ~ owned => primary = Injected, owned => primary \in (Connections \cup {None}) \ {Injected},
         Injected \in live, live \subseteq {Injected, primary} \ {None}
  PROVE  SourceInv
<1>1. Injected \in Connections /\ None \notin Connections
  BY ConnectionsSuffice
<1>2. TypesInv
  BY <1>1 DEF StreamsInit, TypesInv, StreamsTypeOK, Steps
<1>3. \A c \in Scans : ScanInv(c)
  BY DEF StreamsInit, ScanInv, StreamInv, ReleaseInv, Hooked
<1>4. AccountInv
  BY DEF StreamsInit, AccountInv
<1>5. owned => OwnedInv
  BY <1>1 DEF StreamsInit, OwnedInv
<1>6. ~ owned => InjectedInv
  BY DEF StreamsInit, InjectedInv
<1>7. ConnectionInv
  BY <1>5, <1>6 DEF StreamsInit, ConnectionInv, InjectedStaysOpen, Postgres!InjectedStaysOpen
<1>8. SchemaFirst
  BY DEF StreamsInit, SchemaFirst
<1> QED BY <1>2, <1>3, <1>4, <1>7, <1>8 DEF SourceInv

LEMMA InitSound == Init => SourceInv
<1>1. Injected \in Connections /\ None \notin Connections
  BY ConnectionsSuffice
<1>2. ASSUME kind = "mysql", MySQL!Init, broken = FALSE PROVE SourceInv
  BY <1>1, <1>2, StartsSound
     DEF MySQL!Init, MySQL!StreamsInit, StreamsInit, MySQL!Unconnected, MySQL!Agents, Agents
<1>3. ASSUME kind = "postgres", Postgres!Init, prepared = FALSE, dropped = None PROVE SourceInv
  BY <1>1, <1>3, StartsSound
     DEF Postgres!Init, Postgres!StreamsInit, StreamsInit, Postgres!Unconnected, Postgres!Agents, Agents
<1>4. ASSUME kind = "mongo", Mongo!Init, prepared = FALSE, broken = FALSE PROVE SourceInv
  BY <1>1, <1>4, StartsSound
     DEF Mongo!Init, Mongo!StreamsInit, StreamsInit, Mongo!Unconnected, Mongo!Agents, Agents
<1>5. ASSUME kind = "neo4j", Neo4j!Init, prepared = FALSE, broken = FALSE PROVE SourceInv
  <2>1. StreamsInit
    BY <1>5 DEF Neo4j!Init, Neo4j!StreamsInit, StreamsInit, Neo4j!Agents, Agents
  <2>2. owned \in BOOLEAN
    BY <2>1 DEF StreamsInit
  <2>3. owned => primary \in Connections \ {Injected}
    BY <1>5, Neo4jDriver DEF Neo4j!Init
  <2>4. ~ owned => primary = Injected
    BY <1>5 DEF Neo4j!Init
  <2>5. live = {Injected, primary} /\ schema \in BOOLEAN /\ dropped = None
    BY <1>5 DEF Neo4j!Init
  <2> QED BY <1>1, <1>5, <2>1, <2>2, <2>3, <2>4, <2>5, StartsSound
<1> QED BY <1>2, <1>3, <1>4, <1>5 DEF Init

-----------------------------------------------------------------------------
(* Every step of a source of any kind keeps the invariant.                 *)
THEOREM SourcesKeepTheirAccounts == Spec => []SourceInv
<1>1. SourceInv /\ [Next]_vars => SourceInv'
  <2> SUFFICES ASSUME SourceInv, [Next]_vars PROVE SourceInv'
    OBVIOUS
  <2>1. CASE Next
    BY <2>1, MySQLNext, PostgresNext, MongoNext, Neo4jNext DEF Next
  <2>2. CASE UNCHANGED vars
    <3>1. /\ UNCHANGED <<scanVars, closing, owned, kind>> /\ schema' = schema
          /\ UNCHANGED <<owned, primary, closed, live, session, closer, kind, dropped, broken>>
      BY <2>2 DEF vars, sourceVars, scanVars, closeVars
    <3>2. ConnectionInv' /\ NoneRevived
      BY <3>1, ConnectionsStay DEF SourceInv
    <3>3. TypesInv' /\ AccountInv'
      BY <2>2 DEF SourceInv, TypesInv, StreamsTypeOK, AccountInv, vars, sourceVars, scanVars, closeVars
    <3> QED BY <3>1, <3>2, <3>3, NoScanMoves
  <2> QED BY <2>1, <2>2
<1> QED BY InitSound, <1>1, PTL DEF Spec

(* The state of a source has its type, whatever its kind.                  *)
THEOREM SourcesTypeCorrect == Spec => []TypeOK
<1>1. SourceInv => TypeOK
  <2> SUFFICES ASSUME SourceInv PROVE TypeOK
    OBVIOUS
  <2>1. TypesInv
    BY DEF SourceInv
  <2>2. MySQL!TypeOK
    BY <2>1 DEF TypesInv, StreamsTypeOK, MySQL!TypeOK, MySQL!StreamsTypeOK, MySQL!Agents, Agents,
                MySQL!Steps, Steps
  <2>3. Postgres!TypeOK
    BY <2>1 DEF TypesInv, StreamsTypeOK, Postgres!TypeOK, Postgres!StreamsTypeOK, Postgres!Agents, Agents,
                Postgres!Steps, Steps
  <2>4. Mongo!TypeOK
    BY <2>1 DEF TypesInv, StreamsTypeOK, Mongo!TypeOK, Mongo!StreamsTypeOK, Mongo!Agents, Agents,
                Mongo!Steps, Steps
  <2>5. Neo4j!TypeOK
    BY <2>1 DEF TypesInv, StreamsTypeOK, Neo4j!TypeOK, Neo4j!StreamsTypeOK, Neo4j!Agents, Agents,
                Neo4j!Steps, Steps
  <2> QED BY <2>1, <2>2, <2>3, <2>4, <2>5 DEF TypeOK, TypesInv
<1> QED BY <1>1, SourcesKeepTheirAccounts, PTL

(* However a scan ends, refused, failed at any step, closed by its         *)
(* consumer, by close() or by both at once, its cursor is closed, and an   *)
(* owned connection with it.                                               *)
THEOREM SourcesReleaseSessions == Spec => []SessionsReleased
<1>1. SourceInv => SessionsReleased
  BY DEF SourceInv, ScanInv, ReleaseInv, Released, Hooked, SessionsReleased, Over
<1> QED BY <1>1, SourcesKeepTheirAccounts, PTL

(* No kind of source closes the connection, client or driver of its user,  *)
(* whichever of its steps fail.                                            *)
THEOREM SourcesLeaveInjectedOpen == Spec => []InjectedStaysOpen
<1>1. SourceInv => InjectedStaysOpen
  BY DEF SourceInv, ConnectionInv
<1> QED BY <1>1, SourcesKeepTheirAccounts, PTL

(* An owned connection serves one scan or the source, also where a scan    *)
(* takes the source's over.                                                *)
THEOREM SourcesSeparateScans == Spec => []ScansDoNotShare
<1>1. SourceInv => ScansDoNotShare
  <2> SUFFICES ASSUME SourceInv, owned, NEW c \in Scans, session[c] \in live
               PROVE  session[c] # primary /\ \A d \in Scans : d # c => session[d] # session[c]
    BY DEF ScansDoNotShare
  <2>1. session[c] # None
    BY ConnectionsSuffice DEF SourceInv, TypesInv, StreamsTypeOK
  <2> QED BY <2>1 DEF SourceInv, ConnectionInv, OwnedInv
<1> QED BY <1>1, SourcesKeepTheirAccounts, PTL

(* When close() has returned and the scans are over, every connection of   *)
(* the source's own is closed, wherever close() found it.                  *)
THEOREM SourcesCloseEverything == Spec => []NothingOutlivesClose
<1>1. SourceInv => NothingOutlivesClose
  <2> SUFFICES ASSUME SourceInv, owned, closer = "done", NEW k \in live, k # Injected,
                      \A c \in Scans : pc[c] \in {"start", "open", "session"} \/ Over(c)
               PROVE  FALSE
    BY DEF NothingOutlivesClose
  <2>1. k \notin {Injected, primary, dropped, None}
    BY ConnectionsSuffice DEF SourceInv, ConnectionInv, OwnedInv, TypesInv, StreamsTypeOK
  <2>2. PICK c \in Scans : session[c] = k
    BY <2>1 DEF SourceInv, ConnectionInv, OwnedInv
  <2>3. Over(c)
    BY <2>1, <2>2 DEF SourceInv, ScanInv, ReleaseInv
  <2>4. Released(c)
    BY <2>3 DEF SourceInv, ScanInv, ReleaseInv, Hooked, Over
  <2> QED BY <2>1, <2>2, <2>4 DEF Released
<1> QED BY <1>1, SourcesKeepTheirAccounts, PTL

(* A source that looks at _closed again before it registers a stream has   *)
(* no open stream once close() has returned, and none later.               *)
THEOREM SourcesCloseStreams == Spec => []CloseLeavesNoStream
<1>1. SourceInv => CloseLeavesNoStream
  BY DEF SourceInv, AccountInv, TypesInv, StreamsTypeOK, CloseLeavesNoStream, CloseClosesEveryStream
<1> QED BY <1>1, SourcesKeepTheirAccounts, PTL

=============================================================================
