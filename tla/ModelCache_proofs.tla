--------------------------- MODULE ModelCache_proofs ---------------------------
(***************************************************************************)
(* Theorems about ModelCache for every set of hosts, thresholds and        *)
(* settings, any number of sessions and either reading of the test for     *)
(* duplicates.                                                             *)
(*                                                                         *)
(* StoreInv is about the connection and its statements, RowsInv about the  *)
(* rows of table Hosts, TablesInv about the objects in the tables of the   *)
(* cache; none needs another.                                              *)
(***************************************************************************)
EXTENDS ModelCache, FiniteSetTheorems, TLAPS

-----------------------------------------------------------------------------
(* The statements. *)

\* The initial states satisfy the invariant.
LEMMA InitStoreInv == Init => StoreInv
BY DEF Init, StoreInv, StatementsBelongToSession

\* A statement that is made while there is a session is made for it, one that exists
\* already is.
LEMMA PreparedForSession ==
  ASSUME StoreInv, NEW made \in SUBSET StatementNames,
         stmts' \in [StatementNames -> {None, Wild} \cup Nat],
         \A s \in StatementNames :
           stmts'[s] = IF s \in made /\ stmts[s] = None THEN session ELSE stmts[s],
         UNCHANGED <<session, nSessions>>
  PROVE  StoreInv'
BY DEF StoreInv, StatementsBelongToSession

\* One statement is made.
LEMMA PrepareOne ==
  ASSUME StoreInv, NEW n \in StatementNames, stmts' = Prepare(n),
         UNCHANGED <<session, nSessions>>
  PROVE  StoreInv'
<1>1. stmts \in [StatementNames -> {None, Wild} \cup Nat] /\ session \in {None, Wild} \cup Nat
  BY DEF StoreInv
<1>2. \A s \in StatementNames :
        stmts'[s] = IF s \in {n} /\ stmts[s] = None THEN session ELSE stmts[s]
  BY <1>1 DEF Prepare
<1>3. stmts' \in [StatementNames -> {None, Wild} \cup Nat]
  BY <1>1 DEF Prepare
<1>4. QED
  BY <1>2, <1>3, PreparedForSession

\* Steps that touch neither the session nor the statements.
LEMMA StoreUndisturbed ==
  ASSUME StoreInv, UNCHANGED <<session, nSessions, stmts>>
  PROVE  StoreInv'
BY DEF StoreInv, StatementsBelongToSession

\* LoadCache makes the three statements it executes.
LEMMA LoadCacheStoreInv ==
  ASSUME StoreInv, LoadCache
  PROVE  StoreInv'
<1> DEFINE made == {"selectAllHosts", "selectAllThresholds", "selectAllFileSystems"}
<1>1. /\ stmts' = [s \in StatementNames |-> IF s \in made THEN Prepare(s)[s] ELSE stmts[s]]
      /\ UNCHANGED <<session, nSessions>>
  BY DEF LoadCache
<1>2. stmts \in [StatementNames -> {None, Wild} \cup Nat] /\ session \in {None, Wild} \cup Nat
  BY DEF StoreInv
<1>3. \A s \in StatementNames : Prepare(s)[s] = IF stmts[s] = None THEN session ELSE stmts[s]
  BY <1>2 DEF Prepare
<1>4. \A s \in StatementNames :
        stmts'[s] = IF s \in made /\ stmts[s] = None THEN session ELSE stmts[s]
  BY <1>1, <1>3
<1>5. stmts' \in [StatementNames -> {None, Wild} \cup Nat]
  BY <1>1, <1>2, <1>3
<1>6. made \in SUBSET StatementNames
  BY DEF StatementNames
<1> HIDE DEF made
<1>7. QED
  BY <1>1, <1>4, <1>5, <1>6, PreparedForSession

\* A new session: no statement was left of the one before.
LEMMA InitializeNewStoreInv ==
  ASSUME StoreInv, InitializeNew
  PROVE  StoreInv'
<1>1. CASE UNCHANGED <<session, nSessions, stmts>>
  BY <1>1, StoreUndisturbed
<1>2. CASE /\ nSessions' = nSessions + 1
           /\ session' = nSessions + 1
           /\ stmts' = [stmts EXCEPT !["selectConfig"] = IF @ = None THEN nSessions + 1 ELSE @]
  <2>1. /\ nSessions \in Nat
        /\ stmts \in [StatementNames -> {None, Wild} \cup Nat]
    BY DEF StoreInv
  <2>2. \A s \in StatementNames : stmts[s] = None
    BY DEF InitializeNew, StoreInv, StatementsBelongToSession
  <2>3. nSessions + 1 \in Nat
    BY <2>1
  <2>4. stmts' \in [StatementNames -> {None, Wild} \cup Nat]
    BY <1>2, <2>1, <2>3
  <2>5. \A s \in StatementNames : stmts'[s] = None \/ stmts'[s] = nSessions + 1
    BY <1>2, <2>1, <2>2
  <2>6. QED
    BY <1>2, <2>3, <2>4, <2>5 DEF StoreInv, StatementsBelongToSession
<1>3. QED
  BY <1>1, <1>2 DEF InitializeNew, LoadRegInfoFails

\* The statements are deleted before the session is, whether closing it throws or not.
LEMMA DisconnectStoreInv ==
  ASSUME StoreInv, Disconnect
  PROVE  StoreInv'
<1>1. \A s \in StatementNames : stmts'[s] = None
  BY DEF Disconnect, AllStatements
<1>2. stmts' \in [StatementNames -> {None, Wild} \cup Nat]
  BY DEF Disconnect, AllStatements
<1>3. session' \in {None, session} /\ nSessions' = nSessions
  BY DEF Disconnect
<1>4. QED
  BY <1>1, <1>2, <1>3 DEF StoreInv, StatementsBelongToSession

\* Every step preserves the invariant.
LEMMA NextStoreInv ==
  ASSUME StoreInv, [Next]_vars
  PROVE  StoreInv'
<1>1. {"selectConfig", "createHost", "createFs"} \subseteq StatementNames
  BY DEF StatementNames
<1>2. CASE UpdateConfig
  BY <1>1, <1>2, PrepareOne DEF UpdateConfig
<1>3. CASE InitializeNew
  BY <1>3, InitializeNewStoreInv
<1>4. CASE InitializeAgain
  <2>1. UNCHANGED <<session, nSessions>> /\ (stmts' = stmts \/ stmts' = Prepare("selectConfig"))
    BY <1>4 DEF InitializeAgain, LoadRegInfoFails
  <2>2. QED
    BY <1>1, <2>1, PrepareOne, StoreUndisturbed
<1>5. CASE Disconnect
  BY <1>5, DisconnectStoreInv
<1>6. CASE LoadCache
  BY <1>6, LoadCacheStoreInv
<1>7. CASE \E h \in NewHosts : CreateHost(h)
  BY <1>1, <1>7, PrepareOne DEF CreateHost
<1>8. CASE CreateFileSystem
  BY <1>1, <1>8, PrepareOne DEF CreateFileSystem
<1>9. CASE UseWildSession \/ LoseConnection \/ DeleteAllObjects \/ EditProxy
  BY <1>9, StoreUndisturbed DEF UseWildSession, LoseConnection, DeleteAllObjects, EditProxy, storeVars
<1>10. CASE (\E id \in DOMAIN dbHosts : DeleteHost(id))
            \/ (\E id \in ThresholdIds : CreateThreshold(id) \/ DeleteThreshold(id))
  BY <1>10, StoreUndisturbed DEF DeleteHost, CreateThreshold, DeleteThreshold, storeVars
<1>11. CASE UNCHANGED vars
  BY <1>11, StoreUndisturbed DEF vars, storeVars
<1>12. QED
  BY <1>2, <1>3, <1>4, <1>5, <1>6, <1>7, <1>8, <1>9, <1>10, <1>11 DEF Next

\* No prepared statement outlives the session it was made for, however often the store
\* disconnects, fails to disconnect and connects again.
THEOREM StatementsBelongToSessionHolds == Spec => []StatementsBelongToSession
<1>1. StoreInv => StatementsBelongToSession
  BY DEF StoreInv
<1>2. QED
  BY <1>1, InitStoreInv, NextStoreInv, PTL DEF Spec

-----------------------------------------------------------------------------
(* The rows of table Hosts. *)

\* The initial states satisfy the invariant.
LEMMA InitRowsInv == Init => RowsInv
BY DEF Init, RowsInv, InsertedRowIsGivenHost, EmptyTable

\* Rows may go as long as none comes and none changes.
LEMMA RowsMayGo ==
  ASSUME RowsInv, DOMAIN dbHosts' \subseteq DOMAIN dbHosts,
         \A id \in DOMAIN dbHosts' : dbHosts'[id] = dbHosts[id],
         UNCHANGED inserted
  PROVE  RowsInv'
BY DEF RowsInv, InsertedRowIsGivenHost

\* CreateHost: the row that comes describes the host that was given, because the host
\* the statement is bound to was overwritten before the statement is executed.
LEMMA CreateHostRowsInv ==
  ASSUME RowsInv, NEW h \in NewHosts, CreateHost(h)
  PROVE  RowsInv'
<1> DEFINE id == Cardinality(DOMAIN inserted) + 1
           row == [name |-> h.name, ip |-> h.ver, ver |-> h.ip]
<1>1. CASE UNCHANGED <<dbHosts, inserted>>
  BY <1>1, RowsMayGo
<1>2. CASE dbHosts' = With(dbHosts, id, row) /\ inserted' = With(inserted, id, h)
  <2> HIDE DEF id
  <2>1. /\ DOMAIN dbHosts' = DOMAIN dbHosts \cup {id}
        /\ DOMAIN inserted' = DOMAIN inserted \cup {id}
        /\ dbHosts'[id] = row /\ inserted'[id] = h
        /\ \A n \in DOMAIN dbHosts : n # id => dbHosts'[n] = dbHosts[n]
        /\ \A n \in DOMAIN inserted : n # id => inserted'[n] = inserted[n]
    BY <1>2 DEF With
  <2>2. ASSUME NEW n \in DOMAIN dbHosts'
        PROVE  dbHosts'[n] = [name |-> inserted'[n].name, ip |-> inserted'[n].ver,
                              ver |-> inserted'[n].ip]
    <3>1. CASE n = id
      BY <2>1, <3>1
    <3>2. CASE n # id
      <4>1. n \in DOMAIN dbHosts /\ n \in DOMAIN inserted
        BY <2>1, <3>2 DEF RowsInv
      <4>2. QED
        BY <2>1, <3>2, <4>1 DEF RowsInv, InsertedRowIsGivenHost
    <3>3. QED
      BY <3>1, <3>2
  <2>3. QED
    BY <2>1, <2>2 DEF RowsInv, InsertedRowIsGivenHost
<1>3. QED
  BY <1>1, <1>2 DEF CreateHost, TmpHostFor, RowOfTmpHost, Row

\* Every step preserves the invariant.
LEMMA NextRowsInv ==
  ASSUME RowsInv, [Next]_vars
  PROVE  RowsInv'
<1>1. CASE \E h \in NewHosts : CreateHost(h)
  BY <1>1, CreateHostRowsInv
<1>2. CASE \E id \in DOMAIN dbHosts : DeleteHost(id)
  BY <1>2, RowsMayGo DEF DeleteHost, Without
<1>3. CASE DeleteAllObjects
  <2>1. (dbHosts' = EmptyTable \/ dbHosts' = dbHosts) /\ inserted' = inserted
    BY <1>3 DEF DeleteAllObjects
  <2>2. DOMAIN EmptyTable = {}
    BY DEF EmptyTable
  <2>3. QED
    BY <2>1, <2>2, RowsMayGo
<1>4. CASE UNCHANGED <<dbHosts, inserted>>
  BY <1>4, RowsMayGo
<1>5. CASE LoadCache
  <2>1. UNCHANGED dbVars
    BY <1>5 DEF LoadCache
  <2>2. QED
    BY <1>4, <2>1 DEF dbVars
<1>6. CASE UpdateConfig \/ InitializeNew \/ InitializeAgain \/ UseWildSession \/ Disconnect
           \/ LoseConnection
  BY <1>4, <1>6 DEF UpdateConfig, InitializeNew, InitializeAgain, UseWildSession, Disconnect,
     LoseConnection, dbVars
<1>7. CASE CreateFileSystem \/ EditProxy
           \/ \E id \in ThresholdIds : CreateThreshold(id) \/ DeleteThreshold(id)
  BY <1>4, <1>7 DEF CreateFileSystem, EditProxy, CreateThreshold, DeleteThreshold, dbVars
<1>8. CASE UNCHANGED vars
  BY <1>4, <1>8 DEF vars, dbVars
<1>9. QED
  BY <1>1, <1>2, <1>3, <1>5, <1>6, <1>7, <1>8 DEF Next

\* Every row of table Hosts describes the host of the CreateHost that inserted it.
THEOREM InsertedRowIsGivenHostHolds == Spec => []InsertedRowIsGivenHost
<1>1. RowsInv => InsertedRowIsGivenHost
  BY DEF RowsInv
<1>2. QED
  BY <1>1, InitRowsInv, NextRowsInv, PTL DEF Spec
-----------------------------------------------------------------------------
(* The objects in the tables. *)

\* The initial states satisfy the invariant.
LEMMA InitTablesInv == Init => TablesInv
<1> SUFFICES ASSUME Init PROVE TablesInv
  OBVIOUS
<1>1. DOMAIN dbHosts = {} /\ dbThresholds = {} /\ DOMAIN m_hosts = {} /\ m_thresholds = {}
      /\ live = {} /\ objects = <<>>
  BY DEF Init, EmptyTable
<1>2. IsFiniteSet({})
  BY FS_EmptySet
<1>3. QED
  BY <1>1, <1>2 DEF TablesInv, TablesHoldLiveObjects

\* A sequence is one over its own elements.
LEMMA SequenceOfItsElements ==
  ASSUME NEW S, NEW s \in Seq(S)
  PROVE  s \in Seq(ToSet(s))
<1>1. Len(s) \in Nat /\ s \in [1 .. Len(s) -> S] /\ DOMAIN s = 1 .. Len(s)
  OBVIOUS
<1>2. s \in [1 .. Len(s) -> ToSet(s)]
  BY <1>1 DEF ToSet
<1>3. QED
  BY <1>1, <1>2

\* Objects are numbered on: those there were keep their numbers.
LEMMA NumberedOn ==
  ASSUME NEW S, NEW T, NEW s \in Seq(S), NEW t \in Seq(T)
  PROVE  /\ s \o t \in Seq(ToSet(s \o t))
         /\ DOMAIN (s \o t) = DOMAIN s \cup (Len(s) + 1 .. Len(s \o t))
         /\ DOMAIN s \cap (Len(s) + 1 .. Len(s \o t)) = {}
         /\ \A n \in DOMAIN s : (s \o t)[n] = s[n]
<1> DEFINE U == S \cup T
<1>1. s \in Seq(U) /\ t \in Seq(U)
  OBVIOUS
<1> HIDE DEF U
<1>2. /\ s \o t \in Seq(U)
      /\ Len(s \o t) = Len(s) + Len(t)
      /\ \A n \in 1 .. Len(s) : (s \o t)[n] = s[n]
  BY <1>1
<1>3. DOMAIN s = 1 .. Len(s) /\ DOMAIN (s \o t) = 1 .. Len(s \o t) /\ Len(s) \in Nat /\ Len(t) \in Nat
  BY <1>1, <1>2
<1>4. s \o t \in Seq(ToSet(s \o t))
  BY <1>2, SequenceOfItsElements
<1>5. 1 .. Len(s) + Len(t) = 1 .. Len(s) \cup (Len(s) + 1 .. Len(s) + Len(t))
  BY <1>3
<1>6. 1 .. Len(s) \cap (Len(s) + 1 .. Len(s) + Len(t)) = {}
  BY <1>3
<1>7. DOMAIN (s \o t) = DOMAIN s \cup (Len(s) + 1 .. Len(s \o t))
  BY <1>2, <1>3, <1>5
<1>8. DOMAIN s \cap (Len(s) + 1 .. Len(s \o t)) = {}
  BY <1>2, <1>3, <1>6
<1>9. \A n \in DOMAIN s : (s \o t)[n] = s[n]
  BY <1>2, <1>3
<1>10. QED
  BY <1>4, <1>7, <1>8, <1>9

\* The objects made of rows are a sequence, in whatever order the rows come.
LEMMA LoadedAreSequences ==
  ASSUME NEW Ids, IsFiniteSet(Ids), NEW ids \in SetToSeqs(Ids)
  PROVE  /\ \E S : LoadedHosts(ids) \in Seq(S)
         /\ \E S : LoadedThresholds(ids) \in Seq(S)
<1>1. Cardinality(Ids) \in Nat
  BY FS_CardinalityType
<1>2. DOMAIN ids = 1 .. Cardinality(Ids)
  BY DEF SetToSeqs
<1>3. LoadedHosts(ids) \in Seq({LoadedHosts(ids)[k] : k \in DOMAIN ids})
  BY <1>1, <1>2 DEF LoadedHosts
<1>4. LoadedThresholds(ids) \in Seq({LoadedThresholds(ids)[k] : k \in DOMAIN ids})
  BY <1>1, <1>2 DEF LoadedThresholds
<1>5. QED
  BY <1>3, <1>4

\* Taking new hosts into the tables: what is replaced is in no table afterwards, and what
\* is in a table was not replaced.
LEMMA HostsTaken ==
  ASSUME TablesInv, NEW all, NEW new, NEW taken \in SUBSET new,
         \A n \in taken : all[n].kind = "host",
         DOMAIN objects \cap new = {},
         \A n \in DOMAIN objects : all[n] = objects[n],
         m_hosts' = InsertHosts(taken, all),
         live' = (live \cup new) \ Replaced(taken, all)
  PROVE  /\ \A id \in DOMAIN m_hosts' :
              m_hosts'[id] \in live' /\ all[m_hosts'[id]].id = id /\ all[m_hosts'[id]].kind = "host"
         /\ new \subseteq live'
         /\ m_thresholds \subseteq live'
<1>1. \A id \in DOMAIN m_hosts : /\ m_hosts[id] \in live /\ m_hosts[id] \in DOMAIN objects
                                 /\ objects[m_hosts[id]].id = id
                                 /\ objects[m_hosts[id]].kind = "host"
  BY DEF TablesInv, TablesHoldLiveObjects
<1>2. \A n \in Replaced(taken, all) :
        \E id \in DOMAIN m_hosts : id \in IdsOf(taken, all) /\ n = m_hosts[id]
  BY DEF Replaced
<1>3. new \subseteq live'
  BY <1>1, <1>2
<1>4. m_thresholds \subseteq live'
  BY <1>1, <1>2 DEF TablesInv, TablesHoldLiveObjects
<1>5. ASSUME NEW id \in DOMAIN m_hosts'
      PROVE  m_hosts'[id] \in live' /\ all[m_hosts'[id]].id = id /\ all[m_hosts'[id]].kind = "host"
  <2>1. CASE id \in IdsOf(taken, all)
    <3>1. m_hosts'[id] = CHOOSE n \in taken : all[n].id = id
      BY <2>1 DEF InsertHosts
    <3>2. \E n \in taken : all[n].id = id
      BY <2>1 DEF IdsOf
    <3>3. m_hosts'[id] \in taken /\ all[m_hosts'[id]].id = id
      BY <3>1, <3>2
    <3>4. QED
      BY <1>3, <3>3
  <2>2. CASE id \notin IdsOf(taken, all)
    <3>1. id \in DOMAIN m_hosts /\ m_hosts'[id] = m_hosts[id]
      BY <2>2 DEF InsertHosts
    <3>2. m_hosts[id] \notin Replaced(taken, all)
      BY <1>1, <1>2, <2>2, <3>1
    <3>3. QED
      BY <1>1, <3>1, <3>2
  <2>3. QED
    BY <2>1, <2>2
<1>6. QED
  BY <1>3, <1>4, <1>5

\* LoadCache, whichever of the tables it can read, and in whatever order.
LEMMA LoadCacheTablesInv ==
  ASSUME TablesInv, LoadCache
  PROVE  TablesInv'
<1>1. PICK okT \in {connected, FALSE}, okH \in {connected, FALSE},
           tIds \in SetToSeqs(dbThresholds \ Broken), hIds \in SetToSeqs(DOMAIN dbHosts) :
        LoadCache!2!(okT, okH, tIds, hIds)
  BY DEF LoadCache
<1> DEFINE news == (IF okT THEN LoadedThresholds(tIds) ELSE <<>>)
                     \o (IF okH THEN LoadedHosts(hIds) ELSE <<>>)
           all  == objects \o news
           new  == Len(objects) + 1 .. Len(all)
           Made(kind) == {n \in new : all[n].kind = kind}
<1>2. /\ objects' = all
      /\ m_thresholds' = IF okT THEN Made("threshold") ELSE m_thresholds
      /\ \E taken \in SUBSET Made("host") :
           /\ m_hosts' = InsertHosts(taken, all)
           /\ live' = (live \cup new) \ Replaced(taken, all)
  BY <1>1
<1>3. UNCHANGED <<dbHosts, dbThresholds>>
  BY DEF LoadCache, dbVars
<1>4. \E S : news \in Seq(S)
  <2>1. IsFiniteSet(DOMAIN dbHosts) /\ IsFiniteSet(dbThresholds \ Broken)
    BY FS_Subset DEF TablesInv
  <2>2. PICK S : LoadedHosts(hIds) \in Seq(S)
    BY <2>1, LoadedAreSequences
  <2>3. PICK T : LoadedThresholds(tIds) \in Seq(T)
    BY <2>1, LoadedAreSequences
  <2>4. LoadedHosts(hIds) \in Seq(S \cup T) /\ LoadedThresholds(tIds) \in Seq(S \cup T)
        /\ <<>> \in Seq(S \cup T)
    BY <2>2, <2>3
  <2>5. news \in Seq(S \cup T)
    BY <2>4
  <2>6. QED
    BY <2>5
<1> HIDE DEF news
<1>5. /\ all \in Seq(ToSet(all))
      /\ DOMAIN all = DOMAIN objects \cup new
      /\ DOMAIN objects \cap new = {}
      /\ \A n \in DOMAIN objects : all[n] = objects[n]
  <2>1. PICK S : news \in Seq(S)
    BY <1>4
  <2>2. objects \in Seq(ToSet(objects))
    BY DEF TablesInv
  <2> HIDE DEF new, all
  <2>3. /\ objects \o news \in Seq(ToSet(objects \o news))
        /\ DOMAIN (objects \o news) = DOMAIN objects \cup (Len(objects) + 1 .. Len(objects \o news))
        /\ DOMAIN objects \cap (Len(objects) + 1 .. Len(objects \o news)) = {}
        /\ \A n \in DOMAIN objects : (objects \o news)[n] = objects[n]
    BY <2>1, <2>2, NumberedOn
  <2>4. all = objects \o news
    BY DEF all
  <2>5. new = Len(objects) + 1 .. Len(all)
    BY DEF new
  <2>6. QED
    BY <2>3, <2>4, <2>5
<1> HIDE DEF all, new
<1>6. PICK taken \in SUBSET Made("host") :
        /\ m_hosts' = InsertHosts(taken, all)
        /\ live' = (live \cup new) \ Replaced(taken, all)
  BY <1>2
<1>7. taken \in SUBSET new /\ \A n \in taken : all[n].kind = "host"
  BY <1>6
<1>8. /\ \A id \in DOMAIN m_hosts' :
           m_hosts'[id] \in live' /\ all[m_hosts'[id]].id = id /\ all[m_hosts'[id]].kind = "host"
      /\ new \subseteq live'
      /\ m_thresholds \subseteq live'
  BY <1>5, <1>6, <1>7, HostsTaken
<1>9. live' \subseteq DOMAIN all
  BY <1>5, <1>6 DEF TablesInv
<1>10. m_thresholds' \subseteq live' /\ \A n \in m_thresholds' : all[n].kind = "threshold"
  <2>1. CASE okT
    BY <1>2, <1>8, <2>1
  <2>2. CASE ~okT
    BY <1>2, <1>5, <1>8, <2>2 DEF TablesInv, TablesHoldLiveObjects
  <2>3. QED
    BY <2>1, <2>2
<1>11. QED
  BY <1>2, <1>3, <1>5, <1>8, <1>9, <1>10 DEF TablesInv, TablesHoldLiveObjects

\* Steps that leave the cache alone, and the tables of the database finite.
LEMMA CacheUndisturbed ==
  ASSUME TablesInv, UNCHANGED cacheVars,
         IsFiniteSet(DOMAIN dbHosts'), IsFiniteSet(dbThresholds')
  PROVE  TablesInv'
BY DEF TablesInv, TablesHoldLiveObjects, cacheVars

\* ReleaseAll leaves no entry in the tables it walks through.
LEMMA ReleaseAllTablesInv ==
  ASSUME TablesInv, ReleaseAll,
         IsFiniteSet(DOMAIN dbHosts'), IsFiniteSet(dbThresholds')
  PROVE  TablesInv'
<1>1. DOMAIN m_hosts' = {} /\ m_thresholds' = {} /\ live' \subseteq live /\ objects' = objects
  BY DEF ReleaseAll, EmptyTable
<1>2. QED
  BY <1>1 DEF TablesInv, TablesHoldLiveObjects

\* Every step preserves the invariant.
LEMMA NextTablesInv ==
  ASSUME TablesInv, [Next]_vars
  PROVE  TablesInv'
<1> USE DEF cacheVars
<1>1. IsFiniteSet(DOMAIN dbHosts) /\ IsFiniteSet(dbThresholds)
  BY DEF TablesInv
<1>2. CASE \E h \in NewHosts : CreateHost(h)
  <2>1. UNCHANGED <<cacheVars, dbThresholds>>
        /\ (dbHosts' = dbHosts \/ \E x : DOMAIN dbHosts' = DOMAIN dbHosts \cup {x})
    BY <1>2 DEF CreateHost, With
  <2>2. IsFiniteSet(DOMAIN dbHosts')
    BY <1>1, <2>1, FS_AddElement
  <2>3. QED
    BY <1>1, <2>1, <2>2, CacheUndisturbed
<1>3. CASE \E id \in DOMAIN dbHosts : DeleteHost(id)
  <2>1. UNCHANGED <<cacheVars, dbThresholds>> /\ DOMAIN dbHosts' \subseteq DOMAIN dbHosts
    BY <1>3 DEF DeleteHost, Without
  <2>2. QED
    BY <1>1, <2>1, FS_Subset, CacheUndisturbed
<1>4. CASE \E id \in ThresholdIds : CreateThreshold(id) \/ DeleteThreshold(id)
  <2>1. UNCHANGED <<cacheVars, dbHosts>>
        /\ \E id \in ThresholdIds : dbThresholds' \in {dbThresholds \cup {id}, dbThresholds \ {id}}
    BY <1>4 DEF CreateThreshold, DeleteThreshold
  <2>2. IsFiniteSet(dbThresholds')
    BY <1>1, <2>1, FS_AddElement, FS_Subset
  <2>3. QED
    BY <1>1, <2>1, <2>2, CacheUndisturbed
<1>5. CASE DeleteAllObjects
  <2>1. ReleaseAll /\ dbHosts' \in {EmptyTable, dbHosts} /\ dbThresholds' \in {{}, dbThresholds}
    BY <1>5 DEF DeleteAllObjects
  <2>2. DOMAIN EmptyTable = {} /\ IsFiniteSet({})
    BY FS_EmptySet DEF EmptyTable
  <2>3. QED
    BY <1>1, <2>1, <2>2, ReleaseAllTablesInv
<1>6. CASE LoadCache
  BY <1>6, LoadCacheTablesInv
<1>7. CASE UNCHANGED <<cacheVars, dbHosts, dbThresholds>>
  BY <1>1, <1>7, CacheUndisturbed
<1>8. CASE UpdateConfig \/ InitializeNew \/ InitializeAgain \/ UseWildSession \/ Disconnect
           \/ LoseConnection
  BY <1>7, <1>8 DEF UpdateConfig, InitializeNew, InitializeAgain, UseWildSession, Disconnect,
     LoseConnection, dbVars
<1>9. CASE CreateFileSystem \/ EditProxy \/ UNCHANGED vars
  BY <1>7, <1>9 DEF CreateFileSystem, EditProxy, vars, dbVars
<1>10. QED
  BY <1>2, <1>3, <1>4, <1>5, <1>6, <1>8, <1>9 DEF Next

\* The tables hold live objects, each entry its own, through any number of reloads that
\* fail half way and of DeleteAllObjects.
THEOREM TablesHoldLiveObjectsHolds == Spec => []TablesHoldLiveObjects
<1>1. TablesInv => TablesHoldLiveObjects
  BY DEF TablesInv
<1>2. QED
  BY <1>1, InitTablesInv, NextTablesInv, PTL DEF Spec
=============================================================================
