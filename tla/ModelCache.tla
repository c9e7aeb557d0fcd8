------------------------------ MODULE ModelCache ------------------------------
(***************************************************************************)
(* The model of the new program (TrapHandlerModel.h): its configuration,   *)
(* the tables of hosts and thresholds it loads from the database, and the  *)
(* store that holds the connection (pocoOdbcStore.h, StoreInterface.h).    *)
(*                                                                         *)
(* The database and the Poco library are not in the repository: a call     *)
(* either does what it says or throws, always when the connection is lost. *)
(* Objects are numbered in the order they are created and never reused, so *)
(* that a pointer to a deleted one is told from a good one.                *)
(***************************************************************************)
EXTENDS Integers, Sequences, FiniteSets, SequencesExt

CONSTANTS
  NewHosts,        \* the hosts that may be created: [name, ip, ver]
  ThresholdIds,    \* ids of the rows table FSThresholds may have
  Broken,          \* those of them with a column that cannot be converted
  Settings,        \* the settings of a Configuration that are compared for equality
  Values,          \* their values
  Severities,      \* the severities SetLogSevFromString knows, and those it does not
  Unknown,
  Times,           \* values of ThreshChangeTime
  DuplicateTests,  \* how LoadHosts tells that a name exists: "inverted" as the code
                   \* does, "meant" as its comment says
  MaxEdits, MaxObjects, MaxSessions,  \* bounds: changes of the database, objects and
                                      \* sessions ever created
  None, Wild       \* no session, the pointer that was never initialised

ASSUME ModelCacheAssumption ==
  /\ Broken \subseteq ThresholdIds
  /\ DuplicateTests \subseteq {"inverted", "meant"}
  /\ Times \subseteq Nat /\ Unknown \notin Severities /\ "NORMAL" \in Severities
  /\ {MaxEdits, MaxObjects, MaxSessions} \subseteq Nat

StatementNames == {"selectConfig", "selectAllHosts", "selectAllThresholds",
                   "selectAllFileSystems", "createHost", "createFs"}

VARIABLES
  duplicateTest,
  dbHosts,         \* table Hosts: the rows by id, [name, ip, ver]
  dbThresholds,    \* table FSThresholds
  proxy,           \* the row of table Proxies
  edits,           \* changes of the database so far
  inserted,        \* history: the host given to CreateHost for every row inserted
  session,         \* number of the present session, None, or Wild
  connected,       \* session->isConnected()
  nSessions,
  stmts,           \* the session every statement was made for, None if there is none
  tmpHost,         \* what the bound parameters of createHostStmt refer to
  latestConfig,    \* store.latestConfig
  config,
  returned,        \* what the last call of UpdateConfig or initialize returned
  objects,         \* the Host and Threshold objects ever made, by number
  live,            \* those that are not deleted
  m_hosts, m_hostsByName, m_thresholds,
  found,           \* history: the ids LoadHosts read last, since ReleaseAll
  fault            \* the process died of the wild pointer

storeVars == <<session, connected, nSessions, stmts, tmpHost, latestConfig>>
dbVars    == <<dbHosts, dbThresholds, proxy, inserted>>
cacheVars == <<objects, live, m_hosts, m_hostsByName, m_thresholds, found>>
vars == <<duplicateTest, dbVars, storeVars, cacheVars, config, returned, fault, edits>>

Usable == ~fault /\ session \notin {None, Wild}

\* A call that changes the database, within the bound.
Edit == edits < MaxEdits /\ edits' = edits + 1

-----------------------------------------------------------------------------
(***************************************************************************)
(* Helpers.  An operator named Operation_Variant is a deliberately wrong   *)
(* form of the Operation defined after it; no action uses it.              *)
(***************************************************************************)

\* A statement is made once, for the session of that moment.
Prepare(s) == [stmts EXCEPT ![s] = IF @ = None THEN session ELSE @]

\* createFsStmt is forgotten.
AllStatements_NoCreateFs == StatementNames \ {"createFs"}
\* The statements Disconnect deletes.
AllStatements == StatementNames

Row(name, ip, ver) == [name |-> name, ip |-> ip, ver |-> ver]

\* The parameters are bound in the order hostname, ugmonVersion, ip, the columns are
\* listed as LocalHostName, LastSeenIP, UGMonVersion.
RowOfTmpHost(h) == Row(h.name, h.ver, h.ip)

\* The parameters are copied only when the statement is made.
TmpHostFor_First(h) == IF stmts["createHost"] = None THEN h ELSE tmpHost
TmpHostFor(h) == h

GetHostById(id) == IF id \in DOMAIN m_hosts THEN m_hosts[id] ELSE None

Without(f, x) == [y \in DOMAIN f \ {x} |-> f[y]]
With(f, x, v) == [y \in DOMAIN f \cup {x} |-> IF y = x THEN v ELSE f[y]]

EmptyTable == [x \in {} |-> None]

-----------------------------------------------------------------------------
EmptyConfig == [set |-> [s \in Settings |-> 0], hostname |-> None, minSeverity |-> None,
                ftLastThreshChangeTime |-> 0]

Init ==
  /\ duplicateTest \in DuplicateTests
  /\ dbHosts = EmptyTable
  /\ dbThresholds = {}
  /\ \E sev \in Severities \cup {Unknown} :
       proxy = [EmptyConfig EXCEPT !.hostname = "proxy", !.minSeverity = sev]
  /\ inserted = EmptyTable
  /\ session \in {None, Wild}
  /\ connected = FALSE
  /\ nSessions = 0
  /\ stmts = [s \in StatementNames |-> None]
  /\ tmpHost = None
  /\ latestConfig = EmptyConfig
  /\ config = EmptyConfig
  /\ returned = None
  /\ objects = <<>>
  /\ live = {}
  /\ m_hosts = EmptyTable
  /\ m_hostsByName = EmptyTable
  /\ m_thresholds = {}
  /\ found = {}
  /\ fault = FALSE
  /\ edits = 0

-----------------------------------------------------------------------------
(***************************************************************************)
(* The configuration.                                                      *)
(***************************************************************************)

\* A severity that is not understood counts as NORMAL.
SetLogSevFromString(s) == IF s \in Severities THEN s ELSE "NORMAL"

\* Each setting that differs is copied and told, the time of change when it is newer.
ConfigChanged(new) ==
  \/ new.hostname # config.hostname
  \/ \E s \in Settings : new.set[s] # config.set[s]
  \/ new.ftLastThreshChangeTime > config.ftLastThreshChangeTime

ConfigAfter(new) ==
  [set |-> new.set,
   hostname |-> new.hostname,
   ftLastThreshChangeTime |-> IF new.ftLastThreshChangeTime > config.ftLastThreshChangeTime
                              THEN new.ftLastThreshChangeTime ELSE config.ftLastThreshChangeTime,
   minSeverity |-> IF new.minSeverity # config.minSeverity
                   THEN SetLogSevFromString(new.minSeverity) ELSE config.minSeverity]

\* store.LoadConfiguration, with a session s and the statement made for it; ok is
\* FALSE when it throws.
Reload(ok) ==
  IF ok
  THEN /\ latestConfig' = proxy
       /\ config' = ConfigAfter(proxy)
       /\ returned' = ConfigChanged(proxy)
  ELSE returned' = FALSE /\ UNCHANGED <<latestConfig, config>>

UpdateConfig ==
  /\ Usable
  /\ \E ok \in {connected, FALSE} : Reload(ok)
  /\ stmts' = Prepare("selectConfig")
  /\ UNCHANGED <<duplicateTest, dbVars, session, connected, nSessions, tmpHost, cacheVars, fault, edits>>

\* A value of the registry is missing: nothing is taken over.
LoadRegInfoFails == returned' = FALSE /\ UNCHANGED <<stmts, latestConfig, config>>

\* initialize without a session: LoadRegInfo fails, or the connection, which looks the
\* same, or it is made and the configuration is loaded.
InitializeNew ==
  /\ ~fault /\ session = None
  /\ \/ LoadRegInfoFails /\ UNCHANGED <<session, connected, nSessions>>
     \/ /\ nSessions < MaxSessions
        /\ nSessions' = nSessions + 1
        /\ session' = nSessions + 1
        /\ connected' = TRUE
        /\ stmts' = [stmts EXCEPT !["selectConfig"] = IF @ = None THEN nSessions + 1 ELSE @]
        /\ \E ok \in BOOLEAN : Reload(ok)
  /\ UNCHANGED <<duplicateTest, dbVars, tmpHost, cacheVars, fault, edits>>

\* initialize with a session: LoadRegInfo fails, or the configuration is loaded; Connect
\* leaves a session that lost its connection as it is.
InitializeAgain ==
  /\ Usable
  /\ \/ LoadRegInfoFails
     \/ /\ \E ok \in {connected, FALSE} : Reload(ok)
        /\ stmts' = Prepare("selectConfig")
  /\ UNCHANGED <<duplicateTest, dbVars, session, connected, nSessions, tmpHost, cacheVars, fault, edits>>

\* The pointer that no constructor sets is followed.
UseWildSession ==
  /\ ~fault /\ session = Wild
  /\ fault' = TRUE
  /\ UNCHANGED <<duplicateTest, dbVars, storeVars, cacheVars, config, returned, edits>>

\* Disconnect; when closing throws, the statements are gone and the session stays.
Disconnect ==
  /\ Usable
  /\ stmts' = [s \in StatementNames |-> IF s \in AllStatements THEN None ELSE stmts[s]]
  /\ \/ session' = None /\ connected' = FALSE
     \/ connected /\ connected' \in BOOLEAN /\ session' = session
  /\ returned' = None
  /\ UNCHANGED <<duplicateTest, dbVars, nSessions, tmpHost, latestConfig, cacheVars, config, fault, edits>>

LoseConnection ==
  /\ connected
  /\ connected' = FALSE
  /\ returned' = None
  /\ UNCHANGED <<duplicateTest, dbVars, session, nSessions, stmts, tmpHost, latestConfig,
                 cacheVars, config, fault, edits>>

-----------------------------------------------------------------------------
(***************************************************************************)
(* Loading the cache.                                                      *)
(***************************************************************************)

\* Does the table by name, whose names are given, hold the name already?
Exists(names, name) ==
  IF duplicateTest = "inverted" THEN name \notin names ELSE name \in names

\* The objects made of a row.
CreateHostFromDbRow(id) == [kind |-> "host", id |-> id, name |-> dbHosts[id].name]
CreateThresholdFromDbRow(id) == [kind |-> "threshold", id |-> id, name |-> None]

\* LoadHosts and LoadThresholds of the store, when the rows come in the order ids; a
\* row of the latter that cannot be converted is passed over.
LoadedHosts(ids) == [k \in DOMAIN ids |-> CreateHostFromDbRow(ids[k])]
LoadedThresholds(ids) == [k \in DOMAIN ids |-> CreateThresholdFromDbRow(ids[k])]

\* The hosts among read that the loop of LoadHosts takes, in the order they were read
\* into a table by name that was empty; one whose name exists then is passed over
\* and belongs to nobody.
TakenOf(taken, read, all) ==
  \A n \in read :
    n \in taken <=> ~Exists({all[k].name : k \in {j \in taken : j < n}}, all[n].name)

IdsOf(taken, all) == {all[n].id : n \in taken}

\* The host that has the id is deleted and its entry kept.
InsertHosts_NotReplaced(taken, all) ==
  [id \in DOMAIN m_hosts \cup IdsOf(taken, all) |->
     IF id \in DOMAIN m_hosts THEN m_hosts[id] ELSE CHOOSE n \in taken : all[n].id = id]
\* Each host taken is put in the place of the one that has its id.
InsertHosts(taken, all) ==
  [id \in DOMAIN m_hosts \cup IdsOf(taken, all) |->
     IF id \in IdsOf(taken, all) THEN CHOOSE n \in taken : all[n].id = id ELSE m_hosts[id]]

InsertNames(taken, all) ==
  [name \in {all[n].name : n \in taken} |-> CHOOSE n \in taken : all[n].name = name]

\* The hosts whose place is taken.
Replaced(taken, all) == {m_hosts[id] : id \in DOMAIN m_hosts \cap IdsOf(taken, all)}

\* LoadThresholds, LoadHosts and LoadFileSystems, each of which may throw.  The
\* thresholds loaded before are leaked, as is every file system: no table takes them.
\* No statement asks for an order of the rows.
LoadCache ==
  /\ Usable
  /\ \E okT, okH \in {connected, FALSE},
        tIds \in SetToSeqs(dbThresholds \ Broken), hIds \in SetToSeqs(DOMAIN dbHosts) :
       LET news == (IF okT THEN LoadedThresholds(tIds) ELSE <<>>)
                     \o (IF okH THEN LoadedHosts(hIds) ELSE <<>>)
           all  == objects \o news
           new  == Len(objects) + 1 .. Len(all)
           Made(kind) == {n \in new : all[n].kind = kind}
       IN /\ Len(all) <= MaxObjects
          /\ objects' = all
          /\ m_thresholds' = IF okT THEN Made("threshold") ELSE m_thresholds
          /\ \E taken \in SUBSET Made("host") :
               /\ TakenOf(taken, Made("host"), all)
               /\ m_hosts' = InsertHosts(taken, all)
               /\ m_hostsByName' = IF okH THEN InsertNames(taken, all) ELSE m_hostsByName
               /\ live' = (live \cup new) \ Replaced(taken, all)
          /\ found' = IF okH THEN DOMAIN dbHosts ELSE found
  /\ stmts' = [s \in StatementNames |->
                 IF s \in {"selectAllHosts", "selectAllThresholds", "selectAllFileSystems"}
                 THEN Prepare(s)[s] ELSE stmts[s]]
  /\ returned' = None
  /\ UNCHANGED <<duplicateTest, dbVars, session, connected, nSessions, tmpHost, latestConfig,
                 config, fault, edits>>

\* The objects of the tables are deleted; the table by name is not emptied.
ReleaseAll ==
  /\ live' = live \ (m_thresholds \cup {m_hosts[id] : id \in DOMAIN m_hosts})
  /\ m_hosts' = EmptyTable
  /\ m_thresholds' = {}
  /\ found' = {}
  /\ UNCHANGED <<objects, m_hostsByName>>

-----------------------------------------------------------------------------
(***************************************************************************)
(* Changing the database.                                                  *)
(***************************************************************************)

CreateHost(h) ==
  /\ Usable
  /\ Edit
  /\ tmpHost' = TmpHostFor(h)
  /\ stmts' = Prepare("createHost")
  /\ \/ /\ connected
        /\ LET id == Cardinality(DOMAIN inserted) + 1
           IN /\ dbHosts' = With(dbHosts, id, RowOfTmpHost(tmpHost'))
              /\ inserted' = With(inserted, id, h)
     \/ UNCHANGED <<dbHosts, inserted>>
  /\ returned' = None
  /\ UNCHANGED <<duplicateTest, dbThresholds, proxy, session, connected, nSessions,
                 latestConfig, cacheVars, config, fault>>

\* Table FileSystems is left out: nothing that is kept is read from it.
CreateFileSystem ==
  /\ Usable
  /\ stmts' = Prepare("createFs")
  /\ returned' = None
  /\ UNCHANGED <<duplicateTest, dbVars, session, connected, nSessions,
                 tmpHost, latestConfig, cacheVars, config, fault, edits>>

\* An exception of this and of the next two is swallowed, and nothing happens then.
DeleteHost(id) ==
  /\ Usable /\ Edit
  /\ connected
  /\ dbHosts' = Without(dbHosts, id)
  /\ returned' = None
  /\ UNCHANGED <<duplicateTest, dbThresholds, proxy, inserted, storeVars, cacheVars, config, fault>>

CreateThreshold(id) ==
  /\ Usable /\ connected /\ Edit
  /\ dbThresholds' = dbThresholds \cup {id}
  /\ returned' = None
  /\ UNCHANGED <<duplicateTest, dbHosts, proxy, inserted, storeVars, cacheVars, config, fault>>

DeleteThreshold(id) ==
  /\ Usable /\ connected /\ Edit
  /\ dbThresholds' = dbThresholds \ {id}
  /\ returned' = None
  /\ UNCHANGED <<duplicateTest, dbHosts, proxy, inserted, storeVars, cacheVars, config, fault>>

\* The store empties the three tables, up to the first that throws, and swallows the
\* exception: the cache is released in any case.
DeleteAllObjects ==
  /\ Usable /\ Edit
  /\ \E n \in IF connected THEN 0 .. 3 ELSE {0} :
       /\ dbHosts' = IF n >= 2 THEN EmptyTable ELSE dbHosts
       /\ dbThresholds' = IF n = 3 THEN {} ELSE dbThresholds
  /\ ReleaseAll
  /\ returned' = None
  /\ UNCHANGED <<duplicateTest, proxy, inserted, storeVars, config, fault>>

\* The administrator changes the row of the program.
EditProxy ==
  /\ Edit
  /\ \E s \in Settings, v \in Values : proxy' = [proxy EXCEPT !.set[s] = v]
     \/ \E t \in Times : proxy' = [proxy EXCEPT !.ftLastThreshChangeTime = t]
  /\ returned' = None
  /\ UNCHANGED <<duplicateTest, dbHosts, dbThresholds, inserted, storeVars, cacheVars,
                 config, fault>>

Next ==
  \/ UpdateConfig \/ InitializeNew \/ InitializeAgain \/ UseWildSession \/ Disconnect \/ LoseConnection
  \/ LoadCache
  \/ \E h \in NewHosts : CreateHost(h)
  \/ CreateFileSystem
  \/ \E id \in DOMAIN dbHosts : DeleteHost(id)
  \/ \E id \in ThresholdIds : CreateThreshold(id) \/ DeleteThreshold(id)
  \/ DeleteAllObjects
  \/ EditProxy

Spec == Init /\ [][Next]_vars

-----------------------------------------------------------------------------
(***************************************************************************)
(* Properties.                                                             *)
(***************************************************************************)

\* No prepared statement outlives the session it was made for, over disconnecting,
\* failing to disconnect and connecting again: executing one would use a session that
\* was deleted.
StatementsBelongToSession ==
  \A s \in StatementNames : stmts[s] # None => stmts[s] = session

\* The tables the model is asked through hold objects that are not deleted, each
\* entry one of its own, through reloads that fail half way and through
\* DeleteAllObjects; an object deleted twice or used after would bring the process down.
TablesHoldLiveObjects ==
  /\ \A id \in DOMAIN m_hosts : m_hosts[id] \in live /\ objects[m_hosts[id]].id = id
  /\ m_thresholds \subseteq live
  /\ \A n \in m_thresholds : objects[n].kind = "threshold"

\* A row in table Hosts describes the host of the CreateHost that inserted it, though
\* the statement was bound once, to a host in the store that every call overwrites
\* (version and address come in exchanged columns).
InsertedRowIsGivenHost ==
  \A id \in DOMAIN dbHosts :
    dbHosts[id] = [name |-> inserted[id].name, ip |-> inserted[id].ver, ver |-> inserted[id].ip]

\* A host that was loaded can be found by its id.
LoadedHostFound == \A id \in found : GetHostById(id) # None

-----------------------------------------------------------------------------
(* The inductive invariants of the proofs. *)

\* The statements of the store belong to its session, whose number was given out.
StoreInv ==
  /\ nSessions \in Nat
  /\ session \in {None, Wild} \cup Nat
  /\ stmts \in [StatementNames -> {None, Wild} \cup Nat]
  /\ StatementsBelongToSession

\* Every row was inserted by a CreateHost, for the host it describes.
RowsInv ==
  /\ DOMAIN dbHosts \subseteq DOMAIN inserted
  /\ InsertedRowIsGivenHost

\* Every entry of a table is an object of its kind, made before; the tables of the
\* database are finite, so that reading them comes to an end.
TablesInv ==
  /\ IsFiniteSet(DOMAIN dbHosts) /\ IsFiniteSet(dbThresholds)
  /\ objects \in Seq(ToSet(objects))
  /\ live \subseteq DOMAIN objects
  /\ \A id \in DOMAIN m_hosts : objects[m_hosts[id]].kind = "host"
  /\ TablesHoldLiveObjects
=============================================================================
