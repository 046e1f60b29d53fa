----------------------------- MODULE Kerbernetes -----------------------------
(***************************************************************************)
(* The program as one process: the logins of AuthService reconcile towards *)
(* what they find in the cache of BindingCache, which they walk while the  *)
(* informer's handlers write it, and both go down together when the        *)
(* process ends.  The next process serves requests at once: main starts    *)
(* the informer in a goroutine and does not wait for its first list.       *)
(*                                                                         *)
(* Left to AuthService alone: failing calls, interventions on bindings, a  *)
(* changing directory, several replicas.  What AuthService reads in one    *)
(* step, the cache, is here the walk that may mix states of the cache.     *)
(***************************************************************************)
EXTENDS Naturals, Sequences, FiniteSets

CONSTANTS
  Users, Roles, Namespaces, Cluster, None, Requests, Groups,
  Directory,         \* the entries found in LDAP for a user, and its groups
  Names,             \* names of LdapGroupBindings
  Content,           \* what each version of an LdapGroupBinding says
  MaxObjectChanges,  \* bound on changes of LdapGroupBindings
  MaxDrops           \* bound on lost watches and restarts

VARIABLES
  accounts, bindings,                           \* of ServiceAccounts
  pc, user, groups, desired, todo, existing, pending, undisturbed,
                                                \* of AuthService
  objects, versions, stream, connected, indexer, queue, cache, reader, drops,
                                                \* of BindingCache
  offered,       \* history: pointers cached at some time since the login's arrival
  kept           \* history: pointers cached ever since the login's arrival

logins  == <<accounts, bindings, pc, user, groups, desired, todo, existing, pending, undisturbed>>
lgbs    == <<objects, versions, stream, connected, indexer, queue, cache, reader, drops>>
history == <<offered, kept>>
vars    == <<logins, lgbs, history>>

-----------------------------------------------------------------------------
(* The two components. *)

Service == INSTANCE BindingCache WITH
  Readers <- Requests, MaxChanges <- MaxObjectChanges, changes <- versions

Pointers == [name : Names, version : 1 .. MaxObjectChanges + 1]

(* The object behind a pointer. *)
Object(p) ==
  [name |-> p.name, ldapGroupDN |-> Content[p.name][p.version].ldapGroupDN,
   bindings |-> Content[p.name][p.version].bindings]

Read(pointers) == {Object(p) : p \in pointers}

Cached == {cache[i] : i \in DOMAIN cache}

Process == "kerbernetes"

Auth == INSTANCE AuthService WITH
  LgbNames <- Names, LDAPEnabled <- TRUE,
  Replicas <- {Process}, ServedBy <- [r \in Requests |-> Process],
  Directories <- {Directory}, directory <- Directory,
  BindingSets <- SUBSET Read(Pointers), cache <- [p \in {Process} |-> Read(Cached)],
  AdminWrites <- {}, MaxChanges <- 0, MaxFaults <- 0, MaxDrift <- 0,
  changes <- 0, faults <- 0, drifts <- 0

ASSUME StoreAssumption ==
  /\ Cluster \notin Namespaces /\ None \notin Auth!Scopes
  /\ None \notin Auth!Binding /\ None \notin Users

ASSUME DirectoryAssumption == Directory \in [Users -> Auth!DirectoryEntry]

ASSUME BoundAssumption == IsFiniteSet(Names) /\ MaxObjectChanges \in Nat /\ MaxDrops \in Nat

ASSUME ContentAssumption ==
  \A p \in Pointers :
    Object(p) \in [name : Names, ldapGroupDN : Groups, bindings : Seq(Auth!Item)]

Init ==
  /\ Service!Init
  /\ Auth!Init
  /\ offered = [r \in Requests |-> {}]
  /\ kept = [r \in Requests |-> {}]

-----------------------------------------------------------------------------
(* Logins. *)

Arrive(r, u) ==
  /\ UNCHANGED lgbs
  /\ Auth!Arrive(r, u)
  /\ offered' = [offered EXCEPT ![r] = Cached]
  /\ kept' = [kept EXCEPT ![r] = Cached]

(* GetBindings hands out the cache's slice. *)
TakeSlice(r) ==
  /\ pc[r] = "getBindings"
  /\ Service!GetBindings(r)
  /\ UNCHANGED <<logins, history>>

WalkOn(r) ==
  /\ Service!ReadNext(r)
  /\ UNCHANGED <<logins, history>>

(* The loop over ldapBindings is over: desired is what the walk read.      *)
EndWalk(r) ==
  /\ Service!EndWalk(r)
  /\ Auth!Learn(r, Read({reader[r].slice[i] : i \in DOMAIN reader[r].slice}))
  /\ UNCHANGED history

(* The calls to LDAP and to the API server. *)
Call(r) ==
  /\ UNCHANGED lgbs
  /\ \/ Auth!GetAccount(r) \/ Auth!CreateAccount(r)
     \/ Auth!GetUser(r) \/ Auth!GetUserGroups(r)
     \/ Auth!ListClusterRoleBindings(r) \/ Auth!ListRoleBindings(r)
     \/ \E t \in todo[r] : \/ Auth!CreateMissing(r, t)
                           \/ Auth!KeepExisting(r, t)
                           \/ Auth!GetForUpdate(r, t)
     \/ Auth!UpdateBinding(r)
     \/ \E e \in existing[r] : Auth!RemoveUnused(r, e)
     \/ Auth!IssueToken(r)
  /\ UNCHANGED history

LoginStep(r) == TakeSlice(r) \/ WalkOn(r) \/ EndWalk(r) \/ Call(r)

-----------------------------------------------------------------------------
(* LdapGroupBindings, the informer and its handlers. *)

(* A handler writes the cache under the eyes of the logins that have not   *)
(* yet read it.                                                            *)
Handle ==
  /\ Service!HandleAdd \/ Service!HandleUpdate \/ Service!HandleDelete
  /\ offered' = [r \in Requests |->
                   IF pc[r] \in Auth!Preparing THEN offered[r] \cup Cached' ELSE offered[r]]
  /\ kept' = [r \in Requests |->
                IF pc[r] \in Auth!Preparing THEN kept[r] \cap Cached' ELSE kept[r]]
  /\ UNCHANGED logins

Relist == Service!Relist /\ UNCHANGED <<logins, history>>

WatchDelivers == Service!WatchDelivers /\ UNCHANGED <<logins, history>>

WatchLost == Service!WatchLost /\ UNCHANGED <<logins, history>>

ObjectChanges(n) ==
  /\ Service!ObjectChanges(n)
  /\ UNCHANGED <<logins, history>>

(* The logins under way are gone with their goroutines, wherever they are. *)
LoginsEnd ==
  /\ pc' = [r \in Requests |-> IF pc[r] \in Auth!Resting THEN pc[r] ELSE "failed"]
  /\ user' = [r \in Requests |-> None]
  /\ groups' = [r \in Requests |-> {}]
  /\ desired' = [r \in Requests |-> {}]
  /\ todo' = [r \in Requests |-> {}]
  /\ existing' = [r \in Requests |-> {}]
  /\ pending' = [r \in Requests |-> Auth!NoUpdate]
  /\ undisturbed' = [r \in Requests |-> TRUE]
  /\ offered' = [r \in Requests |-> {}]
  /\ kept' = [r \in Requests |-> {}]
  /\ UNCHANGED <<accounts, bindings>>

(* The next process serves with an empty cache. *)
Restart == Service!Restart /\ LoginsEnd

HandleTombstone == Service!HandleTombstone /\ LoginsEnd

-----------------------------------------------------------------------------
Next ==
  \/ \E r \in Requests, u \in Users : Arrive(r, u)
  \/ \E r \in Requests : LoginStep(r)
  \/ Relist \/ WatchDelivers \/ WatchLost
  \/ Handle \/ HandleTombstone \/ Restart
  \/ \E n \in Names : ObjectChanges(n)

Spec == Init /\ [][Next]_vars

(* The informer's goroutines run, a login that can go on goes on, and a    *)
(* user whose token expires comes back.                                    *)
Fairness ==
  /\ WF_vars(Relist) /\ WF_vars(WatchDelivers) /\ WF_vars(Handle \/ HandleTombstone)
  /\ \A r \in Requests : WF_vars(LoginStep(r))
  /\ \A u \in Users : SF_vars(\E r \in Requests : Arrive(r, u))

FairSpec == Spec /\ Fairness

-----------------------------------------------------------------------------
(* Properties. *)

AskedFor(u, gs, pointers) == Auth!TaskKeys(u, Auth!Tasks(Read(pointers), gs))

(***************************************************************************)
(* A login that overlaps with handlers of the informer reconciles towards  *)
(* LdapGroupBindings that were all cached while it prepared: its account   *)
(* has every binding that was asked for from its arrival to the end of its *)
(* walk, and none that was asked for at no moment in between.              *)
(***************************************************************************)
TokensReflectBindings ==
  \A r \in Requests : Auth!Reconciled(r) /\ undisturbed[r] =>
    /\ AskedFor(user[r], groups[r], kept[r]) \subseteq Auth!Managed(user[r])
    /\ Auth!Managed(user[r]) \subseteq AskedFor(user[r], groups[r], offered[r])

Published == {p \in Pointers : objects[p.name] = p.version}

Entitled(u) == AskedFor(u, Directory[u].groups, Published)

(***************************************************************************)
(* What administrators write into LdapGroupBindings becomes what users who *)
(* keep logging in have in the cluster, and stays it, whatever lost        *)
(* watches, panics and restarts come in between.                           *)
(***************************************************************************)
AccountsFollowObjects ==
  \A u \in Users : <>[](Directory[u].entries = 1 => Auth!Managed(u) = Entitled(u))

(***************************************************************************)
(* Once they stop changing, the cache ends up with the LdapGroupBindings   *)
(* there are, each once, also after lost watches, panics and restarts (the *)
(* informer's list and watch, its handlers, and main's next start).        *)
(***************************************************************************)
CacheCatchesUp == Service!CacheCatchesUp

(***************************************************************************)
(* "3. Remove bindings no longer needed": a login does not remove a        *)
(* binding that an LdapGroupBinding asks for, as it has done since before  *)
(* the login.  Checked where no LdapGroupBinding ever changes.             *)
(***************************************************************************)
RemovedBindingsNotNeeded ==
  [][\A k \in Auth!Key :
       bindings[k] # None /\ bindings'[k] = None => k \notin Entitled(k.name.user)]_vars

=============================================================================
