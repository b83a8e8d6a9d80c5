------------------------------ MODULE Lifecycle ------------------------------
(***************************************************************************)
(* A process of `pipitor run` from its start to its end: `main` of         *)
(* src/bin/pipitor/run.rs, the state of `App` and `Core` (src/app.rs,      *)
(* src/app/core.rs), reloads of the manifest, resets, and shutdowns by a   *)
(* signal or through IPC.  It composes Instances (locks and sockets, with  *)
(* other processes), Shutdown (the handles of the tasks) and Manifest.     *)
(*                                                                         *)
(* `main` awaits one thing at a time: while it reloads, resets or shuts    *)
(* down, it takes no request and no signal.  A step runs from one await to *)
(* the next.                                                               *)
(***************************************************************************)
EXTENDS Shutdown, Instances, Manifest

CONSTANTS
    Me,             \* the process in question
    Documents,      \* name -> what the operator may write into the manifest's file
    ManifestPath,
    Databases,      \* the URLs of databases that can be opened
    DefaultUrl,
    Tables,         \* what earlier logins may have left in the databases
    MaxRequests,    \* bound: requests waiting
    MaxChanges      \* bound: changes of the manifest and logins

ASSUME LifecycleAssumption ==
    /\ Me \in Processes
    /\ DefaultUrl \in Databases /\ {MaxRequests, MaxChanges} \subseteq Nat
    /\ \A t \in Tables : DOMAIN t = Databases

ASSUME DocumentsAssumption ==
    \A d \in DOMAIN Documents :
        {"rule", "database_url", "twitter"} \subseteq DOMAIN Documents[d]

VARIABLES
    file,       \* the name of the document in the manifest's file
    table,      \* database -> the users with a row in `twitter_tokens`
    phase,      \* where `main` of run.rs is
    manifest, routed,  \* the manifest, and the one the router was built from
    pool,       \* the database of the pool
    tokens,     \* the users whose tokens are cached
    stream, list,      \* there is a stream; the list timeline has not ended
    saved,      \* what a reload rolls back to
    requests, serving, answer,  \* IPC: waiting, being served, and the last answer
    changes     \* by the operator, counted against MaxChanges

world == <<file, table, changes>>
app == <<manifest, routed, pool, tokens, stream, list, saved>>
ctl == <<requests, serving, answer>>
lifecycleVars == <<shutdownVars, instanceVars, world, phase, app, ctl>>

Phases ==
    {"off", "read", "opened", "locked", "starting", "running", "reloading", "reconnecting",
     "resetting", "quitting", "exiting", "gone"}

\* `open_manifest`, {} if that fails.  Paths are resolved against the file itself.
OpenManifest == {Resolved(m, ManifestPath) : m \in ManifestOf(Documents[file])}

Url(m) == DatabaseUrl(m, DefaultUrl)
NeedsTokens(m) == IF m.twitter = {} THEN {} ELSE TokenUsers(m)
WantsStream(m) == \E t \in m.twitter : t.stream
WantsList(m) == \E t \in m.twitter : t.list

\* What the process kept in memory is gone with it.
Gone ==
    /\ phase' = "gone"
    /\ manifest' = {} /\ routed' = {} /\ pool' = {} /\ saved' = {}
    /\ tokens' = {} /\ stream' = FALSE /\ list' = FALSE
    /\ requests' = <<>> /\ serving' = "none"

Answer(kind, ok) == answer' = {[kind |-> kind, ok |-> ok]}

LifecycleInit ==
    /\ ShutdownInit /\ InstancesInit
    /\ file \in DOMAIN Documents
    /\ table \in Tables
    /\ phase = "off"
    /\ manifest = {} /\ routed = {} /\ pool = {} /\ saved = {}
    /\ tokens = {} /\ stream = FALSE /\ list = FALSE
    /\ requests = <<>> /\ serving = "none" /\ answer = {}
    /\ changes = 0

------------------------------------------------------------------------------
(* The operator and other processes.                                         *)

Counted == changes < MaxChanges /\ changes' = changes + 1

\* Before the start it is among the initial states, after the end it changes nothing.
Change == phase \notin {"off", "gone"} /\ Counted

Edit ==
    /\ Change
    /\ file' \in DOMAIN Documents
    /\ UNCHANGED <<shutdownVars, instanceVars, table, phase, app, ctl>>

\* `pipitor twitter-login` adds one user after another that the manifest it has read names
\* and whose token is missing or no longer valid.
TwitterLogin ==
    /\ Change
    /\ \E m \in OpenManifest : \E user \in NeedsTokens(m) :
        /\ Url(m) \in Databases
        /\ table' = [table EXCEPT ![Url(m)] = @ \cup {user}]
    /\ UNCHANGED <<shutdownVars, instanceVars, file, phase, app, ctl>>

\* `pipitor ctl`: requests queue while `main` is busy.
Ctl(request) ==
    /\ ipc[Me] = "open" /\ socket = Me
    /\ Len(requests) < MaxRequests
    /\ requests' = Append(requests, request)
    /\ UNCHANGED <<shutdownVars, instanceVars, world, phase, app, serving, answer>>

Others ==
    /\ \/ ReplaceFile /\ Counted
       \/ (RemoveStale \/ \E p \in Processes \ {Me} : Instance(p)) /\ UNCHANGED changes
    /\ UNCHANGED <<shutdownVars, file, table, phase, app, ctl>>

------------------------------------------------------------------------------
(* The start.                                                                *)

\* The manifest is read before its file is opened again to be locked.
ReadManifest ==
    /\ phase = "off"
    /\ manifest' \in OpenManifest
    /\ phase' = "read"
    /\ UNCHANGED <<shutdownVars, instanceVars, world, routed, pool, tokens, stream, list, saved, ctl>>

OpenLock ==
    /\ phase = "read" /\ Open(Me)
    /\ phase' = "opened"
    /\ UNCHANGED <<shutdownVars, world, app, ctl>>

TryLock ==
    /\ phase = "opened"
    /\ \/ Lock(Me) /\ phase' = "locked" /\ UNCHANGED <<app, ctl>>
       \/ LockFails(Me) /\ Gone /\ UNCHANGED answer
    /\ UNCHANGED <<shutdownVars, world>>

StartServer ==
    /\ phase = "locked" /\ (Bind(Me) \/ BindFails(Me))
    /\ UNCHANGED <<shutdownVars, world, phase, app, ctl>>

\* `Core::new`, and `init_websub`.
NewCore ==
    /\ phase = "locked" /\ ipc[Me] # "untried"
    /\ Url(manifest) \in Databases
    /\ NeedsTokens(manifest) \subseteq table[Url(manifest)]
    /\ routed' = manifest
    /\ pool' = Url(manifest)
    /\ tokens' = NeedsTokens(manifest)
    /\ phase' = "starting"
    /\ UNCHANGED <<shutdownVars, instanceVars, world, manifest, stream, list, saved, ctl>>

\* `init_twitter` has been awaited; the rest of `with_http_client`.
Started ==
    /\ phase = "starting"
    /\ stream' = WantsStream(manifest) /\ list' = WantsList(manifest)
    /\ phase' = "running"
    /\ UNCHANGED <<shutdownVars, instanceVars, world, manifest, routed, pool, tokens, saved, ctl>>

StartFails ==
    /\ phase = "starting" \/ (phase = "locked" /\ ipc[Me] # "untried")
    /\ phase' = "exiting"
    /\ UNCHANGED <<shutdownVars, instanceVars, world, app, ctl>>

------------------------------------------------------------------------------
(* Tasks and waits, as in Shutdown.                                          *)

\* The application is polled, or exhausts the list timeline.
Sending == phase = "running" \/ (phase \in {"resetting", "quitting"} /\ main = "draining" /\ list)

SpawnTask(t) ==
    /\ Sending /\ TwitterOutboxes(routed) # {}
    /\ Spawn(t)
    /\ UNCHANGED <<instanceVars, world, phase, app, ctl>>

TaskStep(t) ==
    /\ phase # "gone"
    /\ Drop(t) \/ Wake(t) \/ Release(t)
    /\ UNCHANGED <<instanceVars, world, phase, app, ctl>>

Wait ==
    /\ \/ phase = "running" /\ Serve
       \/ phase \in {"resetting", "quitting"} /\ (Check \/ Register \/ Poll)
       \/ phase # "gone" /\ OtherWake
    /\ UNCHANGED <<instanceVars, world, phase, app, ctl>>

\* `poll_shutdown` has exhausted the list timeline.
ExhaustList ==
    /\ phase \in {"resetting", "quitting"} /\ Drained
    /\ list' = FALSE
    /\ UNCHANGED <<instanceVars, world, phase, manifest, routed, pool, tokens, stream, saved, ctl>>

------------------------------------------------------------------------------
(* Resets.                                                                   *)

\* `App::poll` returns: there is no stream any more, or something else fails under it.
AppReturns ==
    /\ phase = "running"
    /\ stream' \in IF WantsStream(manifest) THEN {FALSE, stream} ELSE {stream}
    /\ IF stream' THEN phase' = "resetting" /\ StartShutdown
                  ELSE phase' = "reconnecting" /\ UNCHANGED shutdownVars
    /\ UNCHANGED <<instanceVars, world, manifest, routed, pool, tokens, list, saved, ctl>>

Reconnected ==
    /\ phase = "reconnecting"
    /\ stream' = WantsStream(manifest)
    /\ phase' = "resetting" /\ StartShutdown
    /\ UNCHANGED <<instanceVars, world, manifest, routed, pool, tokens, list, saved, ctl>>

Restarted ==
    /\ phase = "resetting"
    /\ Finish /\ main' = "serving"
    /\ phase' = "running"
    /\ UNCHANGED <<instanceVars, world, app, ctl>>

\* No connection to Twitter, or the database fails under the last batches.
ResetFails ==
    /\ phase = "reconnecting" \/ (phase \in {"resetting", "quitting"} /\ main = "draining" /\ list)
    /\ phase' = "exiting"
    /\ serving' = "none"
    /\ IF serving = "shutdown" THEN Answer("shutdown", FALSE) ELSE UNCHANGED answer
    /\ UNCHANGED <<shutdownVars, instanceVars, world, app, requests>>

------------------------------------------------------------------------------
(* Shutdowns.                                                                *)

Signal ==
    /\ phase = "running" /\ StartShutdown
    /\ phase' = "quitting"
    /\ UNCHANGED <<instanceVars, world, app, ctl>>

\* Faulty variant: the request is answered when it is taken.
TakeShutdown_answers ==
    /\ phase = "running" /\ requests # <<>> /\ Head(requests) = "shutdown"
    /\ StartShutdown
    /\ phase' = "quitting"
    /\ serving' = "none" /\ requests' = Tail(requests)
    /\ Answer("shutdown", TRUE)
    /\ UNCHANGED <<instanceVars, world, app>>

TakeShutdown ==
    /\ phase = "running" /\ requests # <<>> /\ Head(requests) = "shutdown"
    /\ StartShutdown
    /\ phase' = "quitting"
    /\ serving' = "shutdown" /\ requests' = Tail(requests) /\ answer' = {}
    /\ UNCHANGED <<instanceVars, world, app>>

Quit ==
    /\ phase = "quitting"
    /\ Finish /\ main' = "exited"
    /\ phase' = "exiting"
    /\ serving' = "none"
    /\ IF serving = "shutdown" THEN Answer("shutdown", TRUE) ELSE UNCHANGED answer
    /\ UNCHANGED <<instanceVars, world, app, requests>>

\* The application, the listener, the socket and the lock go, in this order.  Whoever
\* still waits for an answer gets none.
Exit ==
    /\ phase = "exiting"
    /\ \/ Close(Me) /\ UNCHANGED <<phase, app, ctl>>
       \/ RemoveSocket(Me) /\ UNCHANGED <<phase, app, ctl>>
       \/ Unlock(Me) /\ Gone /\ UNCHANGED answer
    /\ UNCHANGED <<shutdownVars, world>>

Crash ==
    /\ phase \notin {"off", "read", "gone"} /\ Killed(Me)
    /\ Gone
    /\ UNCHANGED <<shutdownVars, world, answer>>

------------------------------------------------------------------------------
(* Reloads: `replace_manifest`.                                              *)

\* After a failure `main` of run.rs exits, and its answer may not be written in time; any
\* other caller may go on with the application as it was.
ReloadAnswered(ok) ==
    /\ serving' = "none"
    /\ IF ok THEN phase' = "running" ELSE phase' \in {"running", "exiting"}
    /\ Answer("reload", ok) \/ (~ok /\ UNCHANGED answer)

\* The new manifest and the new pool are in place before the tokens are loaded.
TakeReload(m) ==
    /\ phase = "running" /\ requests # <<>> /\ Head(requests) = "reload"
    /\ m \in OpenManifest
    /\ LET same == m.database_url = manifest.database_url
           missing == NeedsTokens(m) \ tokens
       IN  /\ same \/ Url(m) \in Databases
           /\ pool' = IF same THEN pool ELSE Url(m)
           /\ tokens' = IF missing \subseteq table[pool'] THEN tokens \cup missing ELSE tokens
    /\ saved' = [manifest |-> manifest, pool |-> pool]
    /\ manifest' = m
    /\ phase' = "reloading"
    /\ serving' = "reload" /\ requests' = Tail(requests) /\ answer' = {}
    /\ UNCHANGED <<shutdownVars, instanceVars, world, routed, stream, list>>

\* No manifest, or no database.
RejectReload ==
    /\ phase = "running" /\ requests # <<>> /\ Head(requests) = "reload"
    /\ \A m \in OpenManifest :
        m.database_url # manifest.database_url /\ Url(m) \notin Databases
    /\ requests' = Tail(requests)
    /\ ReloadAnswered(FALSE)
    /\ UNCHANGED <<shutdownVars, instanceVars, world, app>>

Authorized == NeedsTokens(manifest) \subseteq tokens

\* `init_twitter` is awaited, if there are updates.
Reinitialized ==
    /\ Authorized /\ HasUpdates(saved.manifest, manifest)
    /\ stream' = WantsStream(manifest) /\ list' = WantsList(manifest)

\* Faulty variant: `gc_twitter_tokens` overlooks the user of the stream and the list.
Kept_outboxes == tokens \cap TwitterOutboxes(manifest)

\* `gc_twitter_tokens`.
Kept == tokens \cap NeedsTokens(manifest)

Reloaded ==
    /\ phase = "reloading"
    /\ \/ Reinitialized
       \/ Authorized /\ ~HasUpdates(saved.manifest, manifest) /\ UNCHANGED <<stream, list>>
    /\ tokens' = Kept
    /\ routed' = manifest
    /\ saved' = {}
    /\ ReloadAnswered(TRUE)
    /\ UNCHANGED <<shutdownVars, instanceVars, world, manifest, pool, requests>>

\* Faulty variant: the pool is not rolled back.
RolledBack_manifest ==
    /\ manifest' = saved.manifest
    /\ UNCHANGED pool

\* `Guard::rollback`: new tokens stay.
RolledBack ==
    /\ manifest' = saved.manifest
    /\ pool' = saved.pool

\* A token is missing, no connection to Twitter, the future is dropped while it waits for
\* one, or `sync_websub_subscriptions` fails with the stream and the list replaced.
ReloadFails ==
    /\ phase = "reloading"
    /\ Reinitialized \/ UNCHANGED <<stream, list>>
    /\ RolledBack
    /\ saved' = {}
    /\ ReloadAnswered(FALSE)
    /\ UNCHANGED <<shutdownVars, instanceVars, world, routed, tokens, requests>>

LifecycleNext ==
    \/ Edit \/ TwitterLogin \/ Others
    \/ \E request \in {"reload", "shutdown"} : Ctl(request)
    \/ ReadManifest \/ OpenLock \/ TryLock \/ StartServer \/ NewCore \/ Started \/ StartFails
    \/ \E t \in Tasks : SpawnTask(t) \/ TaskStep(t)
    \/ Wait \/ ExhaustList
    \/ AppReturns \/ Reconnected \/ Restarted \/ ResetFails
    \/ Signal \/ TakeShutdown \/ Quit \/ Exit \/ Crash
    \/ \E m \in OpenManifest : TakeReload(m)
    \/ RejectReload \/ Reloaded \/ ReloadFails

LifecycleSpec == LifecycleInit /\ [][LifecycleNext]_lifecycleVars

------------------------------------------------------------------------------
(* The properties.                                                           *)

LifecycleTypeOK ==
    /\ ShutdownTypeOK /\ InstancesTypeOK
    /\ file \in DOMAIN Documents /\ phase \in Phases
    /\ DOMAIN table = Databases
    /\ phase \in {"running", "reloading", "reconnecting", "resetting", "quitting"} => pool \in Databases
    /\ stream \in BOOLEAN /\ list \in BOOLEAN
    /\ Len(requests) <= MaxRequests /\ serving \in {"none", "reload", "shutdown"}

Up == phase \in {"running", "reconnecting", "resetting", "quitting"}

\* The `unwrap`s of tokens never panic: whenever the application can be polled, connects or
\* sends its last batches, each outbox the router may name and the user of the stream and
\* the list have a cached token, whatever reloads went before or failed half way.
TokensCoverRouter ==
    Up => /\ TwitterOutboxes(routed) \cup NeedsTokens(manifest) \subseteq tokens
          /\ TwitterOutboxes(routed) # {} => manifest.twitter # {}

\* `replace_manifest` keeps "the `App`'s state consistent with the new manifest": between
\* reloads the router and the database are those of the manifest in force.
Consistent == Up => routed = manifest /\ pool = Url(manifest)

\* An operator who was told that the bot has shut down finds none of its tweets in flight.
AnsweredMeansDone ==
    [kind |-> "shutdown", ok |-> TRUE] \in answer => \A t \in Tasks : task[t] = "none"

==============================================================================
