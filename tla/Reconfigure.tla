----------------------------- MODULE Reconfigure -----------------------------
(***************************************************************************)
(* Configuration changes while requests run: the admin page's apply        *)
(* (api/admin_routes.py), the settings cache (config/settings.py), the     *)
(* provider registries (providers/registry.py, api/dependencies.py) and    *)
(* the restart of the server (cli/entrypoints.py, api/runtime.py).         *)
(*                                                                         *)
(* Requests, applies and the cleanup of a registry interleave where the    *)
(* code awaits: between a request's settings and its provider, and between *)
(* the providers a cleanup closes. The settings of a request are read in a *)
(* worker thread (get_settings is a plain function under Depends): what it *)
(* has read it may store after a write has emptied the cache.              *)
(***************************************************************************)
EXTENDS EnvConfig, Sequences, SequencesExt

Layers == [repo : Files, managed : Files, explicit : Files, process : Files]

CONSTANTS
  Providers,     \* provider ids
  Clients, Admins,     \* whose requests and admin pages are served at a time
  Refresh,       \* the task that lists the models of a new server's providers
  None,
  MaxWrites, MaxObjects,   \* bounds: files written; providers created
  InitialLayers

ASSUME ReconfigureAssumption ==
  /\ IsFiniteSet(Providers) /\ None \notin Nat
  /\ Refresh \notin Clients
  /\ InitialLayers \subseteq Layers

VARIABLES
  layers,      \* the files and the environment
  settings,    \* get_settings' cache, or None: values, and if a write overtook
               \* the one who read them
  current,     \* app.state.provider_registry: a number
  cache,       \* _providers of the registries: an object by id, or None
  objects,     \* every provider made: its values, if it is closed, if it is late
  request,     \* per request or Refresh: phase, the values it works with, since
               \* which write (None: overtaken), the provider it uses
  apply,       \* per admin page: phase, registry, objects still to close
  automatic, restarting,   \* a restart callback is installed; was called
  writes       \* how often the managed file was written

reconfigureVars ==
  <<layers, settings, current, cache, objects, request, apply, automatic, restarting, writes>>

NoCache == [p \in Providers |-> None]
Idle == [phase |-> "idle", values |-> None, since |-> 0, using |-> None]
NotApplying == [phase |-> "idle", registry |-> 0, left |-> <<>>, failed |-> FALSE]

Users == Clients \cup {Refresh}

Cached(values, overtaken) == [values |-> values, overtaken |-> overtaken]

\* What a request works with; Refresh begins with the server.
Called(values, write) ==
  [phase |-> "called", values |-> values, since |-> write, using |-> None]

AtStart(values, write) ==
  [q \in Users |-> IF q = Refresh THEN Called(values, write) ELSE Idle]

\* The server's start: a registry, and the settings read into the cache.
Started(values) ==
  /\ settings' = Cached(values, FALSE)
  /\ current' = 1 /\ cache' = <<NoCache>> /\ objects' = <<>>
  /\ request' = AtStart(values, writes)
  /\ apply' = [a \in Admins |-> NotApplying]
  /\ restarting' = FALSE

ReconfigureInit ==
  /\ layers \in InitialLayers
  /\ settings = Cached(SettingsOf(layers), FALSE)
  /\ current = 1 /\ cache = <<NoCache>> /\ objects = <<>>
  /\ writes = 0
  /\ request = AtStart(settings.values, writes)
  /\ apply = [a \in Admins |-> NotApplying]
  /\ automatic \in BOOLEAN /\ restarting = FALSE

-----------------------------------------------------------------------------
(* Requests *)

\* get_settings for a request: from the cache, or read anew by its thread.
Arrive(q) ==
  /\ request[q].phase = "idle" /\ ~restarting
  /\ request' = [request EXCEPT ![q] =
       IF settings # None
       THEN Called(settings.values, IF settings.overtaken THEN None ELSE writes)
       ELSE [Called(SettingsOf(layers), writes) EXCEPT !.phase = "reading"]]
  /\ UNCHANGED <<layers, settings, current, cache, objects, apply, automatic,
                 restarting, writes>>

\* lru_cache keeps what the first thread to be done has read, whatever has been
\* cleared meanwhile.
Store(q) ==
  /\ request[q].phase = "reading"
  /\ settings' = IF settings # None THEN settings
                 ELSE Cached(request[q].values, request[q].since # writes)
  /\ request' = [request EXCEPT ![q].phase = "called"]
  /\ UNCHANGED <<layers, current, cache, objects, apply, automatic, restarting, writes>>

\* A route that calls get_settings itself, and not in a thread (admin_status).
ReadAtOnce ==
  /\ settings = None /\ ~restarting
  /\ settings' = Cached(SettingsOf(layers), FALSE)
  /\ UNCHANGED <<layers, current, cache, objects, request, apply, automatic,
                 restarting, writes>>

Using(q, object) == [request[q] EXCEPT !.phase = "streaming", !.using = object]

\* resolve_provider, ProviderRegistry.get, for a first provider or a fallback:
\* the one that is cached, or one made of the request's settings. A cleanup
\* cancels Refresh before anything else.
Resolve(q, p) ==
  /\ request[q].phase \in {"called", "streaming"}
  /\ q = Refresh => \A a \in Admins : apply[a].phase = "idle"
  /\ IF cache[current][p] # None
     THEN /\ request' = [request EXCEPT ![q] = Using(q, cache[current][p])]
          /\ UNCHANGED <<cache, objects>>
     ELSE /\ Len(objects) < MaxObjects
          /\ objects' = Append(objects, [values |-> request[q].values, closed |-> FALSE,
                                         late |-> request[q].since # writes])
          /\ cache' = [cache EXCEPT ![current][p] = Len(objects')]
          /\ request' = [request EXCEPT ![q] = Using(q, Len(objects'))]
  /\ UNCHANGED <<layers, settings, current, apply, automatic, restarting, writes>>

\* A request that is cancelled waits for its thread.
End(q) ==
  /\ request[q].phase \in {"called", "streaming"}
  /\ request' = [request EXCEPT ![q] = Idle]
  /\ UNCHANGED <<layers, settings, current, cache, objects, apply, automatic,
                 restarting, writes>>

-----------------------------------------------------------------------------
(* The admin page *)

\* cleanup up to its first await: Refresh is cancelled; once it has ended, the
\* providers that are cached then are to be closed, not those made meanwhile.
Cleanup(registry) ==
  [NotApplying EXCEPT
     !.registry = registry,
     !.phase = IF request[Refresh].phase = "idle" THEN "cleaning" ELSE "starting",
     !.left = IF request[Refresh].phase = "idle"
              THEN SetToSeq({cache[registry][p] : p \in Providers} \ {None}) ELSE <<>>]

\* Faulty variant: the process keeps the settings it has read.
KeepSettings == UNCHANGED settings

\* get_settings.cache_clear
ForgetSettings == settings' = None

\* apply_admin_config up to its first await: the file is replaced, the settings
\* are read anew, and the server restarts or the registry is to be cleaned up.
Apply(a, updates) ==
  /\ apply[a].phase = "idle" /\ ~restarting
  /\ writes < MaxWrites
  /\ Valid(layers, updates)
  /\ layers' = [layers EXCEPT !.managed = Target(layers, updates)]
  /\ writes' = writes + 1
  /\ ForgetSettings
  /\ IF automatic /\ Pending(layers, updates) # {}
     THEN restarting' = TRUE /\ UNCHANGED apply
     ELSE apply' = [apply EXCEPT ![a] = Cleanup(current)] /\ UNCHANGED restarting
  /\ UNCHANGED <<current, cache, objects, request, automatic>>

StartCleanup(a) ==
  /\ apply[a].phase = "starting" /\ request[Refresh].phase = "idle"
  /\ apply' = [apply EXCEPT ![a] = Cleanup(@.registry)]
  /\ UNCHANGED <<layers, settings, current, cache, objects, request, automatic,
                 restarting, writes>>

OneClosed(cleanup, failed) == [cleanup EXCEPT !.left = Tail(@), !.failed = @ \/ failed]

\* cleanup: the next provider is closed; that may fail.
CloseNext(a) ==
  /\ apply[a].phase = "cleaning" /\ apply[a].left # <<>>
  /\ objects' = [objects EXCEPT ![Head(apply[a].left)].closed = TRUE]
  /\ \E failed \in BOOLEAN :
       apply' = [apply EXCEPT ![a] = OneClosed(@, failed)]
  /\ UNCHANGED <<layers, settings, current, cache, request, automatic, restarting, writes>>

\* Faulty variant: the registry keeps what it closed.
InstallOver(a) ==
  /\ apply[a].phase = "cleaning" /\ apply[a].left = <<>>
  /\ IF apply[a].failed THEN UNCHANGED <<cache, current>>
     ELSE cache' = Append(cache, NoCache) /\ current' = Len(cache')
  /\ apply' = [apply EXCEPT ![a] = NotApplying]
  /\ UNCHANGED <<layers, settings, objects, request, automatic, restarting, writes>>

\* The caches are cleared; unless a close has failed, which ends the call with an
\* error, a new registry is installed.
Install(a) ==
  /\ apply[a].phase = "cleaning" /\ apply[a].left = <<>>
  /\ LET cleared == [cache EXCEPT ![apply[a].registry] = NoCache] IN
     IF apply[a].failed
     THEN cache' = cleared /\ UNCHANGED current
     ELSE cache' = Append(cleared, NoCache) /\ current' = Len(cache')
  /\ apply' = [apply EXCEPT ![a] = NotApplying]
  /\ UNCHANGED <<layers, settings, objects, request, automatic, restarting, writes>>

\* The server is shut down and started again in the same process, with an empty
\* cache (serve).
Restart ==
  /\ restarting
  /\ \A q \in Clients : request[q].phase # "reading"
  /\ Started(SettingsOf(layers))
  /\ UNCHANGED <<layers, automatic, writes>>

Updates ==
  UNION {[keys -> Values \cup BadValues \cup {Masked}] : keys \in (SUBSET Keys) \ {{}}}

\* The page sends Masked only for a secret.
Sendable(updates) ==
  \A k \in DOMAIN updates : updates[k] = Masked => k \in Secrets

ReconfigureNext ==
  \/ \E q \in Clients : Arrive(q) \/ Store(q)
  \/ \E q \in Users : End(q) \/ \E p \in Providers : Resolve(q, p)
  \/ \E a \in Admins :
       \/ \E updates \in Updates : Sendable(updates) /\ Apply(a, updates)
       \/ StartCleanup(a) \/ CloseNext(a) \/ Install(a)
  \/ ReadAtOnce
  \/ Restart

ReconfigureSpec == ReconfigureInit /\ [][ReconfigureNext]_reconfigureVars

-----------------------------------------------------------------------------
(* Properties *)

\* After a write the server's settings have what was sent, and else what they had:
\* not what is sent of a locked key, nor a secret that comes back as it is shown.
\* But what the managed file did not have may get the template's value, in place of
\* the repository's, of Settings' own default or of the process's token.
ChangesWhatWasSent ==
  [][writes' # writes => \A a \in Admins, updates \in Updates :
       Sendable(updates) /\ Apply(a, updates) => \A k \in Keys :
         IF k \in DOMAIN updates /\ updates[k] # Masked /\ ~Locked(layers, k)
         THEN SettingsOf(layers')[k] = updates[k]
         ELSE \/ SettingsOf(layers')[k] = SettingsOf(layers)[k]
              \/ /\ layers.managed[k] = Absent
                 /\ SettingsOf(layers')[k] = Template[k]]_reconfigureVars

CleansCurrent == \E a \in Admins : apply[a].phase # "idle" /\ apply[a].registry = current

\* A request is handed a closed provider only while an apply is closing those of
\* the registry in use.
ClosedOnlyInCleanup ==
  \A p \in Providers :
    cache[current][p] # None /\ objects[cache[current][p]].closed => CleansCurrent

\* A write takes effect: the registry in use holds no provider of older settings,
\* unless an apply is about to replace it. But a request whose settings were read
\* before the write may make one after it, and so may later requests when it is
\* that reader who fills the cache.
InUseIsUpToDate ==
  \A p \in Providers :
    cache[current][p] # None =>
      \/ objects[cache[current][p]].values = SettingsOf(layers)
      \/ objects[cache[current][p]].late
      \/ CleansCurrent \/ restarting
=============================================================================
