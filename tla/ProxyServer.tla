---------------------------- MODULE ProxyServer -----------------------------
(***************************************************************************)
(* The proxy process around its sessions (src/main.py): accepting miners,  *)
(* the set of active sessions, the registry of statistics                  *)
(* (StatsManager in src/monitoring/stats.py) and the hot reload of the     *)
(* pool configuration.  Everything runs on one event loop; the lock around *)
(* active_sessions is never held over an await, so each handler below is   *)
(* one step, while the tasks it schedules run later.  What a session does  *)
(* while it runs is the subject of MinerSession.                           *)
(***************************************************************************)
EXTENDS Naturals, FiniteSets

CONSTANTS
    Conns,          \* connections of miners, each used once
    Peers,          \* peer addresses ip:port, the keys of the registry
    Pools,          \* names of pools, each with the port get_proxy_port gives it
    Versions,       \* settings a pool may have
    SharedPeers,    \* a peer address may come back before its session is gone
    MaxReloads      \* bound: reloads

ASSUME ProxyAssumption ==
    /\ Peers # {} /\ Pools # {} /\ Versions # {}
    /\ SharedPeers \in BOOLEAN /\ MaxReloads \in Nat

VARIABLES
    config,     \* config["pools"]: the settings of each configured pool
    listening,  \* pools whose port a server listens on
    st,         \* where a connection is
    peer, pool, \* its address; the name and settings of its pool
    active,     \* active_sessions
    miners,     \* StatsManager.miners: address -> session
    closing,    \* snapshots that close_sessions_background has still to abort
    reloads,    \* reloads so far
    since       \* the reload a session came after (ghost)

vars == <<config, listening, st, peer, pool, active, miners, closing, reloads, since>>

Configs == UNION {[names -> Versions] : names \in SUBSET Pools}

Running(c) == st[c] \in {"running", "aborted"}
-----------------------------------------------------------------------------
\* main: the configuration is loaded and a server started for each pool.
Init ==
    /\ config \in Configs
    /\ listening = DOMAIN config
    /\ st = [c \in Conns |-> "new"]
    /\ peer = [c \in Conns |-> CHOOSE p \in Peers : TRUE]
    /\ pool = [c \in Conns |-> [name |-> CHOOSE p \in Pools : TRUE,
                                version |-> CHOOSE v \in Versions : TRUE]]
    /\ active = {}
    /\ miners = << >>
    /\ closing = {}
    /\ reloads = 0
    /\ since = [c \in Conns |-> 0]

\* A miner may come from p: unless addresses are shared, not while a session
\* for that address is still around.
Free(p) == SharedPeers \/ \A d \in Conns : peer[d] = p => st[d] \in {"new", "refused", "cleaned"}

\* handle_new_miner, MinerSession.__init__ and register_miner included.
Accept(c, name, p) ==
    /\ st[c] = "new" /\ name \in listening /\ Free(p)
    /\ name \in DOMAIN config
    /\ st' = [st EXCEPT ![c] = "running"]
    /\ peer' = [peer EXCEPT ![c] = p]
    /\ pool' = [pool EXCEPT ![c] = [name |-> name, version |-> config[name]]]
    /\ since' = [since EXCEPT ![c] = reloads]
    /\ active' = active \union {c}
    /\ miners' = [q \in DOMAIN miners \union {p} |-> IF q = p THEN c ELSE miners[q]]
    /\ UNCHANGED <<config, listening, closing, reloads>>

\* The pool of this port is no longer configured: the connection is closed.
Refuse(c, name) ==
    /\ st[c] = "new" /\ name \in listening /\ name \notin DOMAIN config
    /\ st' = [st EXCEPT ![c] = "refused"]
    /\ UNCHANGED <<config, listening, peer, pool, active, miners, closing, reloads, since>>

\* session.run() returns, for reasons of its own or because it was aborted.
Ends(c) ==
    /\ Running(c)
    /\ st' = [st EXCEPT ![c] = "ended"]
    /\ UNCHANGED <<config, listening, peer, pool, active, miners, closing, reloads, since>>

\* Mutant: the statistics stay.
CleanupLeavesStats(c) ==
    /\ st[c] = "ended"
    /\ st' = [st EXCEPT ![c] = "cleaned"]
    /\ active' = active \ {c}
    /\ UNCHANGED <<config, listening, peer, pool, miners, closing, reloads, since>>
\* Mutant: the session stays in the set.
CleanupLeavesActive(c) ==
    /\ st[c] = "ended"
    /\ st' = [st EXCEPT ![c] = "cleaned"]
    /\ miners' = [q \in DOMAIN miners \ {peer[c]} |-> miners[q]]
    /\ UNCHANGED <<config, listening, peer, pool, active, closing, reloads, since>>
\* cleanup_session, the task its callback schedules: unregister_miner drops
\* whatever is registered under the address.
Cleanup(c) ==
    /\ st[c] = "ended"
    /\ st' = [st EXCEPT ![c] = "cleaned"]
    /\ active' = active \ {c}
    /\ miners' = [q \in DOMAIN miners \ {peer[c]} |-> miners[q]]
    /\ UNCHANGED <<config, listening, peer, pool, closing, reloads, since>>

\* Mutant: the snapshot is taken of the set just cleared.
ReloadClearsFirst(conf) ==
    /\ reloads < MaxReloads
    /\ reloads' = reloads + 1
    /\ config' = conf
    /\ closing' = closing \union {{}}
    /\ active' = {}
    /\ UNCHANGED <<listening, st, peer, pool, miners, since>>
\* update_config: a file without pools raises before anything is changed.
Reload(conf) ==
    /\ reloads < MaxReloads
    /\ reloads' = reloads + 1
    /\ config' = conf
    /\ closing' = closing \union {active}
    /\ active' = {}
    /\ UNCHANGED <<listening, st, peer, pool, miners, since>>

\* Mutant: the task closes what is active when it runs.
AbortSessionsOfNow(sessions) ==
    /\ sessions \in closing
    /\ closing' = closing \ {sessions}
    /\ st' = [c \in Conns |-> IF c \in sessions \union active /\ st[c] = "running"
                              THEN "aborted" ELSE st[c]]
    /\ UNCHANGED <<config, listening, peer, pool, active, miners, reloads, since>>
\* close_sessions_background
AbortSessions(sessions) ==
    /\ sessions \in closing
    /\ closing' = closing \ {sessions}
    /\ st' = [c \in Conns |-> IF c \in sessions /\ st[c] = "running" THEN "aborted" ELSE st[c]]
    /\ UNCHANGED <<config, listening, peer, pool, active, miners, reloads, since>>
-----------------------------------------------------------------------------
Next ==
    \/ \E c \in Conns : \/ \E name \in Pools, p \in Peers : Accept(c, name, p)
                        \/ \E name \in Pools : Refuse(c, name)
                        \/ Ends(c)
                        \/ Cleanup(c)
    \/ \E conf \in Configs : Reload(conf)
    \/ \E sessions \in closing : AbortSessions(sessions)

Spec == Init /\ [][Next]_vars

\* The event loop runs the tasks that were scheduled, and a session whose miner
\* was aborted ends (LostPeerEndsSession of MinerSession).  Nothing makes a
\* session end that nobody aborts.
Fairness ==
    /\ WF_vars(\E sessions \in closing : AbortSessions(sessions))
    /\ \A c \in Conns : /\ WF_vars(st[c] = "aborted" /\ Ends(c))
                        /\ WF_vars(Cleanup(c))

FairSpec == Spec /\ Fairness
-----------------------------------------------------------------------------
\* Types, and no session that was never accepted in any of the sets.
TypeOK ==
    /\ config \in Configs /\ listening \subseteq Pools
    /\ st \in [Conns -> {"new", "refused", "running", "aborted", "ended", "cleaned"}]
    /\ peer \in [Conns -> Peers] /\ pool \in [Conns -> [name : Pools, version : Versions]]
    /\ active \subseteq {c \in Conns : Running(c) \/ st[c] = "ended"}
    /\ \A q \in DOMAIN miners : q \in Peers /\ miners[q] \in Conns /\ st[miners[q]] # "new"
    /\ closing \subseteq SUBSET Conns
    /\ reloads \in 0..MaxReloads /\ since \in [Conns -> 0..MaxReloads]

Registered == {c \in Conns : Running(c) \/ st[c] = "ended"}

\* "Maintains a registry of all active miners" (stats.py:190): the registry
\* holds each session that runs, under its own address, and none that is gone,
\* while reloads drop sessions from active_sessions under their feet.
RegistryIsSessions ==
    /\ \A c \in Registered : peer[c] \in DOMAIN miners /\ miners[peer[c]] = c
    /\ \A q \in DOMAIN miners : miners[q] \in Registered

\* Every session that works with settings from before the last reload is on its
\* way out, and every other one has the settings of now and can be found by the
\* next reload (main.py:50-66).
ReloadReachesAll ==
    \A c \in Conns : st[c] = "running" =>
        IF since[c] < reloads THEN \E sessions \in closing : c \in sessions
        ELSE /\ c \in active
             /\ pool[c].name \in DOMAIN config /\ config[pool[c].name] = pool[c].version

\* "New connections will use updated config" (main.py:63): the teardown in the
\* background, however late, aborts no session that came after the reload.
NewSessionsSurvive ==
    [][\A c \in Conns : st[c] = "running" /\ st'[c] = "aborted" => since[c] < reloads]_vars

\* A reload gets rid of every session that was there before it, its statistics
\* included.
OldSessionsGo ==
    \A c \in Conns : (Running(c) /\ since[c] < reloads) ~> st[c] = "cleaned"
=============================================================================
