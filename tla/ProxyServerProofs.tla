------------------------- MODULE ProxyServerProofs --------------------------
(***************************************************************************)
(* What a hot reload does to the sessions, and what the registry holds,    *)
(* for any number of connections, addresses, pools and reloads.            *)
(***************************************************************************)
EXTENDS ProxyServer, TLAPS

\* No session is from a reload that is still to come.
SinceIsPast == \A c \in Conns : since[c] <= reloads

\* What a teardown has still to abort are sessions of before the last reload.
ClosingIsOld ==
    \A sessions \in closing : \A c \in sessions : since[c] < reloads /\ st[c] # "new"

IInv == TypeOK /\ SinceIsPast /\ ClosingIsOld /\ ReloadReachesAll
-----------------------------------------------------------------------------
LEMMA InitIInv == Init => IInv
<1> SUFFICES ASSUME Init PROVE IInv
  OBVIOUS
<1> USE ProxyAssumption DEF Init
<1>1. (CHOOSE p \in Peers : TRUE) \in Peers
  OBVIOUS
<1>2. (CHOOSE p \in Pools : TRUE) \in Pools /\ (CHOOSE v \in Versions : TRUE) \in Versions
  OBVIOUS
<1>3. listening \subseteq Pools
  BY DEF Configs
<1>4. TypeOK
  BY <1>1, <1>2, <1>3 DEF TypeOK
<1>5. SinceIsPast /\ ClosingIsOld /\ ReloadReachesAll
  BY DEF SinceIsPast, ClosingIsOld, ReloadReachesAll
<1> QED
  BY <1>4, <1>5 DEF IInv

LEMMA AcceptIInv ==
    ASSUME IInv, NEW c \in Conns, NEW name \in Pools, NEW p \in Peers, Accept(c, name, p)
    PROVE  IInv'
<1> USE ProxyAssumption DEF IInv, TypeOK, Accept
<1>1. config[name] \in Versions
  BY DEF Configs
<1>2. pool' \in [Conns -> [name : Pools, version : Versions]]
  BY <1>1
<1>3. active' \subseteq {d \in Conns : Running(d)' \/ st'[d] = "ended"}
  BY DEF Running
<1>4. \A q \in DOMAIN miners' : q \in Peers /\ miners'[q] \in Conns /\ st'[miners'[q]] # "new"
  <2> SUFFICES ASSUME NEW q \in DOMAIN miners' PROVE q \in Peers /\ miners'[q] \in Conns /\ st'[miners'[q]] # "new"
    OBVIOUS
  <2>1. CASE q = p
    BY <2>1
  <2>2. CASE q # p
    BY <2>2
  <2> QED
    BY <2>1, <2>2
<1>5. TypeOK'
  BY <1>2, <1>3, <1>4
<1>6. SinceIsPast' /\ ClosingIsOld'
  BY DEF SinceIsPast, ClosingIsOld
<1>7. ReloadReachesAll'
  BY DEF ReloadReachesAll
<1> QED
  BY <1>5, <1>6, <1>7

\* Refuse, Ends and Cleanup take a connection further and change no setting.
LEMMA ConnectionIInv ==
    ASSUME IInv, NEW c \in Conns, (\E name \in Pools : Refuse(c, name)) \/ Ends(c) \/ Cleanup(c)
    PROVE  IInv'
<1> USE DEF IInv, TypeOK
<1>1. CASE \E name \in Pools : Refuse(c, name)
  <2>1. TypeOK'
    BY <1>1 DEF Refuse, Running
  <2>2. SinceIsPast' /\ ClosingIsOld' /\ ReloadReachesAll'
    BY <1>1 DEF Refuse, SinceIsPast, ClosingIsOld, ReloadReachesAll
  <2> QED
    BY <2>1, <2>2
<1>2. CASE Ends(c)
  <2>1. TypeOK'
    BY <1>2 DEF Ends, Running
  <2>2. SinceIsPast' /\ ClosingIsOld' /\ ReloadReachesAll'
    BY <1>2 DEF Ends, SinceIsPast, ClosingIsOld, ReloadReachesAll
  <2> QED
    BY <2>1, <2>2
<1>3. CASE Cleanup(c)
  <2>1. TypeOK'
    BY <1>3 DEF Cleanup, Running
  <2>2. SinceIsPast' /\ ClosingIsOld' /\ ReloadReachesAll'
    BY <1>3 DEF Cleanup, SinceIsPast, ClosingIsOld, ReloadReachesAll
  <2> QED
    BY <2>1, <2>2
<1> QED
  BY <1>1, <1>2, <1>3

\* The snapshot holds every session that the new settings leave behind.
LEMMA ReloadIInv ==
    ASSUME IInv, NEW conf \in Configs, Reload(conf)
    PROVE  IInv'
<1> USE ProxyAssumption DEF IInv, TypeOK, Reload
<1>1. active \subseteq Conns
  BY DEF Running
<1>2. TypeOK'
  BY <1>1
<1>3. SinceIsPast'
  BY DEF SinceIsPast
<1>4. ClosingIsOld'
  BY <1>1 DEF SinceIsPast, ClosingIsOld, Running
<1>5. ASSUME NEW c \in Conns, st[c] = "running"
      PROVE  since[c] < reloads' /\ \E sessions \in closing' : c \in sessions
  BY <1>5 DEF SinceIsPast, ReloadReachesAll
<1>6. ReloadReachesAll'
  BY <1>5 DEF ReloadReachesAll
<1> QED
  BY <1>2, <1>3, <1>4, <1>6

LEMMA AbortSessionsIInv ==
    ASSUME IInv, NEW sessions \in closing, AbortSessions(sessions)
    PROVE  IInv'
<1> USE DEF IInv, TypeOK, AbortSessions
<1>1. TypeOK'
  BY DEF Running
<1>2. SinceIsPast' /\ ClosingIsOld'
  BY DEF SinceIsPast, ClosingIsOld
<1>3. ReloadReachesAll'
  BY DEF ReloadReachesAll
<1> QED
  BY <1>1, <1>2, <1>3

LEMMA NextIInv == IInv /\ [Next]_vars => IInv'
<1> SUFFICES ASSUME IInv, [Next]_vars PROVE IInv'
  OBVIOUS
<1>1. CASE UNCHANGED vars
  BY <1>1 DEF vars, IInv, TypeOK, SinceIsPast, ClosingIsOld, ReloadReachesAll, Running
<1>2. ASSUME NEW c \in Conns, NEW name \in Pools, NEW p \in Peers, Accept(c, name, p)
      PROVE  IInv'
  BY <1>2, AcceptIInv
<1>3. ASSUME NEW c \in Conns, (\E name \in Pools : Refuse(c, name)) \/ Ends(c) \/ Cleanup(c)
      PROVE  IInv'
  BY <1>3, ConnectionIInv
<1>4. ASSUME NEW conf \in Configs, Reload(conf) PROVE IInv'
  BY <1>4, ReloadIInv
<1>5. ASSUME NEW sessions \in closing, AbortSessions(sessions) PROVE IInv'
  BY <1>5, AbortSessionsIInv
<1> QED
  BY <1>1, <1>2, <1>3, <1>4, <1>5 DEF Next

\* The inductive invariant of sessions and reloads holds throughout.
THEOREM ServerInvariance == Spec => []IInv
<1> QED
  BY InitIInv, NextIInv, PTL DEF Spec

\* The server keeps its types (TypeOK of the run proxy_server).
THEOREM ServerTypes == Spec => []TypeOK
<1>1. IInv => TypeOK
  BY DEF IInv
<1> QED
  BY <1>1, ServerInvariance, PTL

\* After any number of reloads, however late their teardowns, each session that
\* works with old settings is about to be aborted, and each other one has the
\* settings of now and is known to the next reload (update_config).
THEOREM ReloadsReachAll == Spec => []ReloadReachesAll
<1>1. IInv => ReloadReachesAll
  BY DEF IInv
<1> QED
  BY <1>1, ServerInvariance, PTL

\* No teardown aborts a session that came after its reload
\* (close_sessions_background).
THEOREM NoNewSessionAborted == Spec => NewSessionsSurvive
<1>1. ASSUME IInv, [Next]_vars
      PROVE  [\A c \in Conns : st[c] = "running" /\ st'[c] = "aborted" => since[c] < reloads]_vars
  <2> SUFFICES ASSUME Next, NEW c \in Conns, st[c] = "running", st'[c] = "aborted"
               PROVE  since[c] < reloads
    BY <1>1
  <2> USE DEF IInv, TypeOK
  <2>1. CASE \E d \in Conns, name \in Pools, p \in Peers : Accept(d, name, p)
    BY <1>1, <2>1 DEF Accept
  <2>2. CASE \E d \in Conns, name \in Pools : Refuse(d, name)
    BY <1>1, <2>2 DEF Refuse
  <2>3. CASE \E d \in Conns : Ends(d) \/ Cleanup(d)
    BY <1>1, <2>3 DEF Ends, Cleanup
  <2>4. CASE \E conf \in Configs : Reload(conf)
    BY <1>1, <2>4 DEF Reload
  <2>5. CASE \E sessions \in closing : AbortSessions(sessions)
    BY <1>1, <2>5 DEF AbortSessions, ClosingIsOld
  <2> QED
    BY <2>1, <2>2, <2>3, <2>4, <2>5 DEF Next
<1> QED
  BY <1>1, ServerInvariance, PTL DEF Spec, NewSessionsSurvive
-----------------------------------------------------------------------------
\* A session is registered under no address but its own: what the registry
\* needs to lose a session with the one entry that cleanup_session removes.
OwnAddress == \A q \in DOMAIN miners : peer[miners[q]] = q

RInv == TypeOK /\ RegistryIsSessions /\ OwnAddress

\* The registry through one step, when no address is shared.
LEMMA NextRegistry ==
    ASSUME SharedPeers = FALSE, RInv, [Next]_vars
    PROVE  RegistryIsSessions' /\ OwnAddress'
<1> USE DEF RInv, TypeOK, Registered, Running, RegistryIsSessions, OwnAddress
<1>1. CASE UNCHANGED vars
  BY <1>1 DEF vars
<1>2. ASSUME NEW c \in Conns, NEW name \in Pools, NEW p \in Peers, Accept(c, name, p)
      PROVE  RegistryIsSessions' /\ OwnAddress'
  <2>1. \A d \in Registered : peer[d] # p
    BY <1>2 DEF Accept, Free
  <2>2. Registered' = Registered \union {c} /\ c \notin Registered
    BY <1>2 DEF Accept
  <2>3. \A d \in Registered' : peer'[d] \in DOMAIN miners' /\ miners'[peer'[d]] = d
    BY <1>2, <2>1, <2>2 DEF Accept
  <2>4. ASSUME NEW q \in DOMAIN miners'
        PROVE  miners'[q] \in Registered' /\ peer'[miners'[q]] = q
    <3>1. CASE q = p
      BY <1>2, <2>2, <3>1 DEF Accept
    <3>2. CASE q # p
      <4>1. q \in DOMAIN miners /\ miners'[q] = miners[q]
        BY <1>2, <3>2 DEF Accept
      <4>2. miners[q] \in Registered /\ peer'[miners[q]] = peer[miners[q]]
        BY <1>2, <2>2, <4>1 DEF Accept
      <4> QED
        BY <2>2, <4>1, <4>2
    <3> QED
      BY <3>1, <3>2
  <2> QED
    BY <2>3, <2>4
<1>3. ASSUME NEW c \in Conns, NEW name \in Pools, Refuse(c, name)
      PROVE  RegistryIsSessions' /\ OwnAddress'
  BY <1>3 DEF Refuse
<1>4. ASSUME NEW c \in Conns, Ends(c) PROVE RegistryIsSessions' /\ OwnAddress'
  BY <1>4 DEF Ends
<1>5. ASSUME NEW c \in Conns, Cleanup(c) PROVE RegistryIsSessions' /\ OwnAddress'
  <2>1. Registered' = Registered \ {c} /\ c \in Registered
    BY <1>5 DEF Cleanup
  <2>2. \A d \in Registered' : peer[d] # peer[c]
    BY <2>1
  <2>3. \A d \in Registered' : peer'[d] \in DOMAIN miners' /\ miners'[peer'[d]] = d
    BY <1>5, <2>1, <2>2 DEF Cleanup
  <2>4. ASSUME NEW q \in DOMAIN miners'
        PROVE  miners'[q] \in Registered' /\ peer'[miners'[q]] = q
    <3>1. q \in DOMAIN miners /\ q # peer[c] /\ miners'[q] = miners[q] /\ peer' = peer
      BY <1>5 DEF Cleanup
    <3> QED
      BY <2>1, <3>1
  <2> QED
    BY <2>3, <2>4
<1>6. ASSUME NEW conf \in Configs, Reload(conf) PROVE RegistryIsSessions' /\ OwnAddress'
  BY <1>6 DEF Reload
<1>7. ASSUME NEW sessions \in closing, AbortSessions(sessions)
      PROVE  RegistryIsSessions' /\ OwnAddress'
  BY <1>7 DEF AbortSessions
<1> QED
  BY <1>1, <1>2, <1>3, <1>4, <1>5, <1>6, <1>7 DEF Next

\* While no address is used by two sessions at a time, the registry holds each
\* session that runs, under its own address, and none that is gone, whatever
\* is reloaded meanwhile (StatsManager, cleanup_session).
THEOREM RegistryHoldsSessions == SharedPeers = FALSE => (Spec => []RegistryIsSessions)
<1> SUFFICES ASSUME SharedPeers = FALSE PROVE Spec => []RegistryIsSessions
  OBVIOUS
<1>1. Init => RegistryIsSessions /\ OwnAddress
  BY DEF Init, RegistryIsSessions, Registered, Running, OwnAddress
<1>2. RegistryIsSessions /\ OwnAddress /\ TypeOK /\ [Next]_vars
          => RegistryIsSessions' /\ OwnAddress'
  BY NextRegistry DEF RInv
<1> QED
  BY <1>1, <1>2, ServerTypes, PTL DEF Spec
=============================================================================
