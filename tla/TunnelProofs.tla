---------------------------- MODULE TunnelProofs ----------------------------
(***************************************************************************)
(* Tunnel for any number of pairings, reloads and troubles: how often a    *)
(* rejected connection is retried, and a refused credential asked for.     *)
(***************************************************************************)
EXTENDS Tunnel, TLAPS

\* Of the tries since the last pause, all but those of the immediate retry are over.
Tries ==
    /\ tries \in Nat /\ tries <= 2
    /\ at \in {"begin", "refresh", "connect"} => tries <= 1 /\ (~immediate => tries = 0)

\* Only a reload's permit ends a wait, and only one wait.
Asks ==
    /\ exits \in Nat /\ reloads \in Nat
    /\ exits <= reloads + 1
    /\ permit \/ at # "wait" => exits <= reloads
    /\ permit /\ at # "wait" => exits <= reloads - 1

LEMMA InitTries == Init => Tries
BY DEF Init, Tries

LEMMA InitAsks == Init => Asks
BY DEF Init, Asks

\* Steps of clients, reloads, servers and time aren't tries.
LEMMA Aside ==
    ASSUME \/ Login \/ Logout \/ LoadConfig \/ Install \/ Cancel \/ NotifyReloaded \/ Expire
           \/ \E s \in Servers : Fail(s) \/ Recover(s)
           \/ \E p \in 1..N : Revoke(p)
    PROVE  UNCHANGED <<at, immediate, tries, exits>>
BY DEF Login, Logout, LoadConfig, Install, Cancel, NotifyReloaded, Expire, Fail, Recover, Revoke,
       tunnel, history

\* They aren't reloads either, but for the end of one.
LEMMA Unasked ==
    ASSUME \/ Login \/ Logout \/ LoadConfig \/ Install \/ Cancel \/ Expire
           \/ \E s \in Servers : Fail(s) \/ Recover(s)
           \/ \E p \in 1..N : Revoke(p)
    PROVE  UNCHANGED <<permit, reloads>>
BY DEF Login, Logout, LoadConfig, Install, Cancel, Expire, Fail, Recover, Revoke, daemon, history

LEMMA StepTries ==
    ASSUME Tries, [Next]_vars
    PROVE  Tries'
<1> USE DEF Tries
<1>1. CASE \/ Login \/ Logout \/ LoadConfig \/ Install \/ Cancel \/ NotifyReloaded \/ Expire
           \/ \E s \in Servers : Fail(s) \/ Recover(s)
           \/ \E p \in 1..N : Revoke(p)
  BY <1>1, Aside
<1>2. CASE Supervise
  BY <1>2 DEF Supervise, TakeConfig, LoadCredentials, MakeTunnel, WaitForReload, history
<1>3. CASE Begin \/ Refresh \/ Refused \/ RefreshFails
  BY <1>3 DEF Begin, Refresh, Refused, RefreshFails, Offline, history
<1>4. CASE Connect \/ ConnectFails
  BY <1>4 DEF Connect, ConnectFails, Offline
<1>5. ASSUME NEW fresh \in BOOLEAN, Rejected(fresh)
      PROVE  Tries'
  BY <1>5 DEF Rejected, Offline
<1>6. CASE SessionCancelled \/ \E unauthorized \in BOOLEAN : SessionEnds(unauthorized)
  BY <1>6 DEF SessionCancelled, SessionEnds, Offline, history
<1>7. CASE Pause
  BY <1>7 DEF Pause
<1>8. CASE UNCHANGED vars
  BY <1>8 DEF vars, tunnel, history
<1>9. QED
  BY <1>1, <1>2, <1>3, <1>4, <1>5, <1>6, <1>7, <1>8 DEF Next, Reload, Run

LEMMA StepAsks ==
    ASSUME Asks, [Next]_vars
    PROVE  Asks'
<1> USE DEF Asks
<1>1. CASE \/ Login \/ Logout \/ LoadConfig \/ Install \/ Cancel \/ Expire
           \/ \E s \in Servers : Fail(s) \/ Recover(s)
           \/ \E p \in 1..N : Revoke(p)
  BY <1>1, Aside, Unasked
<1>2. CASE NotifyReloaded
  <2>1. permit' = TRUE /\ reloads' = reloads + 1
    BY <1>2 DEF NotifyReloaded
  <2>2. UNCHANGED <<at, exits>>
    BY <1>2, Aside
  <2>3. QED
    BY <2>1, <2>2
<1>3. CASE TakeConfig \/ LoadCredentials \/ MakeTunnel
  BY <1>3 DEF TakeConfig, LoadCredentials, MakeTunnel, daemon, history
<1>4. CASE WaitForReload
  BY <1>4 DEF WaitForReload, history
<1>5. CASE Refused
  BY <1>5 DEF Refused, daemon
<1>6. CASE Begin \/ Refresh \/ RefreshFails
  BY <1>6 DEF Begin, Refresh, RefreshFails, Offline, daemon, history
<1>7. CASE Connect \/ ConnectFails
  BY <1>7 DEF Connect, ConnectFails, Offline, daemon
<1>8. ASSUME NEW fresh \in BOOLEAN, Rejected(fresh)
      PROVE  Asks'
  BY <1>8 DEF Rejected, Offline, daemon
<1>9. CASE SessionCancelled \/ \E unauthorized \in BOOLEAN : SessionEnds(unauthorized)
  BY <1>9 DEF SessionCancelled, SessionEnds, Offline, daemon, history
<1>10. CASE Pause
  BY <1>10 DEF Pause, daemon
<1>11. CASE UNCHANGED vars
  BY <1>11 DEF vars, daemon, tunnel, history
<1>12. QED
  BY <1>1, <1>2, <1>3, <1>4, <1>5, <1>6, <1>7, <1>8, <1>9, <1>10, <1>11 DEF Next, Reload, Run, Supervise

-----------------------------------------------------------------------------
\* PROTOCOL.md 6.1: a rejected connection is retried once right away, and then
\* only after a pause, whatever reloads and revocations come in between.
THEOREM RetriesOnce == Spec => []TriesTwice
<1>1. Tries => TriesTwice
  BY DEF Tries, TriesTwice
<1>2. QED
  BY InitTries, StepTries, <1>1, PTL DEF Spec

\* PROTOCOL.md section 5: a daemon whose credential is refused stops, and asks
\* again at most once for every reload.
THEOREM StopsAsking == Spec => []AsksOnce
<1>1. Asks => AsksOnce
  BY DEF Asks, AsksOnce
<1>2. QED
  BY InitAsks, StepAsks, <1>1, PTL DEF Spec

-----------------------------------------------------------------------------
\* Which pairing the tunnel there is was made with.

\* Pairings are numbered; what the daemon knows is one that was made, or none.
Numbered ==
    /\ last \in 0..N /\ stored \in 0..N /\ config \in 0..N
    /\ stored \in {0, last} /\ config <= last
    /\ reload \in [at : {"idle", "loaded", "changed", "same"}, new : 0..N] /\ reload.new <= last
    /\ mine \in [server : 0..N, key : 0..N] /\ mine.server <= last /\ mine.key <= last

\* Clients send what they owe: once they have, the reload under way, or the
\* config it left, has the pairing that is stored.  A config that has the one
\* that is stored isn't replaced, and a tunnel's server is an earlier config's.
Followed ==
    /\ ~owes => IF reload.at = "loaded" THEN reload.new = stored ELSE config = stored
    /\ stored # 0 /\ config = stored /\ reload.at = "loaded" => reload.new = stored
    /\ stored # 0 /\ mine.server = stored => config = stored

\* The tunnel has proved its key to the server.
Live == at \in {"connect", "session"} \/ (token \in {TRUE} /\ at \in {"begin", "refresh", "pause"})

\* The end of a tunnel that's live is under way once its pairing is replaced.
Ending == cancelled \in {TRUE} \/ reload.at = "changed"

\* Where every pairing has a server of its own, by the config of its pairing.
OwnServer == Moves /\ Live =>
    mine.key = mine.server /\ mine.key # 0 /\ (Ending \/ config = mine.key)

\* Where changes wait for reloads, by the change that's seen in the config.
OwnTurn == ~Hasty =>
    /\ owes => reload.at = "idle" /\ config # stored
    /\ Live => Ending \/ stored = mine.key \/ config # stored

Current == Numbered /\ Followed /\ OwnServer /\ OwnTurn

LEMMA InitCurrent == Init => Current
  BY TunnelAssumption
  DEF Init, Current, Numbered, Followed, Live, Ending, OwnServer, OwnTurn, TunnelAssumption

LEMMA StepCurrent ==
    ASSUME Current, [Next]_vars
    PROVE  Current'
<1> USE TunnelAssumption DEF Current, TunnelAssumption
<1>1. CASE Login
  <2>1. /\ last < N /\ last' = last + 1 /\ stored' = last + 1 /\ owes' = TRUE
        /\ UNCHANGED <<config, reload, cancelled, at, mine, token>>
        /\ Hasty \/ (~owes /\ reload.at = "idle")
    BY <1>1 DEF Login, MayChange, daemon, tunnel
  <2>2. Numbered'
    BY <2>1 DEF Numbered
  <2>3. Followed'
    BY <2>1, <2>2 DEF Numbered, Followed
  <2>4. OwnServer'
    BY <2>1 DEF OwnServer, Live, Ending
  <2>5. config # stored'
    BY <2>1 DEF Numbered
  <2>6. OwnTurn'
    BY <2>1, <2>5 DEF OwnTurn
  <2> QED
    BY <2>2, <2>3, <2>4, <2>6
<1>2. CASE Logout
  <2>1. /\ stored # 0 /\ stored' = 0 /\ owes' = TRUE
        /\ UNCHANGED <<last, config, reload, cancelled, at, mine, token>>
        /\ Hasty \/ (~owes /\ reload.at = "idle")
    BY <1>2 DEF Logout, MayChange, daemon, tunnel
  <2>2. Numbered'
    BY <2>1 DEF Numbered
  <2>3. Followed'
    BY <2>1 DEF Followed
  <2>4. OwnServer'
    BY <2>1 DEF OwnServer, Live, Ending
  <2>5. OwnTurn'
    BY <2>1 DEF OwnTurn, Live, Ending, Followed
  <2> QED
    BY <2>2, <2>3, <2>4, <2>5
<1>3. CASE LoadConfig
  <2>1. /\ reload.at = "idle" /\ reload' = [at |-> "loaded", new |-> stored] /\ owes' = FALSE
        /\ UNCHANGED <<stored, last, config, cancelled, at, mine, token>>
    BY <1>3 DEF LoadConfig, tunnel
  <2>2. Numbered'
    BY <2>1 DEF Numbered
  <2>3. Followed' /\ OwnServer' /\ OwnTurn'
    BY <2>1 DEF Followed, OwnServer, OwnTurn, Live, Ending
  <2> QED
    BY <2>2, <2>3
<1>4. CASE Install
  <2>1. /\ reload.at = "loaded" /\ config' = reload.new
        /\ reload' = [reload EXCEPT !.at = IF reload.new # config THEN "changed" ELSE "same"]
        /\ UNCHANGED <<stored, last, owes, cancelled, at, mine, token>>
    BY <1>4 DEF Install, pairings, tunnel
  <2>2. Numbered' /\ reload'.new = reload.new
        /\ reload'.at = IF reload.new # config THEN "changed" ELSE "same"
    BY <2>1 DEF Numbered
  <2>3. Followed'
    BY <2>1, <2>2 DEF Followed
  <2>4. OwnServer'
    BY <2>1, <2>2 DEF OwnServer, Live, Ending
  <2>5. OwnTurn'
    BY <2>1, <2>2 DEF OwnTurn, Live, Ending, Followed
  <2> QED
    BY <2>2, <2>3, <2>4, <2>5
<1>5. CASE Cancel
  <2>1. /\ reload' = [reload EXCEPT !.at = "same"] /\ reload.at = "changed" /\ cancelled' = TRUE
        /\ UNCHANGED <<stored, last, owes, config, at, mine, token>>
    BY <1>5 DEF Cancel, pairings, tunnel
  <2>2. Numbered' /\ reload'.at = "same"
    BY <2>1 DEF Numbered
  <2>3. Followed' /\ OwnServer' /\ OwnTurn'
    BY <2>1, <2>2 DEF Followed, OwnServer, OwnTurn, Live, Ending
  <2> QED
    BY <2>2, <2>3
<1>6. CASE NotifyReloaded
  <2>1. /\ reload' = [at |-> "idle", new |-> 0] /\ reload.at = "same"
        /\ UNCHANGED <<stored, last, owes, config, cancelled, at, mine, token>>
    BY <1>6 DEF NotifyReloaded, pairings, tunnel
  <2>2. Numbered'
    BY <2>1 DEF Numbered
  <2>3. Followed' /\ OwnServer' /\ OwnTurn'
    BY <2>1 DEF Followed, OwnServer, OwnTurn, Live, Ending
  <2> QED
    BY <2>2, <2>3
<1>7. ASSUME UNCHANGED <<stored, last, owes, config, reload>>, Numbered', ~Live',
             stored # 0 /\ mine'.server = stored => config = stored
      PROVE  Current'
  BY <1>7 DEF Followed, OwnServer, OwnTurn
<1>8. CASE Supervise
  <2>1. UNCHANGED <<stored, last, owes, config, reload>> /\ ~Live'
    BY <1>8 DEF Supervise, TakeConfig, LoadCredentials, MakeTunnel, WaitForReload, pairings, daemon, Live
  <2>2. Numbered'
    BY <1>8, <2>1 DEF Supervise, TakeConfig, LoadCredentials, MakeTunnel, WaitForReload, Numbered
  <2>3. stored # 0 /\ mine'.server = stored => config = stored
    <3>1. CASE TakeConfig
      BY <3>1 DEF TakeConfig
    <3>2. CASE LoadCredentials
      BY <3>2 DEF LoadCredentials, Numbered, Followed
    <3>3. CASE MakeTunnel \/ WaitForReload
      BY <3>3 DEF MakeTunnel, WaitForReload, Followed
    <3> QED
      BY <1>8, <3>1, <3>2, <3>3 DEF Supervise
  <2> QED
    BY <1>7, <2>1, <2>2, <2>3
<1>9. ASSUME UNCHANGED <<stored, last, owes, config, reload, cancelled, mine>>, Live' => Live
      PROVE  Current'
  BY <1>9 DEF Numbered, Followed, OwnServer, OwnTurn, Ending
<1>10. CASE Refresh
  <2>1. /\ UNCHANGED <<stored, last, owes, config, reload, cancelled, mine>>
        /\ at = "refresh"
        /\ token \in {TRUE} \/ (stored # 0 /\ stored = mine.key /\ Server(stored) = Server(mine.server))
    BY <1>10 DEF Refresh, Granted, pairings, daemon
  <2>2. CASE token \in {TRUE}
    BY <1>9, <2>1, <2>2 DEF Live
  <2>3. CASE stored # 0 /\ stored = mine.key /\ Server(stored) = Server(mine.server)
    <3>1. Numbered' /\ Followed'
      BY <2>1 DEF Numbered, Followed
    <3>2. OwnServer'
      <4>1. Moves => mine.server = stored /\ config = stored
        BY <2>3 DEF Server, Followed
      <4> QED
        BY <2>1, <2>3, <4>1 DEF OwnServer, Ending
    <3>3. OwnTurn'
      BY <2>1, <2>3 DEF OwnTurn, Ending
    <3> QED
      BY <3>1, <3>2, <3>3
  <2> QED
    BY <2>1, <2>2, <2>3
<1>11. CASE Begin \/ Refused \/ RefreshFails
  <2>1. UNCHANGED <<stored, last, owes, config, reload, cancelled, mine>> /\ (Live' => Live)
    BY <1>11 DEF Begin, Refused, RefreshFails, Offline, pairings, daemon, Live
  <2> QED
    BY <1>9, <2>1
<1>12. CASE Connect \/ ConnectFails \/ SessionCancelled \/ Pause
  <2>1. UNCHANGED <<stored, last, owes, config, reload, cancelled, mine>> /\ (Live' => Live)
    BY <1>12 DEF Connect, ConnectFails, SessionCancelled, Pause, Offline, pairings, daemon, Live
  <2> QED
    BY <1>9, <2>1
<1>13. ASSUME NEW fresh \in BOOLEAN, Rejected(fresh) PROVE Current'
  <2>1. UNCHANGED <<stored, last, owes, config, reload, cancelled, mine>> /\ (Live' => Live)
    BY <1>13 DEF Rejected, Offline, pairings, daemon, Live
  <2> QED
    BY <1>9, <2>1
<1>14. ASSUME NEW unauthorized \in BOOLEAN, SessionEnds(unauthorized) PROVE Current'
  <2>1. UNCHANGED <<stored, last, owes, config, reload, cancelled, mine>> /\ (Live' => Live)
    BY <1>14 DEF SessionEnds, Offline, pairings, daemon, Live
  <2> QED
    BY <1>9, <2>1
<1>15. CASE Expire \/ (\E s \in Servers : Fail(s) \/ Recover(s)) \/ (\E p \in 1..N : Revoke(p))
            \/ UNCHANGED vars
  <2>1. UNCHANGED <<stored, last, owes, config, reload, cancelled, mine>> /\ (Live' => Live)
    BY <1>15 DEF Expire, Fail, Recover, Revoke, vars, pairings, daemon, tunnel, Live
  <2> QED
    BY <1>9, <2>1
<1> QED
  BY <1>1, <1>2, <1>3, <1>4, <1>5, <1>6, <1>8, <1>10, <1>11, <1>12, <1>13, <1>14, <1>15
  DEF Next, Reload, Run

\* The rest of the types.
Flags ==
    /\ owes \in BOOLEAN /\ cancelled \in BOOLEAN /\ permit \in BOOLEAN
    /\ token \in BOOLEAN /\ nonce \in BOOLEAN /\ immediate \in BOOLEAN
Placed ==
    /\ at \in {"load", "read", "wait"} \cup Running
    /\ at \in Running => mine.server # 0 /\ mine.key # 0
    /\ status \in {"not_paired", "connecting", "connected", "offline", "revoked"}
Served == up \in [Servers -> BOOLEAN] /\ revoked \subseteq 1..N /\ trouble \in 0..MaxTrouble
Counted == tries \in Nat /\ exits \in Nat /\ extra \in 0..MaxReloads /\ reloads \in Nat

LEMMA StepTypes ==
    ASSUME Numbered, Flags, Placed, Served, Counted, [Next]_vars
    PROVE  Flags' /\ Placed' /\ Served' /\ Counted'
<1> USE TunnelAssumption DEF TunnelAssumption
<1>0. Falters /\ Served => trouble' \in 0..MaxTrouble
  BY DEF Falters, Served
<1>1. CASE Login \/ Logout \/ LoadConfig \/ Install \/ Cancel \/ NotifyReloaded
  <2>1. Flags'
    BY <1>1 DEF Flags, Login, Logout, LoadConfig, Install, Cancel, NotifyReloaded, pairings, daemon, tunnel
  <2>2. UNCHANGED <<at, mine, status, up, revoked, trouble>>
    BY <1>1 DEF Login, Logout, LoadConfig, Install, Cancel, NotifyReloaded, tunnel, servers
  <2>3. Counted'
    BY <1>1 DEF Login, Logout, LoadConfig, Install, Cancel, NotifyReloaded, history, Counted
  <2> QED
    BY <2>1, <2>2, <2>3 DEF Placed, Served
<1>2. CASE Supervise
  <2>1. Flags'
    BY <1>2 DEF Flags, Supervise, TakeConfig, LoadCredentials, MakeTunnel, WaitForReload, pairings, daemon
  <2>2. Placed'
    BY <1>2 DEF Placed, Running, Numbered, Supervise, TakeConfig, LoadCredentials, MakeTunnel, WaitForReload
  <2>3. Served' /\ Counted'
    BY <1>2 DEF Supervise, TakeConfig, LoadCredentials, MakeTunnel, WaitForReload, servers, history,
                Served, Counted
  <2> QED
    BY <2>1, <2>2, <2>3
<1>3. CASE Run
  <2>1. ASSUME NEW fresh \in BOOLEAN, Rejected(fresh)
        PROVE  Flags' /\ Placed' /\ Served' /\ Counted'
    <3>1. Flags'
      BY <2>1 DEF Rejected, Offline, Flags, pairings, daemon
    <3>2. Placed'
      BY <2>1 DEF Rejected, Offline, Placed, Running
    <3>3. Served' /\ Counted'
      BY <2>1 DEF Rejected, Rejects, Served, Counted
    <3> QED
      BY <3>1, <3>2, <3>3
  <2>2. CASE Begin \/ Refresh \/ Refused \/ RefreshFails
    <3>1. Flags'
      BY <2>2 DEF Begin, Refresh, Refused, RefreshFails, Offline, Flags, pairings, daemon
    <3>2. Placed'
      BY <2>2 DEF Begin, Refresh, Refused, RefreshFails, Offline, Placed, Running
    <3>3. Served'
      BY <1>0, <2>2 DEF Begin, Refresh, Refused, RefreshFails, servers, Served
    <3>4. Counted'
      BY <2>2 DEF Begin, Refresh, Refused, RefreshFails, history, Counted
    <3> QED
      BY <3>1, <3>2, <3>3, <3>4
  <2>3. CASE Connect \/ ConnectFails \/ SessionCancelled \/ Pause
    <3>1. Flags'
      BY <2>3 DEF Connect, ConnectFails, SessionCancelled, Pause, Offline, Flags, pairings, daemon
    <3>2. Placed'
      BY <2>3 DEF Connect, ConnectFails, SessionCancelled, Pause, Offline, Placed, Running
    <3>3. Served'
      BY <1>0, <2>3 DEF Connect, ConnectFails, SessionCancelled, Pause, servers, Served
    <3>4. Counted'
      BY <2>3 DEF Connect, ConnectFails, SessionCancelled, Pause, history, Counted
    <3> QED
      BY <3>1, <3>2, <3>3, <3>4
  <2> QED
    BY <1>3, <2>1, <2>2, <2>3 DEF Run
<1>4. ASSUME NEW unauthorized \in BOOLEAN, SessionEnds(unauthorized)
      PROVE  Flags' /\ Placed' /\ Served' /\ Counted'
  <2>1. Flags'
    BY <1>4 DEF SessionEnds, Offline, Flags, pairings, daemon
  <2>2. Placed'
    BY <1>4 DEF SessionEnds, Offline, Placed, Running
  <2>3. Served' /\ Counted'
    BY <1>4 DEF SessionEnds, history, Served, Counted
  <2> QED
    BY <2>1, <2>2, <2>3
<1>5. CASE Expire
  BY <1>5 DEF Expire, Flags, Placed, Served, Counted, pairings, daemon, servers, history
<1>6. ASSUME NEW s \in Servers, Fail(s) \/ Recover(s)
      PROVE  Flags' /\ Placed' /\ Served' /\ Counted'
  <2>1. Served'
    <3>1. CASE Fail(s)
      BY <3>1 DEF Fail, Served
    <3>2. CASE Recover(s)
      BY <3>2 DEF Recover, Served
    <3> QED
      BY <1>6, <3>1, <3>2
  <2> QED
    BY <1>6, <2>1 DEF Fail, Recover, Flags, Placed, Counted, pairings, daemon, tunnel, history
<1>7. ASSUME NEW p \in 1..N, Revoke(p)
      PROVE  Flags' /\ Placed' /\ Served' /\ Counted'
  <2>1. Served'
    BY <1>7 DEF Revoke, Served
  <2> QED
    BY <1>7, <2>1 DEF Revoke, Flags, Placed, Counted, pairings, daemon, tunnel, history
<1>8. CASE UNCHANGED vars
  BY <1>8 DEF vars, pairings, daemon, tunnel, servers, history, Flags, Placed, Served, Counted
<1> QED
  BY <1>1, <1>2, <1>3, <1>4, <1>5, <1>6, <1>7, <1>8 DEF Next, Reload

\* The types of clients, reload, tunnel and servers.
THEOREM TypeCorrect == Spec => []TypeOK
<1> DEFINE Types == Flags /\ Placed /\ Served /\ Counted
<1>1. Init => Types
  <2> SUFFICES ASSUME Init PROVE Types
    OBVIOUS
  <2> USE TunnelAssumption DEF TunnelAssumption
  <2>1. Flags /\ Placed
    BY DEF Init, Flags, Placed, Running
  <2>2. Served /\ Counted
    BY DEF Init, Served, Counted
  <2> QED
    BY <2>1, <2>2
<1>2. Current /\ Types /\ [Next]_vars => Types'
  BY StepTypes DEF Current
<1>3. Current /\ Types => TypeOK
  BY DEF Current, Numbered, Flags, Placed, Served, Counted, TypeOK
<1> HIDE DEF Types
<1> QED
  BY InitCurrent, StepCurrent, <1>1, <1>2, <1>3, PTL DEF Spec

\* A session goes with the pairing there is (reload's end and supervise), where
\* pairings have servers of their own, or changes wait for the reload of the last.
THEOREM CurrentSession == Spec => []SessionIsCurrent
<1>1. Current => SessionIsCurrent
  BY DEF Current, Followed, OwnServer, OwnTurn, Live, Ending, SessionIsCurrent
<1> QED
  BY InitCurrent, StepCurrent, <1>1, PTL DEF Spec
=============================================================================
