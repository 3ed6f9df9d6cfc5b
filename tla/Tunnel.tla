------------------------------- MODULE Tunnel -------------------------------
(***************************************************************************)
(* Which pairing the daemon is connected with: src/daemon.rs (supervise,   *)
(* wait_for_reload, and reload's end), src/tunnel/mod.rs (run, connect),   *)
(* src/auth/tokens.rs (access_token, invalidate).                          *)
(*                                                                         *)
(* Pairings are numbered as they are made (Pairing says how); pairing p    *)
(* has a key and a refresh credential p. Settings has reload's other       *)
(* steps, Runs and ChatHub what ends with a session.                       *)
(***************************************************************************)
EXTENDS Integers

CONSTANTS
    N,            \* bound: pairings made
    Moves,        \* does each have a server of its own
    Gone,         \* servers that may stay unreachable
    Hasty,        \* do clients change it again before the last change is reloaded
    MaxReloads,   \* bound: reloads nobody's pairing asked for
    MaxTrouble    \* bound: what the servers do amiss

ASSUME TunnelAssumption ==
    /\ {N, MaxReloads, MaxTrouble} \subseteq Nat /\ {Moves, Hasty} \subseteq BOOLEAN /\ Gone \subseteq 1..N

VARIABLES
    stored,      \* the pairing in config.toml and the secret store, 0 for none
    last,        \* the last one made
    owes,        \* a client that changed it, and has yet to send `reload`
    config,      \* the pairing in Daemon::config
    reload,      \* the reload under way: where it is, what it loaded
    cancelled,   \* is Daemon::tunnel_token
    permit,      \* does Daemon::reloaded hold one
    at,          \* where supervise and run are
    mine,        \* the credentials the tunnel was made with
    status,      \* SharedStatus
    token,       \* do Tokens hold a live access token
    nonce,       \* has AuthClient a nonce the server takes
    immediate,   \* run's immediate_retry
    up, revoked, trouble,         \* the servers
    tries, exits, extra, reloads  \* history: connects since the last pause, exits
                                  \* for a revoked pairing, reloads

pairings == <<stored, last, owes>>
daemon == <<config, reload, cancelled, permit>>
tunnel == <<at, mine, status, token, nonce, immediate>>
servers == <<up, revoked, trouble>>
history == <<tries, exits, extra, reloads>>
vars == <<pairings, daemon, tunnel, servers, history>>

Server(p) == IF Moves THEN p ELSE 1
Servers == {Server(p) : p \in 1..N}
Running == {"loaded", "begin", "refresh", "connect", "session", "pause"}

TypeOK ==
    /\ stored \in 0..N /\ last \in 0..N /\ config \in 0..N
    /\ owes \in BOOLEAN /\ cancelled \in BOOLEAN /\ permit \in BOOLEAN
    /\ token \in BOOLEAN /\ nonce \in BOOLEAN /\ immediate \in BOOLEAN
    /\ reload \in [at : {"idle", "loaded", "changed", "same"}, new : 0..N]
    /\ at \in {"load", "read", "wait"} \cup Running
    /\ mine \in [server : 0..N, key : 0..N]
    /\ at \in Running => mine.server # 0 /\ mine.key # 0
    /\ status \in {"not_paired", "connecting", "connected", "offline", "revoked"}
    /\ up \in [Servers -> BOOLEAN] /\ revoked \subseteq 1..N /\ trouble \in 0..MaxTrouble
    /\ tries \in Nat /\ exits \in Nat /\ extra \in 0..MaxReloads /\ reloads \in Nat

Init ==
    /\ stored \in {0, 1} \cap 0..N /\ last = stored /\ config = stored /\ owes = FALSE
    /\ reload = [at |-> "idle", new |-> 0] /\ cancelled = FALSE /\ permit = FALSE
    /\ at = "load" /\ mine = [server |-> 0, key |-> 0] /\ status = "not_paired"
    /\ token = FALSE /\ nonce = FALSE /\ immediate = FALSE
    /\ up = [s \in Servers |-> TRUE] /\ revoked = {} /\ trouble = MaxTrouble
    /\ tries = 0 /\ exits = 0 /\ extra = 0 /\ reloads = 0

-----------------------------------------------------------------------------
\* The clients, which pair and log out on their own side (CONTROL.md, Pairing).

MayChange == Hasty \/ (~owes /\ reload.at = "idle")

Login ==
    /\ MayChange
    /\ last < N /\ last' = last + 1 /\ stored' = last + 1 /\ owes' = TRUE
    /\ UNCHANGED <<daemon, tunnel, servers, history>>

Logout ==
    /\ MayChange
    /\ stored # 0 /\ stored' = 0 /\ owes' = TRUE
    /\ UNCHANGED <<last, daemon, tunnel, servers, history>>

-----------------------------------------------------------------------------
\* reload, one at a time: Settings has more at once.

LoadConfig ==
    /\ reload.at = "idle" /\ reload' = [at |-> "loaded", new |-> stored]
    /\ owes \/ extra < MaxReloads
    /\ owes' = FALSE /\ extra' = IF owes THEN extra ELSE extra + 1
    /\ UNCHANGED <<stored, last, config, cancelled, permit, tunnel, servers, tries, exits, reloads>>

Install ==
    /\ reload.at = "loaded" /\ config' = reload.new
    /\ reload' = [reload EXCEPT !.at = IF reload.new # config THEN "changed" ELSE "same"]
    /\ UNCHANGED <<pairings, cancelled, permit, tunnel, servers, history>>

\* A mistake SessionIsCurrent rules out: only a logout ends the tunnel there is.
CancelForLogout ==
    /\ reload.at = "changed" /\ reload' = [reload EXCEPT !.at = "same"]
    /\ cancelled' = (cancelled \/ reload.new = 0)
    /\ UNCHANGED <<pairings, config, permit, tunnel, servers, history>>

Cancel ==
    /\ reload.at = "changed" /\ reload' = [reload EXCEPT !.at = "same"]
    /\ cancelled' = TRUE
    /\ UNCHANGED <<pairings, config, permit, tunnel, servers, history>>

NotifyReloaded ==
    /\ reload.at = "same" /\ reload' = [at |-> "idle", new |-> 0]
    /\ permit' = TRUE /\ reloads' = reloads + 1
    /\ UNCHANGED <<pairings, config, cancelled, tunnel, servers, tries, exits, extra>>

-----------------------------------------------------------------------------
\* supervise.

TakeConfig ==
    /\ at = "load" /\ at' = "read"
    /\ mine' = [server |-> config, key |-> 0]
    /\ UNCHANGED <<pairings, daemon, status, token, nonce, immediate, servers, history>>

\* load_credentials, with the config taken before.
LoadCredentials ==
    LET paired == mine.server # 0 /\ stored # 0 IN
    /\ at = "read"
    /\ mine' = [mine EXCEPT !.key = stored]
    /\ IF paired THEN at' = "loaded" /\ UNCHANGED status
                 ELSE at' = "wait" /\ status' = "not_paired"
    /\ UNCHANGED <<pairings, daemon, token, nonce, immediate, servers, history>>

\* The token reload cancels is only now the new tunnel's.
MakeTunnel ==
    /\ at = "loaded" /\ at' = "begin"
    /\ cancelled' = FALSE /\ token' = FALSE /\ nonce' = FALSE /\ immediate' = FALSE
    /\ tries' = 0
    /\ UNCHANGED <<pairings, config, reload, permit, mine, status, servers, exits, extra, reloads>>

WaitForReload ==
    /\ at = "wait" /\ permit /\ permit' = FALSE /\ at' = "load"
    /\ UNCHANGED <<pairings, config, reload, cancelled, mine, status, token, nonce, immediate,
                   servers, history>>

-----------------------------------------------------------------------------
\* run.

Begin ==
    /\ at = "begin"
    /\ IF cancelled THEN at' = "load" /\ UNCHANGED status
                    ELSE at' = "refresh" /\ status' = "connecting"
    /\ UNCHANGED <<pairings, daemon, mine, token, nonce, immediate, servers, history>>

Reached == up[Server(mine.server)]

\* Would the server take the stored refresh credential from this tunnel's key?
Granted == stored = mine.key /\ Server(stored) = Server(mine.server) /\ stored \notin revoked

Offline == at' = "pause" /\ status' = "offline" /\ immediate' = FALSE

\* access_token: the one there is, or a new one.
Refresh ==
    /\ at = "refresh" /\ (token \/ (stored # 0 /\ Reached /\ Granted))
    /\ token' = TRUE /\ at' = "connect"
    /\ UNCHANGED <<pairings, daemon, mine, status, nonce, immediate, servers, history>>

\* A mistake AsksOnce rules out: a refused credential is tried again later.
RefusedAgain ==
    /\ at = "refresh" /\ ~token /\ (stored = 0 \/ (Reached /\ ~Granted))
    /\ exits' = exits + 1 /\ Offline
    /\ UNCHANGED <<pairings, daemon, mine, token, nonce, servers, tries, extra, reloads>>

\* No refresh credential, or one the server refuses.
Refused ==
    /\ at = "refresh" /\ ~token /\ (stored = 0 \/ (Reached /\ ~Granted))
    /\ at' = "wait" /\ status' = "revoked" /\ exits' = exits + 1
    /\ UNCHANGED <<pairings, daemon, mine, token, nonce, immediate, servers, tries, extra, reloads>>

\* Out of reach, or an answer that is an error.
Falters ==
    \/ ~Reached /\ UNCHANGED trouble
    \/ trouble > 0 /\ trouble' = trouble - 1

RefreshFails ==
    /\ at = "refresh" /\ ~token /\ stored # 0 /\ Falters /\ Offline
    /\ UNCHANGED <<pairings, daemon, mine, token, nonce, up, revoked, history>>

Connect ==
    /\ at = "connect" /\ Reached /\ mine.key \notin revoked
    /\ at' = "session" /\ status' = "connected" /\ tries' = tries + 1
    /\ UNCHANGED <<pairings, daemon, mine, token, nonce, immediate, servers, exits, extra, reloads>>

\* A server may ask for a nonce, must reject a revoked computer, and may reject
\* one for nothing.
Rejects(fresh) ==
    \/ fresh /\ ~nonce /\ UNCHANGED trouble
    \/ mine.key \in revoked /\ UNCHANGED trouble
    \/ trouble > 0 /\ trouble' = trouble - 1

\* A mistake TriesTwice rules out: every new nonce is tried right away.
RejectedForNonce(fresh) ==
    /\ at = "connect" /\ Reached /\ Rejects(fresh) /\ tries' = tries + 1
    /\ nonce' = fresh /\ token' = (token /\ fresh)
    /\ IF fresh \/ ~immediate THEN at' = "begin" /\ immediate' = TRUE /\ status' = "offline" ELSE Offline
    /\ UNCHANGED <<pairings, daemon, mine, up, revoked, exits, extra, reloads>>

\* A mistake Settles rules out: a token the server rejects is kept as long as it
\* hasn't expired, and no nonce is.
RejectedKept(fresh) ==
    /\ at = "connect" /\ Reached /\ Rejects(fresh) /\ tries' = tries + 1
    /\ UNCHANGED <<nonce, token>>
    /\ IF ~immediate THEN at' = "begin" /\ immediate' = TRUE /\ status' = "offline" ELSE Offline
    /\ UNCHANGED <<pairings, daemon, mine, up, revoked, exits, extra, reloads>>

\* 401 or 403, with a new nonce or without.
Rejected(fresh) ==
    /\ at = "connect" /\ Reached /\ Rejects(fresh) /\ tries' = tries + 1
    /\ nonce' = fresh /\ token' = (token /\ fresh)
    /\ IF ~immediate THEN at' = "begin" /\ immediate' = TRUE /\ status' = "offline" ELSE Offline
    /\ UNCHANGED <<pairings, daemon, mine, up, revoked, exits, extra, reloads>>

ConnectFails ==
    /\ at = "connect" /\ Falters /\ Offline /\ tries' = tries + 1
    /\ UNCHANGED <<pairings, daemon, mine, token, nonce, up, revoked, exits, extra, reloads>>

\* run_session sees its token cancelled: TunnelExit::Shutdown.
SessionCancelled ==
    /\ at = "session" /\ cancelled /\ at' = "load"
    /\ UNCHANGED <<pairings, daemon, mine, status, token, nonce, immediate, servers, history>>

\* The server closes a revoked computer's session and any other when it likes;
\* one that is gone is an idle timeout. Told to, the tunnel forgets its token.
SessionEnds(unauthorized) ==
    /\ at = "session" /\ Offline
    /\ \/ ~Reached /\ ~unauthorized /\ UNCHANGED trouble
       \/ Reached /\ mine.key \in revoked /\ unauthorized /\ UNCHANGED trouble
       \/ Reached /\ trouble > 0 /\ trouble' = trouble - 1
    /\ token' = (token /\ ~unauthorized)
    /\ UNCHANGED <<pairings, daemon, mine, nonce, up, revoked, history>>

Pause ==
    /\ at = "pause" /\ at' = IF cancelled THEN "load" ELSE "begin"
    /\ tries' = 0
    /\ UNCHANGED <<pairings, daemon, mine, status, token, nonce, immediate, servers, exits, extra, reloads>>

-----------------------------------------------------------------------------
\* Time, and the servers.

Expire ==
    /\ token /\ token' = FALSE
    /\ UNCHANGED <<pairings, daemon, at, mine, status, nonce, immediate, servers, history>>

Fail(s) ==
    /\ up[s] /\ trouble > 0 /\ trouble' = trouble - 1 /\ up' = [up EXCEPT ![s] = FALSE]
    /\ UNCHANGED <<pairings, daemon, tunnel, revoked, history>>

Recover(s) ==
    /\ ~up[s] /\ up' = [up EXCEPT ![s] = TRUE]
    /\ UNCHANGED <<pairings, daemon, tunnel, revoked, trouble, history>>

Revoke(p) ==
    /\ p \in 1..last \ revoked /\ trouble > 0 /\ trouble' = trouble - 1
    /\ revoked' = revoked \cup {p}
    /\ UNCHANGED <<pairings, daemon, tunnel, up, history>>

-----------------------------------------------------------------------------
Reload == (owes /\ LoadConfig) \/ Install \/ Cancel \/ NotifyReloaded

Supervise == TakeConfig \/ LoadCredentials \/ MakeTunnel \/ WaitForReload

Run ==
    \/ Begin \/ Refresh \/ Refused \/ RefreshFails
    \/ Connect \/ ConnectFails \/ \E fresh \in BOOLEAN : Rejected(fresh)
    \/ SessionCancelled \/ Pause

Next ==
    \/ Login \/ Logout \/ LoadConfig \/ Reload \/ Supervise \/ Run \/ Expire
    \/ \E unauthorized \in BOOLEAN : SessionEnds(unauthorized)
    \/ \E s \in Servers : Fail(s) \/ Recover(s)
    \/ \E p \in 1..N : Revoke(p)

\* Clients send the reload they owe, tasks run, tokens expire, a dead or revoked
\* session ends, a server that isn't gone comes back, and one that takes the
\* nonce it gave doesn't reject for ever.
Fairness ==
    /\ WF_vars(Reload) /\ WF_vars(Supervise) /\ WF_vars(Run) /\ WF_vars(Expire)
    /\ WF_vars(at = "session" /\ ~Reached /\ SessionEnds(FALSE))
    /\ WF_vars(mine.key \in revoked /\ SessionEnds(TRUE))
    /\ \A s \in Servers \ Gone : WF_vars(Recover(s))

Spec == Init /\ [][Next]_vars /\ Fairness

-----------------------------------------------------------------------------
\* PROTOCOL.md 6.1: a rejected connection is retried "once right away", and then
\* only after a pause.
TriesTwice == tries <= 2

\* PROTOCOL.md section 5: a daemon whose credential is refused "stops
\* reconnecting": it asks again at most once for every reload.
AsksOnce == exits <= reloads + 1

\* A session goes with the pairing there is, unless it is about to end or the
\* client's reload is still to come.  Not so for clients that log in and out
\* again before the reload of the last change is over, on one server: a reload
\* that finds config.toml as it was at the one before ends no tunnel, also not
\* one that was made with what was stored in between.
SessionIsCurrent ==
    /\ Moves \/ ~Hasty
    /\ at = "session" /\ ~cancelled /\ reload.at = "idle" /\ ~owes
    => mine.key = stored

\* CONTROL.md:139: "The daemon connects after the `reload`": once nothing changes
\* any more, the status is what the pairing there is deserves.
Right ==
    CASE stored = 0 -> status = "not_paired"
      [] stored # 0 /\ ~up[Server(stored)] -> TRUE
      [] stored \in revoked /\ up[Server(stored)] -> status = "revoked"
      [] OTHER -> at = "session" /\ mine.key = stored
Settles == <>[]Right
=============================================================================
