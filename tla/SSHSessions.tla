----------------------------- MODULE SSHSessions -----------------------------
(***************************************************************************)
(* SSHSessionStore of server/ssh_sessions.py: authenticated connections     *)
(* kept in memory, lent out by reference count, closed when they expire or *)
(* are deleted and nobody holds a lease, with the registry of secrets that *)
(* the log filter redacts (redaction.py).                                  *)
(*                                                                         *)
(* Every method body under the store's lock is one action.  The store      *)
(* compares time.time() with the expiry, while threading.Timer counts      *)
(* monotonic seconds: now is the monotonic clock, lag is how far the wall  *)
(* clock has been set back behind it.                                      *)
(***************************************************************************)
EXTENDS Integers, FiniteSets

CONSTANTS Sessions,    \* session ids, each created at most once
          Holders,     \* threads that take leases
          PasswordsOf, \* the password of each session, as a set: empty for key authentication
          Passwords,   \* passwords; two sessions may share one
          NoSession,
          Ttl,         \* ttl_seconds
          MaxTime,     \* bound: the clock stops here
          MaxLag       \* bound: how far the wall clock is ever set back

ASSUME SessionsFinite == IsFiniteSet(Sessions) /\ IsFiniteSet(Holders)
ASSUME PasswordsOfType == PasswordsOf \in [Sessions -> SUBSET Passwords]
ASSUME DistinctNames == NoSession \notin Sessions /\ Sessions \intersect Passwords = {}
ASSUME TimesType == Ttl \in Nat \ {0} /\ MaxTime \in Nat /\ MaxLag \in Nat

VARIABLES now,      \* monotonic seconds
          lag,      \* now - lag is time.time()
          sessions, \* the _Session objects, in the dictionary or not
          lease,    \* the session each holder has an unreleased lease on
          redacted  \* _LOG_SECRETS: how often each secret is registered

storeVars == <<now, lag, sessions, lease, redacted>>

-----------------------------------------------------------------------------
Secrets == Passwords \union Sessions
SecretsOf(s) == PasswordsOf[s] \union {s}
Clock == now - lag

Phases == {"new", "connecting", "connected", "listed", "dropped"}
SessionRecords == [phase: Phases, open: BOOLEAN, refs: Nat, revoked: BOOLEAN, expires: Int,
                   timer: {"off", "set", "fired"}, timerAt: Int, registered: SUBSET Secrets]

StoreTypeOK ==
    /\ now \in Nat
    /\ lag \in 0..MaxLag
    /\ sessions \in [Sessions -> SessionRecords]
    /\ lease \in [Holders -> Sessions \union {NoSession}]
    /\ redacted \in [Secrets -> Nat]

NewSession == [phase |-> "new", open |-> FALSE, refs |-> 0, revoked |-> FALSE, expires |-> 0,
               timer |-> "off", timerAt |-> 0, registered |-> {}]

StoreInit ==
    /\ now = 0 /\ lag = 0
    /\ sessions = [s \in Sessions |-> NewSession]
    /\ lease = [h \in Holders |-> NoSession]
    /\ redacted = [v \in Secrets |-> 0]

Registered(values) == [v \in Secrets |-> redacted[v] + IF v \in values THEN 1 ELSE 0]

UnregisteredAll(values) ==  \* mutant: the registration is dropped, not counted down
    [v \in Secrets |-> IF v \in values THEN 0 ELSE redacted[v]]

\* A counter never goes below zero: the entry is deleted at zero.
Unregistered(values) ==
    [v \in Secrets |-> IF v \in values /\ redacted[v] > 0 THEN redacted[v] - 1 ELSE redacted[v]]

Step(s, record) == sessions' = [sessions EXCEPT ![s] = record]

RetireAnyway(s, record) ==  \* mutant: the references are not looked at
    Step(s, [record EXCEPT !.open = FALSE, !.registered = {}])
    /\ redacted' = Unregistered(record.registered)

\* Close the connection and forget the secrets, unless a lease is out.
Retire(s, record) ==
    IF record.refs = 0
    THEN Step(s, [record EXCEPT !.open = FALSE, !.registered = {}])
         /\ redacted' = Unregistered(record.registered)
    ELSE Step(s, record) /\ UNCHANGED redacted

-----------------------------------------------------------------------------
\* create: the password is registered before the runner connects.
Connect(s) ==
    /\ sessions[s].phase = "new" /\ now + Ttl <= MaxTime
    /\ Step(s, [sessions[s] EXCEPT !.phase = "connecting", !.registered = PasswordsOf[s]])
    /\ redacted' = Registered(PasswordsOf[s])
    /\ UNCHANGED <<now, lag, lease>>

ConnectFailsKeepingSecret(s) ==  \* mutant: a failed connect keeps the password registered
    /\ sessions[s].phase = "connecting"
    /\ Step(s, [sessions[s] EXCEPT !.phase = "dropped", !.registered = {}])
    /\ UNCHANGED <<now, lag, lease, redacted>>

\* Refused, timed out or only partially authenticated.
ConnectFails(s) ==
    /\ sessions[s].phase = "connecting"
    /\ Step(s, [sessions[s] EXCEPT !.phase = "dropped", !.registered = {}])
    /\ redacted' = Unregistered(PasswordsOf[s])
    /\ UNCHANGED <<now, lag, lease>>

ConnectSucceeds(s) ==
    /\ sessions[s].phase = "connecting"
    /\ Step(s, [sessions[s] EXCEPT !.phase = "connected", !.open = TRUE, !.registered = SecretsOf(s),
                                   !.expires = Clock + Ttl])
    /\ redacted' = Registered({s})
    /\ UNCHANGED <<now, lag, lease>>

\* The session enters the dictionary and its timer starts, before anybody has its id.
Enlist(s) ==
    /\ sessions[s].phase = "connected"
    /\ Step(s, [sessions[s] EXCEPT !.phase = "listed", !.timer = "set", !.timerAt = now + Ttl])
    /\ UNCHANGED <<now, lag, lease, redacted>>

Listed(s) == sessions[s].phase = "listed" /\ ~sessions[s].revoked

HasExpired(s) == Clock >= sessions[s].expires

AcquireListed(h, s) ==  \* mutant: the expiry is not looked at
    /\ lease[h] = NoSession /\ Listed(s)
    /\ Step(s, [sessions[s] EXCEPT !.refs = @ + 1])
    /\ lease' = [lease EXCEPT ![h] = s]
    /\ UNCHANGED <<now, lag, redacted>>

Acquire(h, s) ==
    /\ lease[h] = NoSession /\ Listed(s) /\ ~HasExpired(s)
    /\ Step(s, [sessions[s] EXCEPT !.refs = @ + 1])
    /\ lease' = [lease EXCEPT ![h] = s]
    /\ UNCHANGED <<now, lag, redacted>>

\* acquire of an expired session retires it and raises.
AcquireExpired(s) ==
    /\ Listed(s) /\ HasExpired(s)
    /\ Retire(s, sessions[s])
    /\ UNCHANGED <<now, lag, lease>>

ReleaseUnlessExpired(h) ==  \* mutant: the release looks at the revocation only
    LET s == lease[h]
        record == [sessions[s] EXCEPT !.refs = @ - 1]
    IN  /\ s # NoSession
        /\ lease' = [lease EXCEPT ![h] = NoSession]
        /\ IF record.revoked THEN Retire(s, record) ELSE Step(s, record) /\ UNCHANGED redacted
        /\ UNCHANGED <<now, lag>>

\* The last release of a session nobody can acquire any more closes it.
Release(h) ==
    LET s == lease[h]
        record == [sessions[s] EXCEPT !.refs = @ - 1]
    IN  /\ s # NoSession
        /\ lease' = [lease EXCEPT ![h] = NoSession]
        /\ IF record.revoked \/ HasExpired(s) THEN Retire(s, record)
           ELSE Step(s, record) /\ UNCHANGED redacted
        /\ UNCHANGED <<now, lag>>

\* delete: the session leaves the dictionary at once, its connection when it may.
Delete(s) ==
    /\ sessions[s].phase = "listed"
    /\ Retire(s, [sessions[s] EXCEPT !.phase = "dropped", !.revoked = TRUE])
    /\ UNCHANGED <<now, lag, lease>>

\* The timer fires once.  A session not yet expired by the wall clock is left alone.
Expire(s) ==
    LET record == [sessions[s] EXCEPT !.timer = "fired"]
    IN  /\ sessions[s].timer = "set" /\ now >= sessions[s].timerAt
        /\ IF Listed(s) /\ HasExpired(s) THEN Retire(s, record)
           ELSE Step(s, record) /\ UNCHANGED redacted
        /\ UNCHANGED <<now, lag, lease>>

\* The bound on the clock leaves every session being opened room for its timer.
Tick ==
    /\ now < MaxTime
    /\ \A s \in Sessions : sessions[s].phase \in {"connecting", "connected"} => now + Ttl < MaxTime
    /\ now' = now + 1
    /\ UNCHANGED <<lag, sessions, lease, redacted>>

\* The user or the time service sets the wall clock back.
SetBack ==
    /\ lag < MaxLag
    /\ lag' = lag + 1
    /\ UNCHANGED <<now, sessions, lease, redacted>>

-----------------------------------------------------------------------------
\* The steps the server takes by itself once a session is being created.
Background ==
    \/ \E s \in Sessions : ConnectFails(s) \/ ConnectSucceeds(s) \/ Enlist(s) \/ Expire(s)
    \/ Tick

StoreNext ==
    \/ Background
    \/ \E s \in Sessions : Connect(s) \/ AcquireExpired(s) \/ Delete(s)
    \/ \E h \in Holders : Release(h) \/ \E s \in Sessions : Acquire(h, s)

\* The store under clients that call it in any order, while the wall clock runs on.
StoreSpec == StoreInit /\ [][StoreNext]_storeVars

\* The same when the wall clock may also be set back.
AnyClockSpec == StoreInit /\ [][StoreNext \/ SetBack]_storeVars

-----------------------------------------------------------------------------
LeasesOn(s) == {h \in Holders : lease[h] = s}

\* A lease keeps its connection open and its secrets redacted until it is
\* released, whatever expires or is deleted meanwhile.
LeaseKeepsConnection ==
    \A h \in Holders : lease[h] # NoSession =>
        /\ sessions[lease[h]].open
        /\ SecretsOf(lease[h]) \subseteq sessions[lease[h]].registered

\* Connections as their borrowers see them.
Connections ==
    INSTANCE LeasedConnections WITH
        open <- {s \in Sessions : sessions[s].open},
        opened <- {s \in Sessions : sessions[s].phase \in {"connected", "listed"}
                                        \/ sessions[s].timer # "off"},
        borrowed <- lease

\* The reference counts, the revocation, the expiry and the timer together keep
\* the promise of LeasedConnections: a connection opens once, is lent only while it
\* is open, and closes only when nobody has it.
ImplementsConnections == Connections!Spec

\* The log filter knows a secret exactly as long as some session still uses it,
\* also when two sessions share a password and one of them fails or closes.
RedactionBalanced ==
    \A v \in Secrets : redacted[v] = Cardinality({s \in Sessions : v \in sessions[s].registered})

=============================================================================
