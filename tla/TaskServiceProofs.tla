-------------------------- MODULE TaskServiceProofs --------------------------
(***************************************************************************)
(* What holds of the session store and of the task service that drives it. *)
(*                                                                         *)
(* The store, for every number of sessions, holders and passwords, every    *)
(* time to live and every bound on the clock: the reference counts count    *)
(* the leases, the redaction registry counts the sessions that use each     *)
(* secret, and, while the wall clock is not set back, a lease keeps its     *)
(* connection.                                                             *)
(*                                                                         *)
(* The service, for every number of requests besides: the shared runner     *)
(* serves the task that has the slot, a cancel is honoured, the status is   *)
(* final and the result file agrees with it, and a file task's own          *)
(* connection is closed when the task is over.  The service drives the      *)
(* store through the store's operations only, so what is proved of the      *)
(* store under any clock holds inside the service.                          *)
(***************************************************************************)
EXTENDS TaskService, FiniteSetTheorems, TLAPS

(* ---- The session store ---- *)

-----------------------------------------------------------------------------
(* The inductive invariants.                                               *)

Users(v) == {s \in Sessions : v \in sessions[s].registered}

\* A reference is a lease, and a lease a reference.
RefsCounted == \A s \in Sessions : sessions[s].refs = Cardinality(LeasesOn(s))

\* Before it is listed nobody leases a session and its timer is off.
Unlisted == {"new", "connecting", "connected"}

EarlySecrets ==
    \A s \in Sessions :
        /\ sessions[s].phase = "new" => sessions[s].registered = {}
        /\ sessions[s].phase = "connecting" => sessions[s].registered = PasswordsOf[s]
        /\ sessions[s].phase \in Unlisted => sessions[s].timer = "off" /\ sessions[s].refs = 0

StoreInv == StoreTypeOK /\ RedactionBalanced /\ RefsCounted /\ EarlySecrets

\* Where a session stands and whether its connection works.
Connected ==
    \A s \in Sessions :
        /\ sessions[s].phase \in {"new", "connecting"} => ~sessions[s].open
        /\ sessions[s].phase = "connected" => sessions[s].open
        /\ sessions[s].revoked => sessions[s].phase = "dropped"
        /\ sessions[s].phase = "listed" => sessions[s].timer # "off"
        /\ sessions[s].open => SecretsOf(s) \subseteq sessions[s].registered

\* A closed session that is still listed has expired, so nobody acquires it.
ClosedHasExpired ==
    \A s \in Sessions : sessions[s].phase = "listed" /\ ~sessions[s].open => HasExpired(s)

LeaseSafety == Connected /\ ClosedHasExpired /\ LeaseKeepsConnection

LeaseInv == StoreInv /\ LeaseSafety

-----------------------------------------------------------------------------
(* One session at a time.                                                  *)

\* The record of s becomes r, the other sessions stay.
Becomes(s, r) == r \in SessionRecords /\ sessions' = [sessions EXCEPT ![s] = r]

\* Retire leaves everything of the record but its connection and its secrets.
Closed(r) == [r EXCEPT !.open = FALSE, !.registered = {}]

LEMMA ClosedFields ==
    ASSUME NEW r \in SessionRecords
    PROVE  /\ Closed(r) \in SessionRecords
           /\ Closed(r).phase = r.phase /\ Closed(r).refs = r.refs
           /\ Closed(r).revoked = r.revoked /\ Closed(r).expires = r.expires
           /\ Closed(r).timer = r.timer
           /\ ~Closed(r).open /\ Closed(r).registered = {}
BY DEF Closed, SessionRecords

LEMMA Retired ==
    ASSUME NEW s \in Sessions, NEW r \in SessionRecords, Retire(s, r)
    PROVE  \/ r.refs = 0 /\ Becomes(s, Closed(r)) /\ redacted' = Unregistered(r.registered)
           \/ r.refs # 0 /\ Becomes(s, r) /\ UNCHANGED redacted
BY ClosedFields DEF Retire, Step, Closed, Becomes

LEMMA Lookup ==
    ASSUME StoreTypeOK, NEW s \in Sessions, NEW r, Becomes(s, r)
    PROVE  /\ sessions' \in [Sessions -> SessionRecords]
           /\ sessions'[s] = r
           /\ \A t \in Sessions : t # s => sessions'[t] = sessions[t]
BY DEF StoreTypeOK, Becomes

\* The secrets of a session are secrets.
LEMMA SecretsAreSecrets ==
    ASSUME NEW s \in Sessions
    PROVE  /\ SecretsOf(s) \subseteq Secrets
           /\ PasswordsOf[s] \subseteq Secrets
           /\ s \in Secrets
           /\ s \notin PasswordsOf[s]
BY PasswordsOfType, DistinctNames DEF SecretsOf, Secrets

-----------------------------------------------------------------------------
(* The redaction registry.                                                 *)

LEMMA RegistryTypes ==
    ASSUME StoreTypeOK, NEW V
    PROVE  /\ Registered(V) \in [Secrets -> Nat]
           /\ Unregistered(V) \in [Secrets -> Nat]
           /\ \A v \in Secrets : Registered(V)[v] = redacted[v] + IF v \in V THEN 1 ELSE 0
           /\ \A v \in Secrets : Unregistered(V)[v] =
                IF v \in V /\ redacted[v] > 0 THEN redacted[v] - 1 ELSE redacted[v]
BY DEF Registered, Unregistered, StoreTypeOK

LEMMA UsersFinite ==
    ASSUME NEW v
    PROVE  IsFiniteSet(Users(v))
BY SessionsFinite, FS_Subset DEF Users

\* A session that keeps its secrets keeps the balance.
LEMMA BalanceKept ==
    ASSUME StoreTypeOK, RedactionBalanced, NEW s \in Sessions, NEW r, Becomes(s, r),
           r.registered = sessions[s].registered, UNCHANGED redacted
    PROVE  RedactionBalanced'
<1>1. ASSUME NEW v \in Secrets
      PROVE  {t \in Sessions : v \in sessions'[t].registered} = {t \in Sessions : v \in sessions[t].registered}
  BY Lookup
<1> QED
  BY <1>1 DEF RedactionBalanced

\* New secrets are counted once more, each by the session that registers it.
LEMMA BalanceRegistered ==
    ASSUME StoreTypeOK, RedactionBalanced, NEW s \in Sessions, NEW r, NEW V, Becomes(s, r),
           r.registered = sessions[s].registered \union V, V \intersect sessions[s].registered = {},
           redacted' = Registered(V)
    PROVE  RedactionBalanced'
<1> SUFFICES ASSUME NEW v \in Secrets
             PROVE  redacted'[v] = Cardinality({t \in Sessions : v \in sessions'[t].registered})
  BY DEF RedactionBalanced
<1> DEFINE after == {t \in Sessions : v \in sessions'[t].registered}
<1>1. redacted[v] = Cardinality(Users(v)) /\ redacted[v] \in Nat
  BY DEF RedactionBalanced, Users, StoreTypeOK
<1>2. CASE v \in V
  <2>1. after = Users(v) \union {s} /\ s \notin Users(v)
    BY <1>2, Lookup DEF Users
  <2>2. Cardinality(after) = Cardinality(Users(v)) + 1
    BY <2>1, UsersFinite, FS_AddElement
  <2> QED
    <3>1. redacted'[v] = redacted[v] + 1
      BY <1>2, RegistryTypes
    <3> HIDE DEF after
    <3>2. redacted'[v] = Cardinality(after)
      BY <1>1, <2>2, <3>1
    <3> QED
      BY <3>2 DEF after
<1>3. CASE v \notin V
  <2>1. after = Users(v)
    BY <1>3, Lookup DEF Users
  <2>2. redacted'[v] = redacted[v]
    BY <1>1, <1>3, RegistryTypes
  <2> QED
    BY <1>1, <2>1, <2>2
<1> QED
  BY <1>2, <1>3

\* A session that forgets everything is counted out of all its secrets; none of
\* their counters is zero, so the floor at zero is never met.
LEMMA BalanceUnregistered ==
    ASSUME StoreTypeOK, RedactionBalanced, NEW s \in Sessions, NEW r, Becomes(s, r),
           r.registered = {}, redacted' = Unregistered(sessions[s].registered)
    PROVE  RedactionBalanced'
<1> SUFFICES ASSUME NEW v \in Secrets
             PROVE  redacted'[v] = Cardinality({t \in Sessions : v \in sessions'[t].registered})
  BY DEF RedactionBalanced
<1> DEFINE after == {t \in Sessions : v \in sessions'[t].registered}
<1>1. redacted[v] = Cardinality(Users(v)) /\ redacted[v] \in Nat
  BY DEF RedactionBalanced, Users, StoreTypeOK
<1>2. CASE v \in sessions[s].registered
  <2>1. after = Users(v) \ {s} /\ s \in Users(v)
    BY <1>2, Lookup DEF Users
  <2>2. Cardinality(after) = Cardinality(Users(v)) - 1
    BY <2>1, UsersFinite, FS_RemoveElement
  <2>3. redacted[v] > 0
    BY <1>1, <2>1, UsersFinite, FS_EmptySet
  <2> QED
    <3>1. redacted'[v] = redacted[v] - 1
      BY <1>2, <2>3, RegistryTypes
    <3> HIDE DEF after
    <3>2. redacted'[v] = Cardinality(after)
      BY <1>1, <2>2, <3>1
    <3> QED
      BY <3>2 DEF after
<1>3. CASE v \notin sessions[s].registered
  <2>1. after = Users(v)
    BY <1>3, Lookup DEF Users
  <2>2. redacted'[v] = redacted[v]
    BY <1>1, <1>3, RegistryTypes
  <2> QED
    BY <1>1, <2>1, <2>2
<1> QED
  BY <1>2, <1>3

-----------------------------------------------------------------------------
(* The reference counts.                                                   *)

LEMMA LeasesFinite ==
    ASSUME NEW s
    PROVE  /\ IsFiniteSet(LeasesOn(s))
           /\ Cardinality(LeasesOn(s)) \in Nat
           /\ Cardinality(LeasesOn(s)) = 0 <=> LeasesOn(s) = {}
BY SessionsFinite, FS_Subset, FS_CardinalityType, FS_EmptySet DEF LeasesOn

\* A step that neither grants nor returns a lease keeps the counts.
LEMMA CountsKept ==
    ASSUME StoreTypeOK, RefsCounted, NEW s \in Sessions, NEW r, Becomes(s, r),
           r.refs = sessions[s].refs, UNCHANGED lease
    PROVE  RefsCounted'
<1>1. ASSUME NEW t \in Sessions
      PROVE  {h \in Holders : lease'[h] = t} = LeasesOn(t) /\ sessions'[t].refs = sessions[t].refs
  BY Lookup DEF LeasesOn
<1> QED
  BY <1>1 DEF RefsCounted, LeasesOn

LEMMA LeaseTaken ==
    ASSUME StoreTypeOK, RefsCounted, NEW h \in Holders, NEW s \in Sessions, NEW r, Becomes(s, r),
           lease[h] = NoSession, r.refs = sessions[s].refs + 1,
           lease' = [lease EXCEPT ![h] = s]
    PROVE  RefsCounted'
<1>1. lease' \in [Holders -> Sessions \union {NoSession}] /\ lease'[h] = s
      /\ \A g \in Holders : g # h => lease'[g] = lease[g]
  BY DEF StoreTypeOK
<1>2. ASSUME NEW t \in Sessions, t # s
      PROVE  {g \in Holders : lease'[g] = t} = LeasesOn(t) /\ sessions'[t].refs = sessions[t].refs
  BY <1>1, <1>2, Lookup, DistinctNames DEF LeasesOn
<1>3. {g \in Holders : lease'[g] = s} = LeasesOn(s) \union {h} /\ h \notin LeasesOn(s)
  BY <1>1, DistinctNames DEF LeasesOn
<1>4. Cardinality({g \in Holders : lease'[g] = s}) = Cardinality(LeasesOn(s)) + 1
  BY <1>3, LeasesFinite, FS_AddElement
<1>5. sessions'[s].refs = Cardinality({g \in Holders : lease'[g] = s})
  BY <1>4, Lookup DEF RefsCounted
<1> QED
  BY <1>2, <1>5 DEF RefsCounted, LeasesOn

LEMMA LeaseReturned ==
    ASSUME StoreTypeOK, RefsCounted, NEW h \in Holders, NEW s \in Sessions, NEW r, Becomes(s, r),
           lease[h] = s, r.refs = sessions[s].refs - 1,
           lease' = [lease EXCEPT ![h] = NoSession]
    PROVE  RefsCounted'
<1>1. lease' \in [Holders -> Sessions \union {NoSession}] /\ lease'[h] = NoSession
      /\ \A g \in Holders : g # h => lease'[g] = lease[g]
  BY DEF StoreTypeOK
<1>2. ASSUME NEW t \in Sessions, t # s
      PROVE  {g \in Holders : lease'[g] = t} = LeasesOn(t) /\ sessions'[t].refs = sessions[t].refs
  BY <1>1, <1>2, Lookup, DistinctNames DEF LeasesOn
<1>3. {g \in Holders : lease'[g] = s} = LeasesOn(s) \ {h} /\ h \in LeasesOn(s)
  BY <1>1, DistinctNames DEF LeasesOn
<1>4. Cardinality({g \in Holders : lease'[g] = s}) = Cardinality(LeasesOn(s)) - 1
  BY <1>3, LeasesFinite, FS_RemoveElement
<1>5. sessions'[s].refs = Cardinality({g \in Holders : lease'[g] = s})
  BY <1>4, Lookup DEF RefsCounted
<1> QED
  BY <1>2, <1>5 DEF RefsCounted, LeasesOn

-----------------------------------------------------------------------------
(* Every step, as what it does to one session.                             *)

LEMMA EarlyKept ==
    ASSUME StoreTypeOK, EarlySecrets, NEW s \in Sessions, NEW r, Becomes(s, r),
           r.phase # "new", r.phase = "connecting" => r.registered = PasswordsOf[s],
           r.phase \in Unlisted => r.timer = "off" /\ r.refs = 0
    PROVE  EarlySecrets'
BY Lookup DEF EarlySecrets

\* A retirement, with whatever the caller changed in the record before it.
LEMMA RetireKeeps ==
    ASSUME StoreInv, NEW s \in Sessions, NEW r \in SessionRecords, Retire(s, r),
           r.registered = sessions[s].registered, r.phase \notin Unlisted,
           UNCHANGED <<now, lag>>,
           lease' \in [Holders -> Sessions \union {NoSession}],
           (\A q : Becomes(s, q) /\ q.refs = r.refs => RefsCounted')
    PROVE  StoreInv'
<1>1. CASE r.refs = 0 /\ Becomes(s, Closed(r)) /\ redacted' = Unregistered(r.registered)
  <2>1. StoreTypeOK'
    BY <1>1, Lookup, RegistryTypes DEF StoreInv, StoreTypeOK
  <2>2. RedactionBalanced'
    BY <1>1, ClosedFields, BalanceUnregistered DEF StoreInv
  <2>3. RefsCounted'
    BY <1>1, ClosedFields
  <2>4. EarlySecrets'
    BY <1>1, ClosedFields, EarlyKept DEF StoreInv, Unlisted
  <2> QED
    BY <2>1, <2>2, <2>3, <2>4 DEF StoreInv
<1>2. CASE r.refs # 0 /\ Becomes(s, r) /\ UNCHANGED redacted
  <2>1. StoreTypeOK'
    BY <1>2, Lookup DEF StoreInv, StoreTypeOK
  <2>2. RedactionBalanced'
    BY <1>2, BalanceKept DEF StoreInv
  <2>3. RefsCounted'
    BY <1>2
  <2>4. EarlySecrets'
    BY <1>2, EarlyKept DEF StoreInv, Unlisted
  <2> QED
    BY <2>1, <2>2, <2>3, <2>4 DEF StoreInv
<1> QED
  BY <1>1, <1>2, Retired

\* A change of the record that leaves its secrets alone.
LEMMA UpdateKeeps ==
    ASSUME StoreInv, NEW s \in Sessions, NEW r, Becomes(s, r), UNCHANGED redacted,
           r.registered = sessions[s].registered, r.phase \notin Unlisted,
           UNCHANGED <<now, lag>>,
           lease' \in [Holders -> Sessions \union {NoSession}],
           RefsCounted'
    PROVE  StoreInv'
<1>1. StoreTypeOK'
  BY Lookup DEF StoreInv, StoreTypeOK
<1>2. RedactionBalanced'
  BY BalanceKept DEF StoreInv
<1>3. EarlySecrets'
  BY EarlyKept DEF StoreInv, Unlisted
<1> QED
  BY <1>1, <1>2, <1>3 DEF StoreInv

-----------------------------------------------------------------------------
(* The actions.                                                            *)

LEMMA RecordTypes ==
    ASSUME StoreTypeOK, NEW s \in Sessions
    PROVE  /\ sessions[s] \in SessionRecords
           /\ sessions[s].refs \in Nat
           /\ Clock \in Int
           /\ lease \in [Holders -> Sessions \union {NoSession}]
BY TimesType DEF StoreTypeOK, SessionRecords, Clock

LEMMA ConnectKeeps ==
    ASSUME StoreInv, NEW s \in Sessions, Connect(s)
    PROVE  StoreInv'
<1> DEFINE r == [sessions[s] EXCEPT !.phase = "connecting", !.registered = PasswordsOf[s]]
<1>1. /\ Becomes(s, r) /\ r.phase = "connecting" /\ r.registered = PasswordsOf[s]
      /\ r.refs = sessions[s].refs /\ r.timer = sessions[s].timer
      /\ sessions[s].phase = "new" /\ redacted' = Registered(PasswordsOf[s])
      /\ UNCHANGED <<now, lag, lease>>
  BY RecordTypes, SecretsAreSecrets DEF StoreInv, Connect, Step, Becomes, SessionRecords, Phases
<1> HIDE DEF r
<1>2. StoreTypeOK'
  BY <1>1, Lookup, RegistryTypes DEF StoreInv, StoreTypeOK
<1>3. RedactionBalanced'
  <2>1. sessions[s].registered = {}
    BY <1>1 DEF StoreInv, EarlySecrets
  <2> QED
    BY <1>1, <2>1, BalanceRegistered DEF StoreInv
<1>4. RefsCounted'
  BY <1>1, CountsKept DEF StoreInv
<1>5. EarlySecrets'
  <2>1. sessions[s].timer = "off" /\ sessions[s].refs = 0
    BY <1>1 DEF StoreInv, EarlySecrets, Unlisted
  <2> QED
    BY <1>1, <2>1, EarlyKept DEF StoreInv
<1> QED
  BY <1>2, <1>3, <1>4, <1>5 DEF StoreInv

LEMMA ConnectFailsKeeps ==
    ASSUME StoreInv, NEW s \in Sessions, ConnectFails(s)
    PROVE  StoreInv'
<1> DEFINE r == [sessions[s] EXCEPT !.phase = "dropped", !.registered = {}]
<1>1. /\ Becomes(s, r) /\ r.phase = "dropped" /\ r.registered = {}
      /\ r.refs = sessions[s].refs
      /\ sessions[s].phase = "connecting" /\ redacted' = Unregistered(PasswordsOf[s])
      /\ UNCHANGED <<now, lag, lease>>
  BY RecordTypes DEF StoreInv, ConnectFails, Step, Becomes, SessionRecords, Phases
<1> HIDE DEF r
<1>2. StoreTypeOK'
  BY <1>1, Lookup, RegistryTypes DEF StoreInv, StoreTypeOK
<1>3. RedactionBalanced'
  <2>1. sessions[s].registered = PasswordsOf[s]
    BY <1>1 DEF StoreInv, EarlySecrets
  <2> QED
    BY <1>1, <2>1, BalanceUnregistered DEF StoreInv
<1>4. RefsCounted'
  BY <1>1, CountsKept DEF StoreInv
<1>5. EarlySecrets'
  BY <1>1, EarlyKept DEF StoreInv, Unlisted
<1> QED
  BY <1>2, <1>3, <1>4, <1>5 DEF StoreInv

LEMMA ConnectSucceedsKeeps ==
    ASSUME StoreInv, NEW s \in Sessions, ConnectSucceeds(s)
    PROVE  StoreInv'
<1> DEFINE r == [sessions[s] EXCEPT !.phase = "connected", !.open = TRUE,
                                    !.registered = SecretsOf(s), !.expires = Clock + Ttl]
<1>0. r \in SessionRecords
  <2>1. ASSUME NEW e \in Int, NEW V \in SUBSET Secrets, NEW q \in SessionRecords
        PROVE  [q EXCEPT !.phase = "connected", !.open = TRUE, !.registered = V, !.expires = e]
                 \in SessionRecords
    BY DEF SessionRecords, Phases
  <2>2. Clock + Ttl \in Int
    BY RecordTypes, TimesType DEF StoreInv
  <2> QED
    BY <2>1, <2>2, RecordTypes, SecretsAreSecrets DEF StoreInv
<1>1. /\ Becomes(s, r) /\ r.phase = "connected" /\ r.registered = SecretsOf(s)
      /\ r.refs = sessions[s].refs /\ r.timer = sessions[s].timer
      /\ sessions[s].phase = "connecting" /\ redacted' = Registered({s})
      /\ UNCHANGED <<now, lag, lease>>
  BY <1>0, RecordTypes DEF StoreInv, ConnectSucceeds, Step, Becomes, SessionRecords
<1> HIDE DEF r
<1>2. StoreTypeOK'
  BY <1>1, Lookup, RegistryTypes DEF StoreInv, StoreTypeOK
<1>3. RedactionBalanced'
  <2>1. sessions[s].registered = PasswordsOf[s]
    BY <1>1 DEF StoreInv, EarlySecrets
  <2>2. r.registered = sessions[s].registered \union {s} /\ {s} \intersect sessions[s].registered = {}
    BY <1>1, <2>1, SecretsAreSecrets DEF SecretsOf
  <2> QED
    BY <1>1, <2>2, BalanceRegistered DEF StoreInv
<1>4. RefsCounted'
  BY <1>1, CountsKept DEF StoreInv
<1>5. EarlySecrets'
  <2>1. sessions[s].timer = "off" /\ sessions[s].refs = 0
    BY <1>1 DEF StoreInv, EarlySecrets, Unlisted
  <2> QED
    BY <1>1, <2>1, EarlyKept DEF StoreInv
<1> QED
  BY <1>2, <1>3, <1>4, <1>5 DEF StoreInv

LEMMA EnlistKeeps ==
    ASSUME StoreInv, NEW s \in Sessions, Enlist(s)
    PROVE  StoreInv'
<1> DEFINE r == [sessions[s] EXCEPT !.phase = "listed", !.timer = "set", !.timerAt = now + Ttl]
<1>0. r \in SessionRecords
  <2>1. ASSUME NEW e \in Int, NEW q \in SessionRecords
        PROVE  [q EXCEPT !.phase = "listed", !.timer = "set", !.timerAt = e] \in SessionRecords
    BY DEF SessionRecords, Phases
  <2>2. now + Ttl \in Int
    BY TimesType DEF StoreInv, StoreTypeOK
  <2> QED
    BY <2>1, <2>2, RecordTypes DEF StoreInv
<1>1. /\ Becomes(s, r) /\ r.phase = "listed" /\ r.registered = sessions[s].registered
      /\ r.refs = sessions[s].refs /\ UNCHANGED <<now, lag, lease, redacted>>
  BY <1>0, RecordTypes DEF StoreInv, Enlist, Step, Becomes, SessionRecords
<1> HIDE DEF r
<1>2. RefsCounted'
  BY <1>1, CountsKept DEF StoreInv
<1> QED
  BY <1>1, <1>2, UpdateKeeps, RecordTypes DEF StoreInv, Unlisted

LEMMA AcquireKeeps ==
    ASSUME StoreInv, NEW h \in Holders, NEW s \in Sessions, Acquire(h, s)
    PROVE  StoreInv'
<1> DEFINE r == [sessions[s] EXCEPT !.refs = @ + 1]
<1>1. r \in SessionRecords
  <2>1. ASSUME NEW q \in SessionRecords
        PROVE  [q EXCEPT !.refs = @ + 1] \in SessionRecords
    BY DEF SessionRecords
  <2> QED
    BY <2>1, RecordTypes DEF StoreInv
<1>2. /\ Becomes(s, r) /\ r.phase = "listed" /\ r.registered = sessions[s].registered
      /\ r.refs = sessions[s].refs + 1 /\ lease[h] = NoSession
      /\ lease' = [lease EXCEPT ![h] = s] /\ UNCHANGED <<now, lag, redacted>>
  BY <1>1, RecordTypes DEF StoreInv, Acquire, Listed, Step, Becomes, SessionRecords
<1> HIDE DEF r
<1>3. lease' \in [Holders -> Sessions \union {NoSession}]
  BY <1>2, RecordTypes DEF StoreInv
<1>4. RefsCounted'
  BY <1>2, LeaseTaken DEF StoreInv
<1> QED
  BY <1>2, <1>3, <1>4, UpdateKeeps DEF Unlisted

LEMMA AcquireExpiredKeeps ==
    ASSUME StoreInv, NEW s \in Sessions, AcquireExpired(s)
    PROVE  StoreInv'
<1>1. /\ sessions[s] \in SessionRecords /\ Retire(s, sessions[s]) /\ sessions[s].phase = "listed"
      /\ UNCHANGED <<now, lag, lease>>
  BY RecordTypes DEF StoreInv, AcquireExpired, Listed
<1>2. lease' \in [Holders -> Sessions \union {NoSession}]
  BY <1>1, RecordTypes DEF StoreInv
<1>3. ASSUME NEW q, Becomes(s, q), q.refs = sessions[s].refs
      PROVE  RefsCounted'
  BY <1>1, <1>3, CountsKept DEF StoreInv
<1> QED
  BY <1>1, <1>2, <1>3, RetireKeeps DEF Unlisted

LEMMA ReleaseKeeps ==
    ASSUME StoreInv, NEW h \in Holders, Release(h)
    PROVE  StoreInv'
<1> DEFINE s == lease[h]
           r == [sessions[s] EXCEPT !.refs = @ - 1]
<1>1. s \in Sessions
  BY RecordTypes DEF StoreInv, StoreTypeOK, Release
<1>2. sessions[s].refs \in Nat /\ sessions[s].refs # 0
  <2>1. h \in LeasesOn(s)
    BY DEF LeasesOn
  <2> QED
    BY <1>1, <2>1, LeasesFinite, RecordTypes DEF StoreInv, RefsCounted
<1>3. r \in SessionRecords
  <2>1. ASSUME NEW q \in SessionRecords, NEW n \in Nat
        PROVE  [q EXCEPT !.refs = n] \in SessionRecords
    BY DEF SessionRecords
  <2>2. sessions[s].refs - 1 \in Nat
    BY <1>2
  <2> QED
    BY <1>1, <2>1, <2>2, RecordTypes DEF StoreInv
<1>4. /\ r.phase = sessions[s].phase /\ r.registered = sessions[s].registered
      /\ r.refs = sessions[s].refs - 1
  BY <1>1, RecordTypes DEF StoreInv, SessionRecords
<1>5. sessions[s].phase \notin Unlisted
  BY <1>1, <1>2 DEF StoreInv, EarlySecrets
<1>6. /\ Retire(s, r) \/ (Step(s, r) /\ UNCHANGED redacted)
      /\ lease' = [lease EXCEPT ![h] = NoSession] /\ UNCHANGED <<now, lag>>
  BY DEF Release
<1>7. lease' \in [Holders -> Sessions \union {NoSession}]
  BY <1>1, <1>6, RecordTypes DEF StoreInv
<1>8. lease[h] = s
  OBVIOUS
<1> HIDE DEF r, s
<1>9. ASSUME NEW q, Becomes(s, q), q.refs = r.refs
      PROVE  RefsCounted'
  BY <1>1, <1>4, <1>6, <1>8, <1>9, LeaseReturned DEF StoreInv
<1>10. CASE Retire(s, r)
  BY <1>1, <1>3, <1>4, <1>5, <1>6, <1>7, <1>9, <1>10, RetireKeeps
<1>11. CASE Step(s, r) /\ UNCHANGED redacted
  <2>1. Becomes(s, r)
    BY <1>3, <1>11 DEF Step, Becomes
  <2> QED
    BY <1>1, <1>4, <1>5, <1>6, <1>7, <1>9, <1>11, <2>1, UpdateKeeps
<1> QED
  BY <1>6, <1>10, <1>11

LEMMA DeleteKeeps ==
    ASSUME StoreInv, NEW s \in Sessions, Delete(s)
    PROVE  StoreInv'
<1> DEFINE r == [sessions[s] EXCEPT !.phase = "dropped", !.revoked = TRUE]
<1>1. /\ r \in SessionRecords /\ r.phase = "dropped" /\ r.registered = sessions[s].registered
      /\ r.refs = sessions[s].refs
  BY RecordTypes DEF StoreInv, SessionRecords, Phases
<1>2. Retire(s, r) /\ UNCHANGED <<now, lag, lease>>
  BY DEF Delete
<1> HIDE DEF r
<1>3. lease' \in [Holders -> Sessions \union {NoSession}]
  BY <1>2, RecordTypes DEF StoreInv
<1>4. ASSUME NEW q, Becomes(s, q), q.refs = r.refs
      PROVE  RefsCounted'
  BY <1>1, <1>2, <1>4, CountsKept DEF StoreInv
<1> QED
  BY <1>1, <1>2, <1>3, <1>4, RetireKeeps DEF Unlisted

LEMMA ExpireKeeps ==
    ASSUME StoreInv, NEW s \in Sessions, Expire(s)
    PROVE  StoreInv'
<1> DEFINE r == [sessions[s] EXCEPT !.timer = "fired"]
<1>1. /\ r \in SessionRecords /\ r.phase = sessions[s].phase
      /\ r.registered = sessions[s].registered /\ r.refs = sessions[s].refs
  BY RecordTypes DEF StoreInv, SessionRecords
<1>2. /\ Retire(s, r) \/ (Step(s, r) /\ UNCHANGED redacted)
      /\ UNCHANGED <<now, lag, lease>>
  BY DEF Expire
<1>3. sessions[s].phase \notin Unlisted
  BY DEF Expire, StoreInv, EarlySecrets
<1> HIDE DEF r
<1>4. lease' \in [Holders -> Sessions \union {NoSession}]
  BY <1>2, RecordTypes DEF StoreInv
<1>5. ASSUME NEW q, Becomes(s, q), q.refs = r.refs
      PROVE  RefsCounted'
  BY <1>1, <1>2, <1>5, CountsKept DEF StoreInv
<1>6. CASE Retire(s, r)
  BY <1>1, <1>2, <1>3, <1>4, <1>5, <1>6, RetireKeeps
<1>7. CASE Step(s, r) /\ UNCHANGED redacted
  <2>1. Becomes(s, r)
    BY <1>1, <1>7 DEF Step, Becomes
  <2> QED
    BY <1>1, <1>2, <1>3, <1>4, <1>5, <1>7, <2>1, UpdateKeeps
<1> QED
  BY <1>2, <1>6, <1>7

LEMMA StoreInvKept ==
    ASSUME StoreInv, [StoreNext \/ SetBack]_storeVars
    PROVE  StoreInv'
<1>1. ASSUME UNCHANGED <<sessions, lease, redacted>>, now' \in Nat, lag' \in 0..MaxLag
      PROVE  StoreInv'
  BY <1>1 DEF StoreInv, StoreTypeOK, RedactionBalanced, RefsCounted, LeasesOn, EarlySecrets
<1>2. CASE Tick
  BY <1>1, <1>2 DEF Tick, StoreInv, StoreTypeOK
<1>3. CASE SetBack
  <2>1. now' \in Nat /\ lag' \in 0..MaxLag
    BY <1>3, TimesType DEF SetBack, StoreInv, StoreTypeOK
  <2> QED
    BY <1>1, <1>3, <2>1 DEF SetBack
<1>4. CASE UNCHANGED storeVars
  BY <1>1, <1>4 DEF storeVars, StoreInv, StoreTypeOK
<1>5. ASSUME NEW s \in Sessions,
             \/ ConnectFails(s) \/ ConnectSucceeds(s) \/ Enlist(s) \/ Expire(s)
             \/ Connect(s) \/ AcquireExpired(s) \/ Delete(s)
      PROVE  StoreInv'
  BY <1>5, ConnectKeeps, ConnectFailsKeeps, ConnectSucceedsKeeps, EnlistKeeps, ExpireKeeps,
     AcquireExpiredKeeps, DeleteKeeps
<1>6. ASSUME NEW h \in Holders, Release(h) \/ \E s \in Sessions : Acquire(h, s)
      PROVE  StoreInv'
  BY <1>6, ReleaseKeeps, AcquireKeeps
<1> QED
  BY <1>2, <1>3, <1>4, <1>5, <1>6 DEF StoreNext, Background

LEMMA StoreInvInit ==
    ASSUME StoreInit
    PROVE  StoreInv
<1>1. /\ sessions \in [Sessions -> SessionRecords]
      /\ \A s \in Sessions : sessions[s] = NewSession
      /\ \A h \in Holders : lease[h] = NoSession
  BY DEF StoreInit, NewSession, SessionRecords, Phases
<1>2. /\ NewSession.registered = {} /\ NewSession.refs = 0
      /\ NewSession.phase = "new" /\ NewSession.timer = "off"
  BY DEF NewSession
<1>3. StoreTypeOK
  BY <1>1, TimesType DEF StoreTypeOK, StoreInit
<1>4. RedactionBalanced
  <2>1. ASSUME NEW v \in Secrets
        PROVE  redacted[v] = 0 /\ {s \in Sessions : v \in sessions[s].registered} = {}
    BY <1>1, <1>2 DEF StoreInit
  <2> QED
    BY <2>1, FS_EmptySet DEF RedactionBalanced
<1>5. RefsCounted
  <2>1. ASSUME NEW s \in Sessions
        PROVE  sessions[s].refs = 0 /\ LeasesOn(s) = {}
    BY <1>1, <1>2, DistinctNames DEF LeasesOn
  <2> QED
    BY <2>1, FS_EmptySet DEF RefsCounted
<1>6. EarlySecrets
  BY <1>1, <1>2 DEF EarlySecrets
<1> QED
  BY <1>3, <1>4, <1>5, <1>6 DEF StoreInv

-----------------------------------------------------------------------------
(* The theorems about every client and every clock.                        *)

\* The inductive invariant of the store: types, the balance of the registry
\* (redaction.py), the reference counts of acquire and release
\* (server/ssh_sessions.py) and what a session has registered while it connects.
THEOREM StoreInvariance == AnyClockSpec => []StoreInv
<1>1. StoreInit => StoreInv
  BY StoreInvInit
<1>2. StoreInv /\ [StoreNext \/ SetBack]_storeVars => StoreInv'
  BY StoreInvKept
<1> QED
  BY <1>1, <1>2, PTL DEF AnyClockSpec

\* The store's variables keep their types: no reference count and no redaction
\* counter is ever negative.
THEOREM StoreTypeCorrect == AnyClockSpec => []StoreTypeOK
<1>1. StoreInv => StoreTypeOK
  BY DEF StoreInv
<1> QED
  BY <1>1, StoreInvariance, PTL

\* add_log_secret and remove_log_secret are balanced over every interleaving of
\* create, its failures, acquire, release, delete and the timers: a secret is
\* redacted exactly as long as a session uses it.
THEOREM RegistryBalanced == AnyClockSpec => []RedactionBalanced
<1>1. StoreInv => RedactionBalanced
  BY DEF StoreInv
<1> QED
  BY <1>1, StoreInvariance, PTL

-----------------------------------------------------------------------------
(* The leases.  In every lemma the step has already been shown to keep      *)
(* StoreInv.                                                               *)

\* A record that keeps its connection, its secrets and its expiry.
LEMMA UpdateSafe ==
    ASSUME LeaseInv, StoreInv', NEW s \in Sessions, NEW r, Becomes(s, r),
           r.open = sessions[s].open, r.registered = sessions[s].registered,
           r.expires = sessions[s].expires, UNCHANGED <<now, lag>>,
           r.phase \in {"listed", "dropped"}, r.revoked => r.phase = "dropped",
           r.phase = "listed" => r.timer # "off",
           r.phase = "listed" => sessions[s].phase = "listed" \/ r.open,
           \A h \in Holders : \/ lease'[h] \in {lease[h], NoSession}
                              \/ lease'[h] = s /\ r.open
    PROVE  LeaseSafety'
<1> USE Lookup DEF LeaseInv, StoreInv, LeaseSafety
<1>1. Connected'
  BY DEF Connected
<1>2. ClosedHasExpired'
  BY DEF ClosedHasExpired, HasExpired, Clock
<1>3. LeaseKeepsConnection'
  <2> SUFFICES ASSUME NEW h \in Holders, lease'[h] # NoSession
               PROVE  /\ sessions'[lease'[h]].open
                      /\ SecretsOf(lease'[h]) \subseteq sessions'[lease'[h]].registered
    BY DEF LeaseKeepsConnection
  <2>1. lease'[h] \in Sessions
    BY DEF StoreTypeOK
  <2>2. CASE lease'[h] = s /\ r.open
    BY <2>1, <2>2 DEF Connected
  <2>3. CASE lease'[h] = lease[h]
    BY <2>1, <2>3 DEF LeaseKeepsConnection
  <2> QED
    BY <2>2, <2>3
<1> QED
  BY <1>1, <1>2, <1>3

\* A retirement: it closes a connection only when nobody leases it, and leaves it
\* listed only when it has expired.
LEMMA RetireSafe ==
    ASSUME LeaseInv, StoreInv', NEW s \in Sessions, NEW r \in SessionRecords, Retire(s, r),
           r.open = sessions[s].open, r.registered = sessions[s].registered,
           r.expires = sessions[s].expires, UNCHANGED <<now, lag>>,
           r.phase \in {"listed", "dropped"}, r.revoked => r.phase = "dropped",
           r.phase = "listed" => r.timer # "off",
           r.phase = "listed" => sessions[s].phase = "listed" /\ HasExpired(s),
           \A h \in Holders : lease'[h] \in {lease[h], NoSession}
    PROVE  LeaseSafety'
<1>1. CASE r.refs # 0 /\ Becomes(s, r)
  BY <1>1, UpdateSafe
<1>2. CASE r.refs = 0 /\ Becomes(s, Closed(r))
  <2> USE Lookup, ClosedFields DEF LeaseInv, StoreInv, LeaseSafety
  <2>1. Connected'
    BY <1>2 DEF Connected
  <2>2. ClosedHasExpired'
    BY <1>2 DEF ClosedHasExpired, HasExpired, Clock
  <2>3. LeaseKeepsConnection'
    <3>1. sessions'[s].refs = 0
      BY <1>2
    <3>2. LeasesOn(s)' = {}
      <4>1. Cardinality({g \in Holders : lease'[g] = s}) = 0
        BY <3>1 DEF RefsCounted, LeasesOn
      <4>2. IsFiniteSet({g \in Holders : lease'[g] = s})
        BY SessionsFinite, FS_Subset
      <4> QED
        BY <4>1, <4>2, FS_EmptySet DEF LeasesOn
    <3> SUFFICES ASSUME NEW h \in Holders, lease'[h] # NoSession
                 PROVE  /\ sessions'[lease'[h]].open
                        /\ SecretsOf(lease'[h]) \subseteq sessions'[lease'[h]].registered
      BY DEF LeaseKeepsConnection
    <3>3. lease'[h] \in Sessions /\ lease'[h] # s
      BY <3>2 DEF LeasesOn, StoreTypeOK
    <3> QED
      BY <1>2, <3>3 DEF LeaseKeepsConnection
  <2> QED
    BY <2>1, <2>2, <2>3
<1> QED
  BY <1>1, <1>2, Retired

\* While a session is created nobody can lease it.
LEMMA CreationSafe ==
    ASSUME LeaseInv, StoreInv', NEW s \in Sessions, Connect(s) \/ ConnectFails(s) \/ ConnectSucceeds(s)
    PROVE  LeaseSafety'
<1>1. /\ UNCHANGED <<now, lag, lease>>
      /\ \A t \in Sessions : t # s => sessions'[t] = sessions[t]
      /\ \A t \in Sessions : sessions'[t].revoked = sessions[t].revoked
      /\ sessions[s].phase \in {"new", "connecting"}
      /\ \/ sessions'[s].phase \in {"connecting", "dropped"} /\ ~sessions'[s].open
         \/ sessions'[s].phase = "connected" /\ sessions'[s].open
            /\ SecretsOf(s) \subseteq sessions'[s].registered
  <2>1. /\ sessions \in [Sessions -> SessionRecords] /\ sessions[s].phase \in {"new", "connecting"}
        /\ sessions[s] \in SessionRecords
    BY RecordTypes DEF LeaseInv, StoreInv, StoreTypeOK, Connect, ConnectFails, ConnectSucceeds
  <2>2. ~sessions[s].open
    BY <2>1 DEF LeaseInv, LeaseSafety, Connected
  <2>3. CASE Connect(s)
    BY <2>1, <2>2, <2>3 DEF Connect, Step, SessionRecords
  <2>4. CASE ConnectFails(s)
    BY <2>1, <2>2, <2>4 DEF ConnectFails, Step, SessionRecords
  <2>5. CASE ConnectSucceeds(s)
    <3> DEFINE e == Clock + Ttl
    <3>1. sessions' = [sessions EXCEPT ![s] = [sessions[s] EXCEPT !.phase = "connected",
                          !.open = TRUE, !.registered = SecretsOf(s), !.expires = e]]
      BY <2>5 DEF ConnectSucceeds, Step
    <3> HIDE DEF e
    <3> QED
      BY <2>1, <2>5, <3>1 DEF ConnectSucceeds, SessionRecords
  <2> QED
    BY <2>3, <2>4, <2>5
<1>2. sessions[s].refs = 0 /\ ~sessions[s].revoked
  BY <1>1 DEF LeaseInv, StoreInv, EarlySecrets, Unlisted, LeaseSafety, Connected
<1>3. Connected'
  BY <1>1, <1>2 DEF LeaseInv, LeaseSafety, Connected
<1>4. ClosedHasExpired'
  BY <1>1 DEF LeaseInv, LeaseSafety, ClosedHasExpired, HasExpired, Clock
<1>5. LeaseKeepsConnection'
  <2> SUFFICES ASSUME NEW h \in Holders, lease[h] # NoSession
               PROVE  lease[h] \in Sessions /\ lease[h] # s
    BY <1>1 DEF LeaseInv, LeaseSafety, LeaseKeepsConnection
  <2>1. lease[h] \in Sessions
    BY DEF LeaseInv, StoreInv, StoreTypeOK
  <2>2. sessions[lease[h]].open
    BY DEF LeaseInv, LeaseSafety, LeaseKeepsConnection
  <2>3. ~sessions[s].open
    BY <1>1 DEF LeaseInv, LeaseSafety, Connected
  <2> QED
    BY <2>1, <2>2, <2>3
<1> QED
  BY <1>3, <1>4, <1>5 DEF LeaseSafety

LEMMA EnlistSafe ==
    ASSUME LeaseInv, StoreInv', NEW s \in Sessions, Enlist(s)
    PROVE  LeaseSafety'
<1> DEFINE e == now + Ttl
           r == [sessions[s] EXCEPT !.phase = "listed", !.timer = "set", !.timerAt = e]
<1>1. sessions[s] \in SessionRecords /\ sessions[s].phase = "connected" /\ sessions[s].open
      /\ ~sessions[s].revoked
  BY RecordTypes DEF LeaseInv, StoreInv, LeaseSafety, Connected, Enlist
<1>2. e \in Int
  BY TimesType DEF LeaseInv, StoreInv, StoreTypeOK
<1>3. Step(s, r) /\ UNCHANGED <<now, lag, lease>>
  BY DEF Enlist
<1> HIDE DEF e
<1>4. /\ r \in SessionRecords /\ r.open = sessions[s].open /\ r.phase = "listed"
      /\ r.registered = sessions[s].registered /\ r.expires = sessions[s].expires
      /\ r.revoked = sessions[s].revoked /\ r.timer = "set"
  BY <1>1, <1>2 DEF SessionRecords, Phases
<1>5. Becomes(s, r)
  BY <1>3, <1>4 DEF Step, Becomes
<1> HIDE DEF r
<1> QED
  BY <1>1, <1>3, <1>4, <1>5, UpdateSafe

\* A session that is listed and has not expired has its connection.
LEMMA AcquireSafe ==
    ASSUME LeaseInv, StoreInv', NEW h \in Holders, NEW s \in Sessions, Acquire(h, s)
    PROVE  LeaseSafety'
<1> DEFINE r == [sessions[s] EXCEPT !.refs = @ + 1]
<1>1. /\ r \in SessionRecords /\ r.open = sessions[s].open /\ r.phase = sessions[s].phase
      /\ r.registered = sessions[s].registered /\ r.expires = sessions[s].expires
      /\ r.revoked = sessions[s].revoked /\ r.timer = sessions[s].timer
  BY RecordTypes DEF LeaseInv, StoreInv, SessionRecords
<1>2. Becomes(s, r) /\ UNCHANGED <<now, lag>>
  BY <1>1 DEF Acquire, Step, Becomes
<1> HIDE DEF r
<1>3. /\ sessions[s].phase = "listed" /\ ~sessions[s].revoked /\ sessions[s].open
      /\ sessions[s].timer # "off"
  BY DEF Acquire, Listed, LeaseInv, LeaseSafety, Connected, ClosedHasExpired
<1>4. ASSUME NEW g \in Holders
      PROVE  lease'[g] = lease[g] \/ lease'[g] = s
  BY RecordTypes DEF LeaseInv, StoreInv, Acquire
<1> QED
  BY <1>1, <1>2, <1>3, <1>4, UpdateSafe

LEMMA AcquireExpiredSafe ==
    ASSUME LeaseInv, StoreInv', NEW s \in Sessions, AcquireExpired(s)
    PROVE  LeaseSafety'
<1>1. /\ sessions[s] \in SessionRecords /\ Retire(s, sessions[s]) /\ sessions[s].phase = "listed"
      /\ ~sessions[s].revoked /\ HasExpired(s) /\ UNCHANGED <<now, lag, lease>>
      /\ sessions[s].timer # "off"
  BY RecordTypes DEF LeaseInv, StoreInv, LeaseSafety, Connected, AcquireExpired, Listed
<1> QED
  BY <1>1, RetireSafe

LEMMA DeleteSafe ==
    ASSUME LeaseInv, StoreInv', NEW s \in Sessions, Delete(s)
    PROVE  LeaseSafety'
<1> DEFINE r == [sessions[s] EXCEPT !.phase = "dropped", !.revoked = TRUE]
<1>1. /\ r \in SessionRecords /\ r.phase = "dropped" /\ r.registered = sessions[s].registered
      /\ r.open = sessions[s].open /\ r.expires = sessions[s].expires
  BY RecordTypes DEF LeaseInv, StoreInv, SessionRecords, Phases
<1>2. Retire(s, r) /\ UNCHANGED <<now, lag, lease>>
  BY DEF Delete
<1> HIDE DEF r
<1> QED
  BY <1>1, <1>2, RetireSafe

LEMMA ExpireSafe ==
    ASSUME LeaseInv, StoreInv', NEW s \in Sessions, Expire(s)
    PROVE  LeaseSafety'
<1> DEFINE r == [sessions[s] EXCEPT !.timer = "fired"]
<1>1. /\ r \in SessionRecords /\ r.phase = sessions[s].phase /\ r.revoked = sessions[s].revoked
      /\ r.registered = sessions[s].registered /\ r.open = sessions[s].open
      /\ r.expires = sessions[s].expires /\ r.timer = "fired"
  BY RecordTypes DEF LeaseInv, StoreInv, SessionRecords
<1>2. /\ \/ Retire(s, r) /\ Listed(s) /\ HasExpired(s)
         \/ Step(s, r)
      /\ UNCHANGED <<now, lag, lease>>
  BY DEF Expire
<1>3. sessions[s].phase \in {"listed", "dropped"}
  BY RecordTypes DEF Expire, LeaseInv, StoreInv, EarlySecrets, Unlisted, SessionRecords, Phases
<1>4. r.revoked => r.phase = "dropped"
  BY <1>1 DEF LeaseInv, LeaseSafety, Connected
<1> HIDE DEF r
<1>5. CASE Retire(s, r) /\ Listed(s) /\ HasExpired(s)
  BY <1>1, <1>2, <1>3, <1>4, <1>5, RetireSafe
<1>6. CASE Step(s, r)
  <2>1. Becomes(s, r)
    BY <1>1, <1>6 DEF Step, Becomes
  <2> QED
    BY <1>1, <1>2, <1>3, <1>4, <2>1, UpdateSafe
<1> QED
  BY <1>2, <1>5, <1>6

LEMMA ReleaseSafe ==
    ASSUME LeaseInv, StoreInv', NEW h \in Holders, Release(h)
    PROVE  LeaseSafety'
<1> DEFINE s == lease[h]
           r == [sessions[s] EXCEPT !.refs = @ - 1]
<1>1. s \in Sessions
  BY RecordTypes DEF LeaseInv, StoreInv, StoreTypeOK, Release
<1>2. sessions[s].refs \in Nat /\ sessions[s].refs # 0
  <2>1. h \in LeasesOn(s)
    BY DEF LeasesOn
  <2> QED
    BY <1>1, <2>1, LeasesFinite, RecordTypes DEF LeaseInv, StoreInv, RefsCounted
<1>3. /\ r \in SessionRecords /\ r.phase = sessions[s].phase /\ r.revoked = sessions[s].revoked
      /\ r.registered = sessions[s].registered /\ r.open = sessions[s].open
      /\ r.expires = sessions[s].expires /\ r.timer = sessions[s].timer
  <2>1. sessions[s].refs - 1 \in Nat
    BY <1>2
  <2>2. ASSUME NEW q \in SessionRecords, NEW n \in Nat
        PROVE  [q EXCEPT !.refs = n] \in SessionRecords
    BY DEF SessionRecords
  <2>3. r \in SessionRecords
    BY <1>1, <2>1, <2>2, RecordTypes DEF LeaseInv, StoreInv
  <2> QED
    BY <1>1, <2>3, RecordTypes DEF LeaseInv, StoreInv, SessionRecords
<1>4. /\ \/ Retire(s, r) /\ (r.revoked \/ HasExpired(s))
         \/ Step(s, r)
      /\ lease' = [lease EXCEPT ![h] = NoSession] /\ UNCHANGED <<now, lag>>
  BY DEF Release
<1>5. sessions[s].phase \in {"listed", "dropped"}
  BY <1>1, <1>2, RecordTypes DEF LeaseInv, StoreInv, EarlySecrets, Unlisted, SessionRecords, Phases
<1>6. /\ r.revoked => r.phase = "dropped"
      /\ r.phase = "listed" => r.timer # "off"
  BY <1>1, <1>3 DEF LeaseInv, LeaseSafety, Connected
<1>7. \A g \in Holders : lease'[g] \in {lease[g], NoSession}
  BY <1>1, <1>4, RecordTypes DEF LeaseInv, StoreInv
<1> HIDE DEF r, s
<1>8. CASE Retire(s, r) /\ (r.revoked \/ HasExpired(s))
  BY <1>1, <1>3, <1>4, <1>5, <1>6, <1>7, <1>8, RetireSafe
<1>9. CASE Step(s, r)
  <2>1. Becomes(s, r)
    BY <1>3, <1>9 DEF Step, Becomes
  <2> QED
    BY <1>1, <1>3, <1>4, <1>5, <1>6, <1>7, <2>1, UpdateSafe
<1> QED
  BY <1>4, <1>8, <1>9

\* As long as the wall clock is not set back, time only makes sessions expire.
LEMMA TimeSafe ==
    ASSUME LeaseInv, UNCHANGED <<sessions, lease>>, Clock' >= Clock, Clock' \in Int
    PROVE  LeaseSafety'
<1>1. Connected' /\ LeaseKeepsConnection'
  BY DEF LeaseInv, LeaseSafety, Connected, LeaseKeepsConnection
<1>2. ClosedHasExpired'
  <2> SUFFICES ASSUME NEW s \in Sessions, sessions[s].phase = "listed", ~sessions[s].open
               PROVE  Clock' >= sessions[s].expires
    BY DEF ClosedHasExpired, HasExpired
  <2>1. Clock >= sessions[s].expires
    BY DEF LeaseInv, LeaseSafety, ClosedHasExpired, HasExpired
  <2>2. Clock \in Int /\ sessions[s].expires \in Int
    BY RecordTypes DEF LeaseInv, StoreInv, SessionRecords
  <2> QED
    BY <2>1, <2>2
<1> QED
  BY <1>1, <1>2 DEF LeaseSafety

LEMMA LeaseInvKept ==
    ASSUME LeaseInv, [StoreNext]_storeVars
    PROVE  LeaseInv'
<1>1. StoreInv'
  BY StoreInvKept DEF LeaseInv
<1> SUFFICES LeaseSafety'
  BY <1>1 DEF LeaseInv
<1>2. lag \in Int /\ now \in Int
  BY DEF LeaseInv, StoreInv, StoreTypeOK
<1>3. CASE Tick
  BY <1>2, <1>3, TimeSafe DEF Tick, Clock
<1>4. CASE UNCHANGED storeVars
  BY <1>2, <1>4, TimeSafe DEF storeVars, Clock
<1>5. ASSUME NEW s \in Sessions,
             \/ ConnectFails(s) \/ ConnectSucceeds(s) \/ Enlist(s) \/ Expire(s)
             \/ Connect(s) \/ AcquireExpired(s) \/ Delete(s)
      PROVE  LeaseSafety'
  BY <1>1, <1>5, CreationSafe, EnlistSafe, ExpireSafe, AcquireExpiredSafe, DeleteSafe
<1>6. ASSUME NEW h \in Holders, Release(h) \/ \E s \in Sessions : Acquire(h, s)
      PROVE  LeaseSafety'
  BY <1>1, <1>6, ReleaseSafe, AcquireSafe
<1> QED
  BY <1>3, <1>4, <1>5, <1>6 DEF StoreNext, Background

LEMMA LeaseInvInit ==
    ASSUME StoreInit
    PROVE  LeaseInv
<1>1. /\ \A s \in Sessions : sessions[s] = NewSession
      /\ \A h \in Holders : lease[h] = NoSession
  BY DEF StoreInit
<1>2. /\ NewSession.phase = "new" /\ ~NewSession.open /\ ~NewSession.revoked
  BY Zenon DEF NewSession
<1>3. LeaseSafety
  BY <1>1, <1>2 DEF LeaseSafety, Connected, ClosedHasExpired, LeaseKeepsConnection
<1> QED
  BY <1>3, StoreInvInit DEF LeaseInv

\* LeaseInv is inductive under StoreSpec, where nobody sets the wall clock back: a closed session
\* that is still in the dictionary has expired, so acquire refuses it.
THEOREM LeaseInvariance == StoreSpec => []LeaseInv
<1>1. StoreInit => LeaseInv
  BY LeaseInvInit
<1>2. LeaseInv /\ [StoreNext]_storeVars => LeaseInv'
  BY LeaseInvKept
<1> QED
  BY <1>1, <1>2, PTL DEF StoreSpec

\* A task's lease keeps its connection open and its secrets redacted until the
\* release, whatever delete and the timers do to the session meanwhile.
THEOREM LeaseSafe == StoreSpec => []LeaseKeepsConnection
<1>1. LeaseInv => LeaseKeepsConnection
  BY DEF LeaseInv, LeaseSafety
<1> QED
  BY <1>1, LeaseInvariance, PTL

-----------------------------------------------------------------------------
(* The store implements LeasedConnections.                                 *)

Open == {s \in Sessions : sessions[s].open}
Opened == {s \in Sessions : sessions[s].phase \in {"connected", "listed"} \/ sessions[s].timer # "off"}

\* A step that opens and closes nothing is a stutter, unless it moves a lease.
LEMMA OpenKept ==
    ASSUME StoreTypeOK, NEW s \in Sessions, NEW r, Becomes(s, r), r.open = sessions[s].open,
           (r.phase \in {"connected", "listed"} \/ r.timer # "off") <=> s \in Opened
    PROVE  Open' = Open /\ Opened' = Opened
BY Lookup DEF Open, Opened

\* A retirement that closes the connection leaves it without a lease.
LEMMA Closing ==
    ASSUME StoreInv, StoreInv', NEW s \in Sessions, NEW r \in SessionRecords, Retire(s, r),
           r.open = sessions[s].open,
           (r.phase \in {"connected", "listed"} \/ r.timer # "off") <=> s \in Opened
    PROVE  /\ Opened' = Opened
           /\ \/ Open' = Open
              \/ Open' = Open \ {s} /\ (\A h \in Holders : lease'[h] # s)
<1>1. CASE r.refs # 0 /\ Becomes(s, r)
  BY <1>1, OpenKept DEF StoreInv
<1>2. CASE r.refs = 0 /\ Becomes(s, Closed(r))
  <2>1. Open' = Open \ {s} /\ Opened' = Opened
    BY <1>2, Lookup, ClosedFields DEF Open, Opened, StoreInv
  <2>2. Cardinality({g \in Holders : lease'[g] = s}) = 0
    BY <1>2, Lookup, ClosedFields DEF StoreInv, RefsCounted, LeasesOn
  <2>3. IsFiniteSet({g \in Holders : lease'[g] = s})
    BY SessionsFinite, FS_Subset
  <2>4. \A h \in Holders : lease'[h] # s
    BY <2>2, <2>3, FS_EmptySet
  <2> QED
    BY <2>1, <2>4
<1> QED
  BY <1>1, <1>2, Retired

\* The abstract step, or the stutter, that each step of the store is.
ConnectionsStep == [Connections!Next]_<<Open, Opened, lease>>

LEMMA CreationImplements ==
    ASSUME LeaseInv, NEW s \in Sessions,
           Connect(s) \/ ConnectFails(s) \/ ConnectSucceeds(s) \/ Enlist(s)
    PROVE  ConnectionsStep
<1> USE DEF LeaseInv, StoreInv, StoreTypeOK
<1>1. /\ sessions[s] \in SessionRecords
      /\ \A t \in Sessions : t # s => sessions'[t] = sessions[t]
      /\ sessions[s].phase \in Unlisted /\ sessions[s].timer = "off"
      /\ UNCHANGED lease
  BY DEF Connect, ConnectFails, ConnectSucceeds, Enlist, Step, EarlySecrets, Unlisted
<1>2. CASE Connect(s) \/ ConnectFails(s)
  <2>1. /\ sessions'[s].open = sessions[s].open /\ sessions'[s].timer = "off"
        /\ sessions'[s].phase \in {"connecting", "dropped"}
        /\ sessions[s].phase \in {"new", "connecting"}
    <3>1. CASE Connect(s)
      BY <1>1, <3>1 DEF Connect, Step, SessionRecords
    <3>2. CASE ConnectFails(s)
      BY <1>1, <3>2 DEF ConnectFails, Step, SessionRecords
    <3> QED
      BY <1>2, <3>1, <3>2
  <2>2. Open' = Open /\ Opened' = Opened
    BY <1>1, <2>1 DEF Open, Opened
  <2> QED
    BY <1>1, <2>2 DEF ConnectionsStep
<1>3. CASE ConnectSucceeds(s)
  <2> DEFINE e == Clock + Ttl
  <2>1. sessions' = [sessions EXCEPT ![s] = [sessions[s] EXCEPT !.phase = "connected",
                        !.open = TRUE, !.registered = SecretsOf(s), !.expires = e]]
        /\ sessions[s].phase = "connecting"
    BY <1>3 DEF ConnectSucceeds, Step
  <2> HIDE DEF e
  <2>2. sessions'[s].open /\ sessions'[s].phase = "connected" /\ s \notin Opened
    BY <1>1, <2>1 DEF SessionRecords, Opened
  <2>3. Open' = Open \union {s} /\ Opened' = Opened \union {s}
    BY <1>1, <2>2 DEF Open, Opened
  <2>4. Connections!Opens(s)
    BY <1>1, <2>2, <2>3 DEF Connections!Opens, Open, Opened
  <2> QED
    BY <2>4 DEF ConnectionsStep, Connections!Next
<1>4. CASE Enlist(s)
  <2> DEFINE e == now + Ttl
  <2>1. sessions' = [sessions EXCEPT ![s] = [sessions[s] EXCEPT !.phase = "listed",
                        !.timer = "set", !.timerAt = e]]
        /\ sessions[s].phase = "connected"
    BY <1>4 DEF Enlist, Step
  <2> HIDE DEF e
  <2>2. sessions'[s].open = sessions[s].open /\ sessions'[s].phase = "listed" /\ s \in Opened
    BY <1>1, <2>1 DEF SessionRecords, Opened
  <2>3. Open' = Open /\ Opened' = Opened
    BY <1>1, <2>2 DEF Open, Opened
  <2> QED
    BY <1>1, <2>3 DEF ConnectionsStep
<1> QED
  BY <1>2, <1>3, <1>4

LEMMA AcquireImplements ==
    ASSUME LeaseInv, NEW h \in Holders, NEW s \in Sessions, Acquire(h, s)
    PROVE  ConnectionsStep
<1> USE DEF LeaseInv, StoreInv
<1> DEFINE r == [sessions[s] EXCEPT !.refs = @ + 1]
<1>1. r \in SessionRecords /\ r.open = sessions[s].open /\ r.phase = "listed"
      /\ sessions[s].phase = "listed"
  BY RecordTypes DEF SessionRecords, Acquire, Listed
<1>2. Becomes(s, r)
  BY <1>1 DEF Acquire, Step, Becomes
<1> HIDE DEF r
<1>3. Open' = Open /\ Opened' = Opened
  <2>1. s \in Opened
    BY <1>1 DEF Opened
  <2> QED
    BY <1>1, <1>2, <2>1, OpenKept
<1>4. s \in Open
  BY <1>1 DEF Open, Acquire, LeaseSafety, ClosedHasExpired
<1>5. Connections!Borrows(h, s)
  BY <1>3, <1>4 DEF Connections!Borrows, Acquire, Open, Opened
<1> QED
  BY <1>5 DEF ConnectionsStep, Connections!Next

LEMMA ReleaseImplements ==
    ASSUME LeaseInv, LeaseInv', NEW h \in Holders, Release(h)
    PROVE  ConnectionsStep
<1> USE DEF LeaseInv, StoreInv
<1> DEFINE s == lease[h]
           r == [sessions[s] EXCEPT !.refs = @ - 1]
<1>1. s \in Sessions /\ s # NoSession
  BY RecordTypes DEF StoreTypeOK, Release
<1>2. sessions[s].refs - 1 \in Nat
  <2>1. h \in LeasesOn(s)
    BY DEF LeasesOn
  <2> QED
    BY <1>1, <2>1, LeasesFinite, RecordTypes DEF RefsCounted
<1>3. r \in SessionRecords /\ r.open = sessions[s].open /\ r.phase = sessions[s].phase
      /\ r.timer = sessions[s].timer
  <2>1. ASSUME NEW q \in SessionRecords, NEW n \in Nat
        PROVE  [q EXCEPT !.refs = n] \in SessionRecords
    BY DEF SessionRecords
  <2>2. r \in SessionRecords
    BY <1>1, <1>2, <2>1, RecordTypes
  <2> QED
    BY <1>1, <2>2, RecordTypes DEF SessionRecords
<1>4. (Retire(s, r) \/ Step(s, r)) /\ lease' = [lease EXCEPT ![h] = NoSession]
  BY DEF Release
<1>5. (r.phase \in {"connected", "listed"} \/ r.timer # "off") <=> s \in Opened
  BY <1>1, <1>3 DEF Opened
<1>6. Opened' = Opened /\ (Open' = Open \/ (Open' = Open \ {s} /\ \A g \in Holders : lease'[g] # s))
  <2> HIDE DEF r, s
  <2>1. CASE Retire(s, r)
    BY <1>1, <1>3, <1>5, <2>1, Closing
  <2>2. CASE Step(s, r)
    BY <1>1, <1>3, <1>5, <2>2, OpenKept DEF Step, Becomes
  <2> QED
    BY <1>4, <2>1, <2>2
<1>7. (\A g \in Holders : lease'[g] # s) => Connections!Borrowers(s) = {h}
  BY <1>1, <1>4, RecordTypes DEF Connections!Borrowers
<1>8. Connections!Returns(h)
  BY <1>1, <1>4, <1>6, <1>7 DEF Connections!Returns, Open, Opened
<1> QED
  BY <1>8 DEF ConnectionsStep, Connections!Next

LEMMA RetirementImplements ==
    ASSUME LeaseInv, LeaseInv', NEW s \in Sessions, AcquireExpired(s) \/ Delete(s) \/ Expire(s)
    PROVE  ConnectionsStep
<1> USE DEF LeaseInv, StoreInv
<1>1. PICK r \in SessionRecords :
         /\ Retire(s, r) \/ Step(s, r)
         /\ r.open = sessions[s].open
         /\ (r.phase \in {"connected", "listed"} \/ r.timer # "off") <=> s \in Opened
  <2>1. CASE AcquireExpired(s)
    BY <2>1, RecordTypes DEF AcquireExpired, Opened
  <2>2. CASE Delete(s)
    <3> DEFINE r == [sessions[s] EXCEPT !.phase = "dropped", !.revoked = TRUE]
    <3>1. /\ r \in SessionRecords /\ r.open = sessions[s].open /\ r.timer = sessions[s].timer
          /\ sessions[s].phase = "listed"
      BY <2>2, RecordTypes DEF Delete, SessionRecords, Phases
    <3>2. Retire(s, r)
      BY <2>2 DEF Delete
    <3>3. r.timer # "off" /\ s \in Opened
      BY <3>1 DEF LeaseSafety, Connected, Opened
    <3> HIDE DEF r
    <3> QED
      BY <3>1, <3>2, <3>3
  <2>3. CASE Expire(s)
    <3> DEFINE r == [sessions[s] EXCEPT !.timer = "fired"]
    <3>1. /\ r \in SessionRecords /\ r.open = sessions[s].open /\ r.timer = "fired"
      BY <2>3, RecordTypes DEF Expire, SessionRecords
    <3>2. Retire(s, r) \/ Step(s, r)
      BY <2>3 DEF Expire
    <3>3. s \in Opened
      BY <2>3 DEF Expire, Opened
    <3> HIDE DEF r
    <3> QED
      BY <3>1, <3>2, <3>3
  <2> QED
    BY <2>1, <2>2, <2>3
<1>2. UNCHANGED lease
  BY DEF AcquireExpired, Delete, Expire
<1>3. Opened' = Opened /\ (Open' = Open \/ (Open' = Open \ {s} /\ \A h \in Holders : lease'[h] # s))
  <2>1. CASE Retire(s, r)
    BY <1>1, <2>1, Closing
  <2>2. CASE Step(s, r)
    BY <1>1, <2>2, OpenKept DEF Step, Becomes
  <2> QED
    BY <1>1, <2>1, <2>2
<1>4. CASE Open' = Open
  BY <1>2, <1>3, <1>4 DEF ConnectionsStep
<1>5. CASE Open' = Open \ {s} /\ \A h \in Holders : lease'[h] # s
  <2>1. Connections!Borrowers(s) = {}
    BY <1>2, <1>5 DEF Connections!Borrowers
  <2>2. Connections!Closes(s)
    BY <1>2, <1>3, <1>5, <2>1 DEF Connections!Closes, Open, Opened
  <2> QED
    BY <2>2 DEF ConnectionsStep, Connections!Next
<1> QED
  BY <1>3, <1>4, <1>5

\* The store, with its counters, timers, revocations and expiries, is a store of
\* leased connections: a connection is lent while it is open and closed when
\* nobody has it.
THEOREM StoreImplements == StoreSpec => ImplementsConnections
<1>1. StoreInit => Connections!Init
  <2> SUFFICES ASSUME StoreInit PROVE Connections!Init
    OBVIOUS
  <2>1. \A s \in Sessions : sessions[s] = NewSession
    BY DEF StoreInit
  <2>2. ~NewSession.open /\ NewSession.phase = "new" /\ NewSession.timer = "off"
    BY Zenon DEF NewSession
  <2> QED
    BY <2>1, <2>2 DEF StoreInit, Connections!Init
<1>2. LeaseInv /\ LeaseInv' /\ [StoreNext]_storeVars => ConnectionsStep
  <2> SUFFICES ASSUME LeaseInv, LeaseInv', [StoreNext]_storeVars PROVE ConnectionsStep
    OBVIOUS
  <2>1. CASE Tick \/ UNCHANGED storeVars
    <3>1. UNCHANGED <<sessions, lease>>
      BY <2>1 DEF Tick, storeVars
    <3> QED
      BY <3>1 DEF ConnectionsStep, Open, Opened
  <2>2. ASSUME NEW s \in Sessions,
               \/ ConnectFails(s) \/ ConnectSucceeds(s) \/ Enlist(s) \/ Expire(s)
               \/ Connect(s) \/ AcquireExpired(s) \/ Delete(s)
        PROVE  ConnectionsStep
    BY <2>2, CreationImplements, RetirementImplements
  <2>3. ASSUME NEW h \in Holders, Release(h) \/ \E s \in Sessions : Acquire(h, s)
        PROVE  ConnectionsStep
    BY <2>3, ReleaseImplements, AcquireImplements
  <2> QED
    BY <2>1, <2>2, <2>3 DEF StoreNext, Background
<1>3. ConnectionsStep => [Connections!Next]_<<{s \in Sessions : sessions[s].open},
                             {s \in Sessions : sessions[s].phase \in {"connected", "listed"}
                                                 \/ sessions[s].timer # "off"},
                             lease>>
  BY DEF ConnectionsStep, Open, Opened
<1> QED
  BY <1>1, <1>2, <1>3, LeaseInvariance, PTL DEF StoreSpec, ImplementsConnections, Connections!Spec

(* ---- The task service ---- *)
-----------------------------------------------------------------------------
(* The inductive invariant.                                                *)

\* Steps at which a thread works on a session, and steps of a worker under its locks.
SessionSteps == {"opening", "acquiring", "selecting", "querying", "releasing", "deleting"}
Locked == {"preparing", "binding"} \union RunningSteps \union {"reporting", "leaving"}
WorkerSteps == Steps \ HttpSteps
LeaseSteps == {"selecting", "querying", "releasing", "submitting"} \union WorkerSteps

\* A request that arrived is on record; before that there is none.
RequestType == request \in [Holders -> Requested \union {Nobody}]

\* A request names the session its kind calls for.
RequestAt(r) ==
    step[r] # "new" =>
        /\ request[r] \in Requested
        /\ Kind(r).ssh = "no" <=> SessionOf(r) = NoSession
        /\ step[r] \in SessionSteps => Kind(r).ssh # "no"
        /\ step[r] \in {"opening", "deleting"} => Kind(r).ssh = "own"

\* The lease a thread has.
LeaseAt(r) ==
    /\ step[r] \in {"new", "opening", "acquiring", "ended"} => lease[r] = NoSession
    /\ step[r] \in LeaseSteps => lease[r] = SessionOf(r)
    /\ step[r] = "deleting" => lease[r] \in {NoSession, SessionOf(r)}

\* The status of the task record.
StatusAt(r) ==
    /\ step[r] \in HttpSteps \ {"ended"} => status[r] = "absent"
    /\ step[r] \in WaitingSteps \union {"binding", "refusing"} => status[r] = "pending"
    /\ step[r] \in RunningSteps \union {"reporting"} => status[r] = "running"
    /\ step[r] \in {"leaving", "returning"} => status[r] \in TerminalStatus
    /\ step[r] = "ended" => status[r] \in TerminalStatus \union {"absent"}

\* Where a cancel can still meet the thread.
CancelAt(r) ==
    /\ status[r] = "absent" => cancelled[r] = "never"
    /\ cancelled[r] = "waiting" => step[r] \in WaitingSteps \/ status[r] = "cancelled"
    /\ cancelled[r] = "running" =>
         \/ step[r] \in RunningSteps \union {"binding", "refusing"}
         \/ status[r] \in {"failed", "cancelled"}
    /\ step[r] = "reporting" => cancelled[r] \in {"never", "late"}

\* The result file of an optimisation task.
ResultAt(r) ==
    /\ step[r] = "new" => sourceResult[r] = "none"
    /\ step[r] # "new" /\ Kind(r).optimise =>
        /\ step[r] \in (HttpSteps \ {"ended"}) \union WaitingSteps
                       \union {"binding", "refusing", "configuring"} => sourceResult[r] = "none"
        /\ step[r] \in {"preflight", "searching", "measuring", "searched", "bound"} =>
             sourceResult[r] \in {"running", "unavailable"}
        /\ step[r] = "optimising" => sourceResult[r] = "running"
        /\ step[r] \in {"finishing", "reporting"} =>
             sourceResult[r] \in {"completed", "unavailable"}
        /\ status[r] \in TerminalStatus =>
             /\ sourceResult[r] # "running"
             /\ status[r] = "completed" => sourceResult[r] \in {"completed", "unavailable"}
             /\ status[r] = "failed" => sourceResult[r] \in {"failed", "none"}

ThreadInv(r) == RequestAt(r) /\ LeaseAt(r) /\ StatusAt(r) /\ CancelAt(r) /\ ResultAt(r)

\* Who holds the slot and the connection.
LocksAt(r) ==
    /\ step[r] \in Locked \union {"slot"} => workerLock = r
    /\ step[r] \in Locked \union {"querying"} /\ HasSession(r) => operation[SessionOf(r)] = r

\* What the shared runner carries while a task runs.
RunnerAt(r) ==
    step[r] \in RunningSteps /\ HasSession(r) =>
        /\ runner[SessionOf(r)].workspace = r
        /\ step[r] = "measuring" => runner[SessionOf(r)].timeout = r
        /\ step[r] \in {"searched", "bound", "optimising"} =>
             runner[SessionOf(r)].timeout = r \/ CancelRequested(r)

\* Whose session it is, and how far it is on its way to be closed.
OwnerAt(r) ==
    step[r] # "new" /\ HasSession(r) =>
        owner[SessionOf(r)] = IF Kind(r).ssh = "own" THEN r ELSE "user"

OwnAt(r) ==
    step[r] # "new" /\ Kind(r).ssh = "own" =>
        LET phase == sessions[SessionOf(r)].phase IN
        /\ step[r] = "opening" => phase \in {"connecting", "connected", "listed", "dropped"}
        /\ step[r] \in {"acquiring", "selecting", "querying", "deleting"} => phase = "listed"
        /\ step[r] = "releasing" => phase \in {"listed", "dropped"}
        /\ step[r] \in {"submitting", "ended"} \union WorkerSteps => phase = "dropped"

\* A session out of the dictionary is closed by its last lease.
ClosingOrder == \A s \in Sessions :
    /\ sessions[s].phase \in {"new", "connecting"} => ~sessions[s].open
    /\ sessions[s].phase = "dropped" /\ sessions[s].refs = 0 =>
         ~sessions[s].open /\ sessions[s].registered = {}
    /\ sessions[s].phase = "dropped" /\ sessions[s].refs # 0 => sessions[s].revoked
    /\ sessions[s].revoked => sessions[s].phase = "dropped"

-----------------------------------------------------------------------------

\* The steps of an HTTP thread: where it goes, and what it touches besides.
LEMMA HttpMoves ==
    ASSUME NEW r \in Holders, HttpStep(r)
    PROVE  /\ UNCHANGED <<request, owner, workerLock, cancelled, sourceResult>>
           /\ step[r] \in HttpSteps \ {"new", "ended"}
           /\ \E to \in (HttpSteps \ {"new", "opening"}) \union {"queued"} :
                step' = [step EXCEPT ![r] = to]
           /\ UNCHANGED status \/ Submitted(r)
           /\ \/ UNCHANGED storeVars
              \/ LeaseGranted(r) \/ LeaseExpired(r) \/ RequestReleases(r) \/ DeletesOwn(r)
           /\ \/ UNCHANGED <<operation, runner>>
              \/ TakesRunner(r) \/ \E ok \in BOOLEAN : Queried(r, ok)
<1> USE DEF HttpStep, SessionOpened, SessionRefused, LeaseGranted, LeaseExpired, LeaseUnknown,
        TakesRunner, Queried, RequestReleases, DeletesOwn, Submitted, SubmitRaises, lockVars,
        taskVars
<1>1. UNCHANGED <<request, owner, workerLock, cancelled, sourceResult>>
  OBVIOUS
<1>2. step[r] \in HttpSteps \ {"new", "ended"}
  BY DEF Goes, HttpSteps
<1>3. \E to \in (HttpSteps \ {"new", "opening"}) \union {"queued"} : step' = [step EXCEPT ![r] = to]
  BY DEF Goes, CleanUp, HttpSteps
<1>4. /\ \/ UNCHANGED storeVars
         \/ LeaseGranted(r) \/ LeaseExpired(r) \/ RequestReleases(r) \/ DeletesOwn(r)
      /\ \/ UNCHANGED <<operation, runner>>
         \/ TakesRunner(r) \/ \E ok \in BOOLEAN : Queried(r, ok)
      /\ UNCHANGED status \/ Submitted(r)
  OBVIOUS
<1> QED
  BY ONLY <1>1, <1>2, <1>3, <1>4

\* The steps of a worker thread: where it goes, and what it touches besides.
LEMMA WorkerMoves ==
    ASSUME NEW r \in Holders, WorkerStep(r)
    PROVE  /\ UNCHANGED <<request, owner, cancelled>>
           /\ step[r] \in WorkerSteps
           /\ \/ WorkerReleases(r) /\ step' = [step EXCEPT ![r] = "ended"]
              \/ /\ UNCHANGED storeVars
                 /\ \E to \in WorkerSteps : step' = [step EXCEPT ![r] = to]
           /\ UNCHANGED runner \/ Configures(r, "workspace") \/ Configures(r, "timeout")
           /\ \/ UNCHANGED <<workerLock, operation>>
              \/ TakesSlot(r) \/ TakesOperation(r) \/ Unlocks(r)
           /\ UNCHANGED status \/ \E value \in TaskStatus : SetStatus(r, value)
           /\ UNCHANGED sourceResult \/ \E value \in SourceStatus : WriteResult(r, value)
<1> USE DEF WorkerStep, TakesSlot, TakesOperation, CancelledBeforeStart, StartsPreparing, Prepared,
        PrepareRaises, PrepareFailureRecorded, Configured, PreflightPasses, PreflightCancelled,
        SearchStarts, SearchSkipped, SearchEnds, CancelledInBaseline, BaselineAccepted,
        DeviceVerified, EngineReturns, PassesFinalCheck, FinishCancelled, Completed, Raises, Leaves,
        WorkerReleases, lockVars, taskVars
<1>1. UNCHANGED <<request, owner, cancelled>>
  OBVIOUS
<1>2. step[r] \in WorkerSteps
  BY DEF Goes, WorkerSteps, Steps, HttpSteps, WaitingSteps, RunningSteps, LateSteps
<1>3. \/ WorkerReleases(r) /\ step' = [step EXCEPT ![r] = "ended"]
      \/ /\ UNCHANGED storeVars
         /\ \E to \in WorkerSteps : step' = [step EXCEPT ![r] = to]
  BY DEF Goes, WorkerSteps, Steps, HttpSteps, WaitingSteps, RunningSteps, LateSteps
<1>4. UNCHANGED runner \/ Configures(r, "workspace") \/ Configures(r, "timeout")
  OBVIOUS
<1>5. \/ UNCHANGED <<workerLock, operation>>
      \/ TakesSlot(r) \/ TakesOperation(r) \/ Unlocks(r)
  OBVIOUS
<1>6. /\ UNCHANGED status \/ \E value \in TaskStatus : SetStatus(r, value)
      /\ UNCHANGED sourceResult \/ \E value \in SourceStatus : WriteResult(r, value)
  BY DEF EngineOutcomes, TaskStatus, SourceStatus
<1> QED
  BY ONLY <1>1, <1>2, <1>3, <1>4, <1>5, <1>6

\* A session a request names exists.
LEMMA SessionNamed ==
    ASSUME NEW r \in Holders, RequestAt(r), step[r] # "new"
    PROVE  /\ Kind(r) \in Kinds /\ SessionOf(r) \in Sessions \union {NoSession}
           /\ Kind(r).ssh # "no" => SessionOf(r) \in Sessions
           /\ step[r] \in SessionSteps => SessionOf(r) \in Sessions
BY DEF RequestAt, Requested, Kind, SessionOf

\* Every step of the service is a step of the store, or leaves it alone.
LEMMA StoreSteps ==
    ASSUME TypeOK, \A r \in Holders : RequestAt(r), [Next]_vars
    PROVE  [StoreNext \/ SetBack]_storeVars
<1>1. CASE UNCHANGED storeVars
  BY <1>1
<1>2. ASSUME NEW s \in Sessions, Connect(s) \/ AcquireExpired(s) \/ Delete(s)
      PROVE  StoreNext
  BY <1>2 DEF StoreNext
<1>3. ASSUME NEW h \in Holders, Release(h) \/ \E s \in Sessions : Acquire(h, s)
      PROVE  StoreNext
  BY <1>3 DEF StoreNext
<1>4. CASE UNCHANGED vars
  BY <1>1, <1>4 DEF vars
<1>5. CASE StoreBackground
  BY <1>5 DEF StoreBackground, StoreNext
<1>6. CASE UserStep
  <2>1. ASSUME NEW r \in Holders, NEW kind \in Kinds,
               \/ ArrivesWithoutSsh(r, kind)
               \/ \E s \in Sessions : ArrivesOnSession(r, kind, s) \/ ArrivesWithSettings(r, kind, s)
        PROVE  StoreNext \/ UNCHANGED storeVars
    BY <2>1, <1>2 DEF ArrivesWithoutSsh, ArrivesOnSession, ArrivesWithSettings
  <2>2. ASSUME NEW s \in Sessions, UserConnects(s) \/ UserDeletes(s)
        PROVE  StoreNext
    BY <2>2, <1>2 DEF UserConnects, UserDeletes
  <2>3. ASSUME NEW r \in Holders, RequestCancel(r)
        PROVE  UNCHANGED storeVars
    BY <2>3 DEF RequestCancel
  <2> QED
    BY <1>6, <2>1, <2>2, <2>3 DEF UserStep, Arrival
<1>7. ASSUME NEW r \in Holders, HttpStep(r)
      PROVE  StoreNext \/ UNCHANGED storeVars
  <2>1. CASE LeaseGranted(r) \/ LeaseExpired(r) \/ DeletesOwn(r)
    <3>1. SessionOf(r) \in Sessions
      BY <2>1, SessionNamed DEF LeaseGranted, LeaseExpired, DeletesOwn, Goes, SessionSteps
    <3> QED
      BY <1>2, <1>3, <2>1, <3>1 DEF LeaseGranted, LeaseExpired, DeletesOwn
  <2>2. CASE RequestReleases(r)
    BY <1>3, <2>2 DEF RequestReleases
  <2> QED
    BY <1>7, <2>1, <2>2, HttpMoves
<1>8. ASSUME NEW r \in Holders, WorkerStep(r)
      PROVE  StoreNext \/ UNCHANGED storeVars
  BY <1>3, <1>8, WorkerMoves DEF WorkerReleases
<1> QED
  BY <1>4, <1>5, <1>6, <1>7, <1>8 DEF Next, ThreadStep

-----------------------------------------------------------------------------
(* One thread at a time.                                                   *)

\* What thread q is about and what the service has recorded of its task.
Stays(q) ==
    /\ step'[q] = step[q] /\ request'[q] = request[q] /\ lease'[q] = lease[q]
    /\ status'[q] = status[q] /\ cancelled'[q] = cancelled[q] /\ sourceResult'[q] = sourceResult[q]

\* A thread nobody stepped keeps what is known of it.
LEMMA ThreadStays ==
    ASSUME NEW q \in Holders, ThreadInv(q), Stays(q)
    PROVE  ThreadInv(q)'
BY DEF ThreadInv, RequestAt, LeaseAt, StatusAt, CancelAt, ResultAt, Stays, Kind, SessionOf

\* The functions a step changes at one thread only.
LEMMA ThreadTypes ==
    ASSUME TypeOK, RequestType
    PROVE  /\ step \in [Holders -> Steps] /\ request \in [Holders -> Requested \union {Nobody}]
           /\ lease \in [Holders -> Sessions \union {NoSession}]
           /\ status \in [Holders -> TaskStatus] /\ cancelled \in [Holders -> CancelTimes]
           /\ sourceResult \in [Holders -> SourceStatus]
BY DEF TypeOK, StoreTypeOK, RequestType

\* An HTTP thread changes the records of its own request only.
LEMMA HttpStaysOthers ==
    ASSUME TypeOK, RequestType, NEW r \in Holders, HttpStep(r), NEW q \in Holders, q # r
    PROVE  Stays(q)
<1> USE ThreadTypes DEF Stays, threadVars, lockVars, taskVars, storeVars, Goes, SetStatus
<1>1. CASE SessionOpened(r) \/ SessionRefused(r) \/ LeaseUnknown(r) \/ TakesRunner(r)
           \/ (\E ok \in BOOLEAN : Queried(r, ok)) \/ Submitted(r) \/ SubmitRaises(r)
  BY <1>1
     DEF SessionOpened, SessionRefused, LeaseUnknown, TakesRunner, Queried, Submitted,
         SubmitRaises
<1>2. CASE LeaseGranted(r) \/ LeaseExpired(r)
  BY <1>2 DEF LeaseGranted, LeaseExpired, Acquire, AcquireExpired
<1>3. CASE RequestReleases(r) \/ DeletesOwn(r)
  BY <1>3 DEF RequestReleases, DeletesOwn, Release, Delete
<1> QED
  BY <1>1, <1>2, <1>3 DEF HttpStep

\* A worker thread changes the records of its own task only.
LEMMA WorkerStaysOthers ==
    ASSUME TypeOK, RequestType, NEW r \in Holders, WorkerStep(r), NEW q \in Holders, q # r
    PROVE  Stays(q)
<1> USE ThreadTypes DEF Stays, threadVars, lockVars, taskVars, storeVars, Goes, SetStatus
<1>1. CASE \/ TakesSlot(r) \/ TakesOperation(r) \/ StartsPreparing(r) \/ Prepared(r)
           \/ PrepareRaises(r) \/ PrepareFailureRecorded(r) \/ PreflightPasses(r)
           \/ SearchStarts(r) \/ SearchSkipped(r) \/ SearchEnds(r) \/ BaselineAccepted(r)
           \/ DeviceVerified(r) \/ PassesFinalCheck(r) \/ FinishCancelled(r) \/ Completed(r) \/ Leaves(r)
  BY <1>1
     DEF TakesSlot, TakesOperation, StartsPreparing, Prepared, PrepareRaises,
         PrepareFailureRecorded, PreflightPasses, SearchStarts, SearchSkipped, SearchEnds,
         BaselineAccepted, DeviceVerified, PassesFinalCheck, FinishCancelled, Completed, Leaves
<1>2. CASE \/ CancelledBeforeStart(r) \/ PreflightCancelled(r) \/ CancelledInBaseline(r) \/ Raises(r)
           \/ \E targets \in BOOLEAN : Configured(r, targets)
  BY <1>2
     DEF CancelledBeforeStart, PreflightCancelled, CancelledInBaseline, Raises, Configured,
         WriteResult
<1>3. ASSUME NEW outcome, EngineReturns(r, outcome) PROVE Stays(q)
  BY <1>3 DEF EngineReturns, WriteResult
<1>4. CASE WorkerReleases(r)
  BY <1>4 DEF WorkerReleases, Release
<1> QED
  BY <1>1, <1>2, <1>3, <1>4 DEF WorkerStep

-----------------------------------------------------------------------------
(* A thread's own step keeps what is known of it.                          *)

\* What holds of the thread while its record is unwritten and its task unsubmitted.
Unsubmitted(r) ==
    status[r] = "absent" /\ cancelled[r] = "never" /\ (Kind(r).optimise => sourceResult[r] = "none")

\* Every step of an HTTP handler, from opening its session to starting the worker thread.
LEMMA HttpKeepsThread ==
    ASSUME TypeOK, RequestType, NEW r \in Holders, ThreadInv(r), OwnerAt(r), HttpStep(r)
    PROVE  ThreadInv(r)'
<1> USE ThreadTypes DEF Goes
<1>1. /\ step[r] \in HttpSteps \ {"new", "ended"}
      /\ UNCHANGED <<request, cancelled, sourceResult, owner>>
      /\ Unsubmitted(r)
  <2>1. step[r] \in HttpSteps \ {"new", "ended"}
    BY HttpMoves
  <2>2. UNCHANGED <<request, cancelled, sourceResult, owner>>
    BY HttpMoves
  <2>3. Unsubmitted(r)
    BY <2>1 DEF ThreadInv, StatusAt, CancelAt, ResultAt, Unsubmitted
  <2> QED
    BY <2>1, <2>2, <2>3
<1>2. request[r] \in Requested /\ Kind(r) \in Kinds
      /\ (step[r] \in SessionSteps => SessionOf(r) \in Sessions)
  BY <1>1, SessionNamed DEF ThreadInv, RequestAt
<1>3. owner[SessionOf(r)] = r /\ SessionOf(r) \in Sessions => Kind(r).ssh = "own"
  BY <1>1, <1>2, DistinctNames, NobodyHoldsNothing DEF OwnerAt, HasSession
  \* A step that submits nothing keeps the record as it is.
<1>4. ASSUME status'[r] = status[r], step'[r] \in HttpSteps \ {"new", "opening"},
             LeaseAt(r)',
             step'[r] \in SessionSteps => step[r] \in SessionSteps \/ Kind(r).ssh # "no",
             step'[r] = "deleting" => Kind(r).ssh = "own"
      PROVE  ThreadInv(r)'
  <2>1. RequestAt(r)'
    BY <1>1, <1>4 DEF ThreadInv, RequestAt, Kind, SessionOf, HttpSteps, SessionSteps
  <2>2. StatusAt(r)' /\ CancelAt(r)' /\ ResultAt(r)'
    BY <1>1, <1>4
       DEF StatusAt, CancelAt, ResultAt, Unsubmitted, Kind, HttpSteps, WaitingSteps,
           RunningSteps, TerminalStatus
  <2> QED
    BY <1>4, <2>1, <2>2 DEF ThreadInv
<1>5. CASE SessionOpened(r) \/ SessionRefused(r) \/ LeaseUnknown(r) \/ TakesRunner(r)
           \/ \E ok \in BOOLEAN : Queried(r, ok)
  <2>1. lease' = lease /\ status' = status
    BY <1>5
       DEF SessionOpened, SessionRefused, LeaseUnknown, TakesRunner, Queried, taskVars,
           storeVars
  <2>2. /\ step[r] \in SessionSteps
        /\ step'[r] \in HttpSteps \ {"new", "opening"}
        /\ step'[r] = "deleting" => owner[SessionOf(r)] = r
        /\ LeaseAt(r)'
    <3> USE DEF SessionSteps, HttpSteps, Steps, ThreadInv, LeaseAt, LeaseSteps, WaitingSteps,
            RunningSteps, LateSteps, SessionOf, WorkerSteps
    <3>1. CASE SessionOpened(r) \/ SessionRefused(r) \/ LeaseUnknown(r) \/ TakesRunner(r)
      BY <2>1, <3>1 DEF SessionOpened, SessionRefused, LeaseUnknown, TakesRunner
    <3>2. ASSUME NEW ok \in BOOLEAN, Queried(r, ok)
          PROVE  /\ step[r] \in SessionSteps
                 /\ step'[r] \in HttpSteps \ {"new", "opening"}
                 /\ step'[r] = "deleting" => owner[SessionOf(r)] = r
                 /\ LeaseAt(r)'
      BY <1>1, <2>1, <3>2 DEF Queried
    <3> QED
      BY <1>5, <3>1, <3>2
  <2> QED
    BY <1>2, <1>3, <1>4, <2>1, <2>2
<1>6. CASE LeaseGranted(r)
  <2>1. step[r] = "acquiring" /\ step'[r] = "selecting" /\ lease'[r] = SessionOf(r) /\ status' = status
    BY <1>6 DEF LeaseGranted, Acquire, taskVars
  <2>2. LeaseAt(r)'
    BY <1>1, <2>1 DEF LeaseAt, SessionOf
  <2> QED
    BY <1>4, <2>1, <2>2 DEF SessionSteps, HttpSteps
<1>7. CASE LeaseExpired(r) \/ RequestReleases(r)
  <2>1. /\ step[r] \in {"acquiring", "releasing"} /\ step'[r] = CleanUp(r)
        /\ lease'[r] = NoSession /\ status' = status
    BY <1>7
       DEF LeaseExpired, RequestReleases, AcquireExpired, Release, ThreadInv, LeaseAt,
           taskVars
  <2>2. step'[r] \in {"deleting", "ended"} /\ (step'[r] = "deleting" => owner[SessionOf(r)] = r)
    BY <2>1 DEF CleanUp
  <2>3. LeaseAt(r)'
    BY <2>1, <2>2 DEF LeaseAt, LeaseSteps, WorkerSteps, Steps, HttpSteps
  <2> QED
    BY <1>2, <1>3, <1>4, <2>1, <2>2, <2>3 DEF SessionSteps, HttpSteps
<1>8. CASE DeletesOwn(r)
  <2>1. /\ step[r] = "deleting" /\ step'[r] = (IF lease[r] # NoSession THEN "submitting" ELSE "ended")
        /\ lease' = lease /\ status' = status
    BY <1>8 DEF DeletesOwn, Delete, taskVars
  <2>2. LeaseAt(r)'
    BY <1>1, <2>1 DEF ThreadInv, LeaseAt, LeaseSteps, WorkerSteps, Steps, HttpSteps, SessionOf
  <2> QED
    BY <1>4, <2>1, <2>2 DEF SessionSteps, HttpSteps
<1>9. CASE SubmitRaises(r)
  <2>1. /\ step[r] = "submitting" /\ step'[r] = (IF lease[r] # NoSession THEN "releasing" ELSE "ended")
        /\ lease' = lease /\ status' = status
    BY <1>9 DEF SubmitRaises, taskVars, storeVars
  <2>2. lease[r] = SessionOf(r) /\ (SessionOf(r) # NoSession => Kind(r).ssh # "no")
    BY <1>1, <2>1 DEF ThreadInv, LeaseAt, LeaseSteps, RequestAt
  <2>3. LeaseAt(r)'
    BY <1>1, <2>1, <2>2 DEF LeaseAt, LeaseSteps, WorkerSteps, Steps, HttpSteps, SessionOf
  <2> QED
    BY <1>4, <2>1, <2>2, <2>3 DEF SessionSteps, HttpSteps
<1>10. CASE Submitted(r)
  <2>1. /\ step[r] = "submitting" /\ step'[r] = "queued" /\ status'[r] = "pending" /\ lease' = lease
    BY <1>10 DEF Submitted, SetStatus, storeVars
  <2>2. lease[r] = SessionOf(r)
    BY <2>1 DEF ThreadInv, LeaseAt, LeaseSteps
  <2>3. RequestAt(r)' /\ LeaseAt(r)'
    BY <1>1, <1>2, <2>1, <2>2 DEF ThreadInv, RequestAt, LeaseAt, Kind, SessionOf, SessionSteps
  <2>4. StatusAt(r)' /\ CancelAt(r)' /\ ResultAt(r)'
    BY <1>1, <2>1
       DEF StatusAt, CancelAt, ResultAt, Unsubmitted, Kind, HttpSteps, WaitingSteps,
           RunningSteps, TerminalStatus
  <2> QED
    BY <2>3, <2>4 DEF ThreadInv
<1> QED
  BY <1>5, <1>6, <1>7, <1>8, <1>9, <1>10 DEF HttpStep

\* Every step of JobWorker._run_task and _run_task_locked, their except and finally clauses too.
LEMMA WorkerKeepsThread ==
    ASSUME TypeOK, RequestType, NEW r \in Holders, ThreadInv(r), WorkerStep(r)
    PROVE  ThreadInv(r)'
<1> USE ThreadTypes DEF Goes
<1>1. /\ UNCHANGED <<request, cancelled>>
      /\ step[r] \in WorkerSteps /\ step'[r] \in WorkerSteps \union {"ended"}
  BY WorkerMoves
<1>2. RequestAt(r)'
  BY <1>1 DEF ThreadInv, RequestAt, Kind, SessionOf, WorkerSteps, HttpSteps, SessionSteps
<1>3. lease[r] = SessionOf(r)
  BY <1>1 DEF ThreadInv, LeaseAt, LeaseSteps, WorkerSteps
<1>4. LeaseAt(r)'
  <2>1. CASE WorkerReleases(r)
    <3>1. step'[r] = "ended" /\ lease'[r] = NoSession
      BY <2>1 DEF WorkerReleases, Release, storeVars
    <3> QED
      BY <3>1 DEF LeaseAt, LeaseSteps, WorkerSteps, Steps, HttpSteps
  <2>2. CASE ~WorkerReleases(r)
    <3>1. lease' = lease /\ step'[r] \in WorkerSteps
      BY <2>2, WorkerMoves DEF storeVars
    <3> QED
      BY <1>1, <1>3, <3>1 DEF LeaseAt, WorkerSteps, HttpSteps, SessionOf
  <2> QED
    BY <2>1, <2>2
  \* What the status, the flag and the result file say depends on the step alone.
<1>5. ASSUME StatusAt(r)', CancelAt(r)', ResultAt(r)' PROVE ThreadInv(r)'
  BY <1>2, <1>4, <1>5 DEF ThreadInv
<1>6. step[r] # "new" /\ (Kind(r).optimise \in BOOLEAN) /\ Kind(r)' = Kind(r)
  <2>1. Kind(r) \in Kinds
    BY <1>1 DEF ThreadInv, RequestAt, Requested, Kind, WorkerSteps, HttpSteps
  <2> QED
    BY <1>1, <2>1, KindsValid DEF Kind, WorkerSteps, HttpSteps
<1>7. StatusAt(r) /\ CancelAt(r) /\ ResultAt(r)
  BY DEF ThreadInv
<1> USE <1>1, <1>5, <1>6, <1>7
    DEF taskVars, StatusAt, CancelAt, ResultAt, HttpSteps, WaitingSteps, RunningSteps,
        TerminalStatus, SetStatus, WriteResult, CancelRequested, Kind
<1>8. CASE TakesSlot(r) \/ TakesOperation(r) \/ StartsPreparing(r)
  BY <1>8 DEF TakesSlot, TakesOperation, StartsPreparing
<1>9. CASE PrepareRaises(r) \/ PreflightPasses(r) \/ SearchStarts(r) \/ SearchSkipped(r) \/ SearchEnds(r)
  BY <1>9 DEF PrepareRaises, PreflightPasses, SearchStarts, SearchSkipped, SearchEnds
<1>10. CASE BaselineAccepted(r) \/ DeviceVerified(r)
  BY <1>10 DEF BaselineAccepted, DeviceVerified
<1>11. CASE PassesFinalCheck(r)
  BY <1>11 DEF PassesFinalCheck
<1>12. CASE Leaves(r) \/ WorkerReleases(r)
  BY <1>12 DEF Leaves, WorkerReleases
<1>13. CASE Prepared(r) \/ PrepareFailureRecorded(r)
  BY <1>13 DEF Prepared, PrepareFailureRecorded
<1>14. CASE CancelledBeforeStart(r) \/ PreflightCancelled(r) \/ CancelledInBaseline(r)
  BY <1>14 DEF CancelledBeforeStart, PreflightCancelled, CancelledInBaseline
<1>15. CASE FinishCancelled(r) \/ Completed(r)
  BY <1>15 DEF FinishCancelled, Completed
<1>16. CASE Raises(r)
  BY <1>16 DEF Raises
<1>17. ASSUME NEW targets \in BOOLEAN, Configured(r, targets) PROVE ThreadInv(r)'
  BY <1>17 DEF Configured
<1>18. ASSUME NEW outcome \in EngineOutcomes(r), EngineReturns(r, outcome) PROVE ThreadInv(r)'
  BY <1>18 DEF EngineReturns, EngineOutcomes
<1> QED
  BY <1>8, <1>9, <1>10, <1>11, <1>12, <1>13, <1>14, <1>15, <1>16, <1>17, <1>18 DEF WorkerStep

\* A request arrives.
LEMMA ArrivalKeepsThread ==
    ASSUME TypeOK, RequestType, NEW r \in Holders, ThreadInv(r), NEW kind \in Kinds,
           \/ ArrivesWithoutSsh(r, kind)
           \/ \E s \in Sessions : ArrivesOnSession(r, kind, s) \/ ArrivesWithSettings(r, kind, s)
    PROVE  /\ ThreadInv(r)'
           /\ \A q \in Holders : q # r => Stays(q)
<1> USE ThreadTypes DEF Goes, Asks
<1> DEFINE Arrived(s) ==
         /\ request' = [request EXCEPT ![r] = [kind |-> kind, session |-> s]]
         /\ s = NoSession <=> kind.ssh = "no"
         /\ step[r] = "new"
         /\ \/ step' = [step EXCEPT ![r] = "submitting"] /\ s = NoSession
            \/ step' = [step EXCEPT ![r] = "acquiring"] /\ s # NoSession
            \/ step' = [step EXCEPT ![r] = "opening"] /\ kind.ssh = "own"
         /\ UNCHANGED lease /\ UNCHANGED taskVars
<1>1. PICK s \in Sessions \union {NoSession} : Arrived(s)
  <2>1. CASE ArrivesWithoutSsh(r, kind)
    <3>1. Arrived(NoSession)
      BY <2>1 DEF ArrivesWithoutSsh, storeVars
    <3> QED
      BY <3>1
  <2>2. ASSUME NEW s \in Sessions, ArrivesOnSession(r, kind, s) \/ ArrivesWithSettings(r, kind, s)
        PROVE  Arrived(s)
    BY <2>2, DistinctNames DEF ArrivesOnSession, ArrivesWithSettings, storeVars, Connect
  <2> QED
    BY <2>1, <2>2
<1>2. /\ request'[r] = [kind |-> kind, session |-> s] /\ Kind(r)' = kind /\ SessionOf(r)' = s
      /\ request'[r] \in Requested
  BY <1>1 DEF Kind, SessionOf, Requested
<1>3. RequestAt(r)' /\ LeaseAt(r)'
  BY <1>1, <1>2 DEF RequestAt, LeaseAt, ThreadInv, SessionSteps, LeaseSteps, WorkerSteps, HttpSteps
<1>4. status[r] = "absent" /\ cancelled[r] = "never" /\ sourceResult[r] = "none"
  BY <1>1 DEF ThreadInv, StatusAt, CancelAt, ResultAt, HttpSteps
<1>5. StatusAt(r)' /\ CancelAt(r)' /\ ResultAt(r)'
  BY <1>1, <1>4
     DEF StatusAt, CancelAt, ResultAt, HttpSteps, WaitingSteps, RunningSteps, TerminalStatus,
         taskVars
<1>6. \A q \in Holders : q # r => Stays(q)
  BY <1>1 DEF Stays, taskVars
<1> QED
  BY <1>3, <1>5, <1>6 DEF ThreadInv

\* Whoever steps, every thread keeps what is known of it.
LEMMA ThreadsKept ==
    ASSUME TypeOK, RequestType, \A r \in Holders : ThreadInv(r) /\ OwnerAt(r), [Next]_vars,
           NEW q \in Holders
    PROVE  ThreadInv(q)'
<1> USE ThreadTypes
<1>1. CASE UNCHANGED <<step, request, lease, taskVars>>
  BY <1>1, ThreadStays DEF Stays, taskVars
<1>2. ASSUME NEW r \in Holders, ThreadStep(r) PROVE ThreadInv(q)'
  <2>1. CASE q = r
    BY <1>2, <2>1, HttpKeepsThread, WorkerKeepsThread DEF ThreadStep
  <2>2. CASE q # r
    BY <1>2, <2>2, HttpStaysOthers, WorkerStaysOthers, ThreadStays DEF ThreadStep
  <2> QED
    BY <2>1, <2>2
<1>3. ASSUME NEW r \in Holders, RequestCancel(r) PROVE ThreadInv(q)'
  <2>1. /\ UNCHANGED <<step, request, lease, status, sourceResult>>
        /\ cancelled' = [cancelled EXCEPT ![r] = IF step[r] \in WaitingSteps THEN "waiting"
                                                 ELSE IF step[r] \in RunningSteps \union {"binding"}
                                                 THEN "running" ELSE "late"]
        /\ status[r] # "absent"
    BY <1>3 DEF RequestCancel, storeVars, threadVars
  <2>2. RequestAt(q)' /\ LeaseAt(q)' /\ StatusAt(q)' /\ ResultAt(q)'
    BY <2>1 DEF ThreadInv, RequestAt, LeaseAt, StatusAt, ResultAt, Kind, SessionOf
  <2>3. CancelAt(q)'
    <3>1. CASE q = r
      <4>1. cancelled'[r] = IF step[r] \in WaitingSteps THEN "waiting"
                            ELSE IF step[r] \in RunningSteps \union {"binding"} THEN "running"
                            ELSE "late"
        BY <2>1
      <4> QED
        BY <2>1, <3>1, <4>1 DEF CancelAt, WaitingSteps, RunningSteps
    <3>2. CASE q # r
      BY <2>1, <3>2 DEF ThreadInv, CancelAt
    <3> QED
      BY <3>1, <3>2
  <2> QED
    BY <2>2, <2>3 DEF ThreadInv
<1>4. CASE UserStep
  <2>1. CASE Arrival
    BY <2>1, ArrivalKeepsThread, ThreadStays DEF Arrival
  <2>2. ASSUME NEW s \in Sessions, UserConnects(s) \/ UserDeletes(s) PROVE ThreadInv(q)'
    BY <1>1, <2>2 DEF UserConnects, UserDeletes, Connect, Delete, threadVars
  <2> QED
    BY <1>3, <1>4, <2>1, <2>2 DEF UserStep
<1>5. CASE StoreBackground
  <2>1. UNCHANGED lease
    BY <1>5
       DEF StoreBackground, Background, SetBack, ConnectFails, ConnectSucceeds, Enlist,
           Expire, Tick
  <2> QED
    BY <1>1, <1>5, <2>1 DEF StoreBackground, threadVars
<1>6. CASE UNCHANGED vars
  BY <1>1, <1>6 DEF vars, threadVars, storeVars
<1> QED
  BY <1>2, <1>4, <1>5, <1>6 DEF Next

-----------------------------------------------------------------------------
(* Types.                                                                  *)

\* Only the named setting of the named session's runner changes.
LEMMA RunnerConfigured ==
    ASSUME TypeOK, NEW r \in Holders, SessionOf(r) \in Sessions \union {NoSession},
           NEW field \in {"workspace", "timeout"}, Configures(r, field)
    PROVE  /\ runner' \in [Sessions -> RunnerSettings]
           /\ \A t \in Sessions : t # SessionOf(r) => runner'[t] = runner[t]
           /\ HasSession(r) =>
                /\ runner'[SessionOf(r)].workspace =
                     IF field = "workspace" THEN r ELSE runner[SessionOf(r)].workspace
                /\ runner'[SessionOf(r)].timeout =
                     IF field = "timeout" THEN r ELSE runner[SessionOf(r)].timeout
<1>1. runner \in [Sessions -> RunnerSettings]
  BY DEF TypeOK
<1>2. CASE ~HasSession(r)
  BY <1>1, <1>2 DEF Configures, HasSession
<1>3. CASE HasSession(r)
  <2> DEFINE S == SessionOf(r)
             set == [runner[S] EXCEPT ![field] = r]
  <2>1. S \in Sessions /\ runner' = [runner EXCEPT ![S] = set] /\ runner[S] \in RunnerSettings
    BY <1>1, <1>3 DEF Configures, HasSession
  <2>2. /\ set \in RunnerSettings
        /\ set.workspace = (IF field = "workspace" THEN r ELSE runner[S].workspace)
        /\ set.timeout = (IF field = "timeout" THEN r ELSE runner[S].timeout)
    BY <2>1 DEF RunnerSettings
  <2> HIDE DEF set
  <2> QED
    BY <1>1, <2>1, <2>2
<1> QED
  BY <1>2, <1>3

\* What an HTTP thread writes, and what it never touches: the slot, the flags, the result files.
LEMMA HttpKeepsType ==
    ASSUME TypeOK, RequestType, NEW r \in Holders, RequestAt(r), HttpStep(r)
    PROVE  /\ UNCHANGED <<request, owner, workerLock, cancelled, sourceResult>>
           /\ step' \in [Holders -> Steps] /\ status' \in [Holders -> TaskStatus]
           /\ operation' \in [Sessions -> Holders \union {Nobody}]
           /\ runner' \in [Sessions -> RunnerSettings]
<1>1. UNCHANGED <<request, owner, workerLock, cancelled, sourceResult>>
  BY HttpMoves
<1>2. step' \in [Holders -> Steps]
  BY HttpMoves DEF TypeOK, Steps, WaitingSteps
<1>3. status' \in [Holders -> TaskStatus]
  BY HttpMoves DEF TypeOK, Submitted, SetStatus, TaskStatus
<1>4. operation' \in [Sessions -> Holders \union {Nobody}]
  BY HttpMoves DEF TypeOK, TakesRunner, Queried
<1>5. runner' \in [Sessions -> RunnerSettings]
  <2>1. CASE TakesRunner(r)
    <3>1. step[r] = "selecting"
      BY <2>1 DEF TakesRunner, Goes
    <3> QED
      BY <2>1, <3>1, SessionNamed, RunnerConfigured DEF TakesRunner
  <2>2. CASE ~TakesRunner(r)
    BY <2>2, HttpMoves DEF TypeOK, Queried
  <2> QED
    BY <2>1, <2>2
<1> QED
  BY <1>1, <1>2, <1>3, <1>4, <1>5

\* What a worker thread writes, and what it never touches: the requests and the cancel flags.
LEMMA WorkerKeepsType ==
    ASSUME TypeOK, RequestType, NEW r \in Holders, RequestAt(r), WorkerStep(r)
    PROVE  /\ UNCHANGED <<request, owner, cancelled>>
           /\ step' \in [Holders -> Steps] /\ status' \in [Holders -> TaskStatus]
           /\ sourceResult' \in [Holders -> SourceStatus]
           /\ workerLock' \in Holders \union {Nobody}
           /\ operation' \in [Sessions -> Holders \union {Nobody}]
           /\ runner' \in [Sessions -> RunnerSettings]
<1>1. UNCHANGED <<request, owner, cancelled>>
  BY WorkerMoves
<1>2. step' \in [Holders -> Steps]
  BY WorkerMoves DEF TypeOK, WorkerSteps, Steps, HttpSteps
<1>3. status' \in [Holders -> TaskStatus] /\ sourceResult' \in [Holders -> SourceStatus]
  BY WorkerMoves DEF TypeOK, SetStatus, WriteResult
<1>4. /\ workerLock' \in Holders \union {Nobody}
      /\ operation' \in [Sessions -> Holders \union {Nobody}]
  BY WorkerMoves DEF TypeOK, TakesSlot, TakesOperation, Unlocks
<1>5. runner' \in [Sessions -> RunnerSettings]
  <2>1. CASE runner' = runner
    BY <2>1 DEF TypeOK
  <2>2. CASE Configures(r, "workspace") \/ Configures(r, "timeout")
    <3>1. step[r] # "new"
      BY WorkerMoves DEF WorkerSteps, HttpSteps
    <3> QED
      BY <2>2, <3>1, SessionNamed, RunnerConfigured
  <2> QED
    BY <2>1, <2>2, WorkerMoves
<1> QED
  BY <1>1, <1>2, <1>3, <1>4, <1>5

\* The types of all variables of the service follow from those of the store.
LEMMA TypeKept ==
    ASSUME TypeOK, RequestType, StoreTypeOK', \A r \in Holders : ThreadInv(r) /\ ThreadInv(r)',
           [Next]_vars
    PROVE  TypeOK' /\ RequestType'
<1> USE DEF lockVars, taskVars, threadVars
<1> DEFINE Typed ==
      /\ step' \in [Holders -> Steps]
      /\ owner' \in [Sessions -> Holders \union {Nobody, "user"}]
      /\ workerLock' \in Holders \union {Nobody}
      /\ operation' \in [Sessions -> Holders \union {Nobody}]
      /\ runner' \in [Sessions -> RunnerSettings]
      /\ status' \in [Holders -> TaskStatus]
      /\ cancelled' \in [Holders -> CancelTimes]
      /\ sourceResult' \in [Holders -> SourceStatus]
      /\ RequestType'
<1>1. Typed => TypeOK' /\ RequestType'
  BY DEF TypeOK, ThreadInv, RequestAt
<1> SUFFICES Typed
  BY <1>1
<1>2. CASE UNCHANGED <<threadVars, lockVars, taskVars>>
  BY <1>2 DEF TypeOK, RequestType
<1>3. ASSUME NEW r \in Holders, ThreadStep(r) PROVE Typed
  <2>1. RequestAt(r)
    BY DEF ThreadInv
  <2> QED
    BY <1>3, <2>1, HttpKeepsType, WorkerKeepsType DEF ThreadStep, TypeOK, RequestType
<1>4. CASE UserStep
  <2>1. ASSUME NEW r \in Holders, NEW kind \in Kinds, NEW s \in Sessions \union {NoSession},
               Asks(r, kind, s)
        PROVE  RequestType'
    BY <2>1 DEF RequestType, Asks, Requested
  <2>2. ASSUME NEW r \in Holders, NEW kind \in Kinds, ArrivesWithoutSsh(r, kind) PROVE Typed
    BY <2>1, <2>2 DEF TypeOK, ArrivesWithoutSsh, Goes, Steps, HttpSteps
  <2>3. ASSUME NEW r \in Holders, NEW kind \in Kinds, NEW s \in Sessions,
               ArrivesOnSession(r, kind, s) \/ ArrivesWithSettings(r, kind, s)
        PROVE  Typed
    BY <2>1, <2>3 DEF TypeOK, ArrivesOnSession, ArrivesWithSettings, Goes, Steps, HttpSteps
  <2>4. ASSUME NEW s \in Sessions, UserConnects(s) \/ UserDeletes(s) PROVE Typed
    BY <2>4 DEF TypeOK, RequestType, UserConnects, UserDeletes
  <2>5. ASSUME NEW r \in Holders, RequestCancel(r) PROVE Typed
    BY <2>5 DEF TypeOK, RequestType, RequestCancel, CancelTimes
  <2>6. CASE Arrival
    BY <2>2, <2>3, <2>6 DEF Arrival
  <2> QED
    BY <1>4, <2>4, <2>5, <2>6 DEF UserStep
<1> QED
  BY <1>1, <1>2, <1>3, <1>4 DEF Next, StoreBackground, vars

-----------------------------------------------------------------------------
(* The slot and the connection.                                            *)

\* The locks and the runner, as far as thread q is concerned.
LockInv(q) == LocksAt(q) /\ RunnerAt(q)

\* The slot has one holder.
LEMMA OneInSlot ==
    ASSUME NEW r \in Holders, NEW q \in Holders, q # r, LocksAt(r), LocksAt(q),
           step[r] \in Locked \union {"slot"}
    PROVE  step[q] \notin Locked \union {"slot"}
BY DEF LocksAt

\* A thread whose locks and runner nobody touched.
LEMMA LocksStay ==
    ASSUME TypeOK, NEW q \in Holders, LockInv(q), RequestAt(q), Stays(q) \/ UNCHANGED <<step, request>>,
           workerLock' = workerLock \/ step[q] \notin Locked \union {"slot"},
           \A s \in Sessions : operation[s] = q => operation'[s] = q,
           step[q] \in RunningSteps => runner' = runner
              \/ \A s \in Sessions : operation[s] = q => runner'[s] = runner[s],
           CancelRequested(q) => CancelRequested(q)'
    PROVE  LockInv(q)'
<1>1. step'[q] = step[q] /\ request'[q] = request[q] /\ SessionOf(q)' = SessionOf(q)
  BY DEF Stays, SessionOf
<1>2. step[q] \in Locked \union {"querying"} /\ HasSession(q) => SessionOf(q) \in Sessions
  BY SessionNamed DEF Locked, RunningSteps, HasSession
<1>3. LocksAt(q)'
  BY <1>1, <1>2 DEF LockInv, LocksAt, HasSession
<1>4. RunnerAt(q)'
  BY <1>1, <1>2 DEF LockInv, LocksAt, RunnerAt, HasSession, Locked
<1> QED
  BY <1>3, <1>4 DEF LockInv

\* The sessions the threads work on, and what they know of each other's locks.
ServiceInv ==
    /\ TypeOK
    /\ RequestType
    /\ \A r \in Holders : ThreadInv(r) /\ LockInv(r)

\* A thread that runs commands has the operation lock of its session.
LEMMA SessionTaken ==
    ASSUME ServiceInv, NEW q \in Holders, step[q] \in Locked \union {"querying"}, HasSession(q)
    PROVE  SessionOf(q) \in Sessions /\ operation[SessionOf(q)] = q /\ q # Nobody
<1>1. RequestAt(q) /\ LocksAt(q) /\ step[q] # "new"
  BY DEF ServiceInv, ThreadInv, LockInv, Locked, RunningSteps
<1> QED
  BY <1>1, SessionNamed, NobodyHoldsNothing DEF LocksAt, HasSession

\* Detection and device selection take the operation lock only when it is free, so they never
\* reconfigure the runner under a task.
LEMMA HttpKeepsLocks ==
    ASSUME ServiceInv, NEW r \in Holders, HttpStep(r), NEW q \in Holders
    PROVE  LockInv(q)'
<1> USE DEF ServiceInv, lockVars, taskVars, Goes
<1>1. /\ UNCHANGED <<request, cancelled, workerLock>> /\ step[r] \in HttpSteps
      /\ RequestAt(r) /\ RequestAt(q)
  <2>1. step[r] \in HttpSteps
    BY HttpMoves
  <2> QED
    BY <2>1, HttpKeepsType DEF ThreadInv
<1>2. CASE TakesRunner(r)
  <2>1. SessionOf(r) \in Sessions /\ HasSession(r) /\ operation[SessionOf(r)] = Nobody
    BY <1>1, <1>2, SessionNamed, DistinctNames DEF TakesRunner, SessionSteps, HasSession
  <2>2. /\ operation' = [operation EXCEPT ![SessionOf(r)] = r]
        /\ \A t \in Sessions : t # SessionOf(r) => runner'[t] = runner[t]
    BY <1>2, <2>1, RunnerConfigured DEF TakesRunner
  <2>3. CASE q = r
    <3>1. step'[r] = "querying" /\ SessionOf(r)' = SessionOf(r) /\ operation'[SessionOf(r)] = r
      BY <1>1, <1>2, <2>1, <2>2 DEF TakesRunner, TypeOK, SessionOf
    <3> QED
      BY <2>3, <3>1 DEF LockInv, LocksAt, RunnerAt, Locked, RunningSteps, HasSession
  <2>4. CASE q # r
    <3>1. \A s \in Sessions : operation[s] = q => s # SessionOf(r)
      BY <2>1, NobodyHoldsNothing
    <3>2. \A s \in Sessions : operation[s] = q => operation'[s] = q /\ runner'[s] = runner[s]
      BY <2>2, <3>1 DEF TypeOK
    <3> QED
      BY <1>1, <2>4, <3>2, HttpStaysOthers, LocksStay DEF Stays, CancelRequested
  <2> QED
    BY <2>3, <2>4
<1>3. ASSUME NEW ok \in BOOLEAN, Queried(r, ok) PROVE LockInv(q)'
  <2>1. /\ step[r] = "querying" /\ runner' = runner
        /\ operation' = [operation EXCEPT ![SessionOf(r)] = Nobody]
        /\ step'[r] \in {"releasing", "deleting", "submitting"}
    BY <1>3 DEF Queried, TypeOK
  <2>2. SessionOf(r) \in Sessions /\ operation[SessionOf(r)] = r
    BY <1>1, <2>1, SessionNamed, SessionTaken, DistinctNames DEF SessionSteps, HasSession
  <2>3. CASE q = r
    BY <2>1, <2>3 DEF LockInv, LocksAt, RunnerAt, Locked, RunningSteps, HasSession
  <2>4. CASE q # r
    <3>1. \A s \in Sessions : operation[s] = q => operation'[s] = q
      BY <2>1, <2>2, <2>4 DEF TypeOK
    <3> QED
      BY <1>1, <2>1, <2>4, <3>1, HttpStaysOthers, LocksStay DEF Stays, CancelRequested
  <2> QED
    BY <2>3, <2>4
<1>4. CASE \/ SessionOpened(r) \/ SessionRefused(r) \/ LeaseGranted(r) \/ LeaseExpired(r) \/ LeaseUnknown(r)
           \/ RequestReleases(r) \/ DeletesOwn(r) \/ Submitted(r) \/ SubmitRaises(r)
  <2>1. UNCHANGED lockVars
    BY <1>4
       DEF SessionOpened, SessionRefused, LeaseGranted, LeaseExpired, LeaseUnknown,
           RequestReleases, DeletesOwn, Submitted, SubmitRaises
  <2>2. CASE q = r
    <3>1. step'[r] \notin Locked \union {"slot", "querying"}
      BY <1>4
         DEF SessionOpened, SessionRefused, LeaseGranted, LeaseExpired, LeaseUnknown, CleanUp,
             RequestReleases, DeletesOwn, Submitted, SubmitRaises, TypeOK, Locked, RunningSteps
    <3> QED
      BY <2>2, <3>1 DEF LockInv, LocksAt, RunnerAt, Locked
  <2>3. CASE q # r
    BY <1>1, <2>1, <2>3, HttpStaysOthers, LocksStay DEF Stays, CancelRequested
  <2> QED
    BY <2>2, <2>3
<1> QED
  BY <1>2, <1>3, <1>4 DEF HttpStep

\* While a thread is in the slot its steps leave the locks of the others alone.
LEMMA SlotStepOthers ==
    ASSUME ServiceInv, NEW r \in Holders, WorkerStep(r), step[r] \in Locked \union {"slot"},
           NEW q \in Holders, q # r,
           \A s \in Sessions : operation[s] = q => operation'[s] = q
    PROVE  LockInv(q)'
<1>1. step[q] \notin Locked \union {"slot"}
  BY OneInSlot DEF ServiceInv, LockInv
<1>2. Stays(q) /\ LockInv(q) /\ RequestAt(q) /\ TypeOK
  BY WorkerStaysOthers DEF ServiceInv, ThreadInv
<1> QED
  BY <1>1, <1>2, LocksStay DEF Stays, CancelRequested, Locked

\* A worker takes and frees the slot and the operation lock in the order of WORKER_LOCK and
\* operation_lock, and configures the runner only while it holds both.
LEMMA WorkerKeepsLocks ==
    ASSUME ServiceInv, NEW r \in Holders, WorkerStep(r), NEW q \in Holders
    PROVE  LockInv(q)'
<1> USE DEF lockVars, taskVars, Goes
<1>1. /\ UNCHANGED <<request, cancelled>> /\ RequestAt(r) /\ LocksAt(r) /\ RunnerAt(r) /\ LockInv(q)
      /\ RequestAt(q) /\ TypeOK /\ SessionOf(r)' = SessionOf(r) /\ HasSession(r)' = HasSession(r)
      /\ step \in [Holders -> Steps] /\ operation \in [Sessions -> Holders \union {Nobody}]
  BY WorkerKeepsType DEF ServiceInv, ThreadInv, LockInv, SessionOf, HasSession, TypeOK
<1>2. CASE TakesSlot(r)
  <2>1. \A p \in Holders : step[p] \notin Locked \union {"slot"}
    BY <1>2, NobodyHoldsNothing DEF TakesSlot, ServiceInv, LockInv, LocksAt
  <2>2. CASE q = r
    BY <1>1, <1>2, <2>2 DEF TakesSlot, LockInv, LocksAt, RunnerAt, Locked, RunningSteps
  <2>3. CASE q # r
    BY <1>1, <1>2, <2>1, <2>3, WorkerStaysOthers, LocksStay
       DEF TakesSlot, ServiceInv, CancelRequested, Stays
  <2> QED
    BY <2>2, <2>3
<1>3. CASE TakesOperation(r)
  <2>1. step[r] = "slot" /\ step'[r] = "preparing" /\ workerLock' = workerLock /\ runner' = runner
    BY <1>1, <1>3 DEF TakesOperation
  <2>2. SessionOf(r) \in Sessions \/ ~HasSession(r)
    BY <1>1, <2>1, SessionNamed DEF HasSession
  <2>3. \A s \in Sessions : operation[s] # Nobody => operation'[s] = operation[s]
    BY <1>1, <1>3 DEF TakesOperation
  <2>4. CASE q = r
    BY <1>1, <1>3, <2>1, <2>2, <2>4
       DEF TakesOperation, LockInv, LocksAt, RunnerAt, Locked, RunningSteps
  <2>5. CASE q # r
    <3>1. \A s \in Sessions : operation[s] = q => operation'[s] = q
      BY <2>3, NobodyHoldsNothing
    <3> QED
      BY <2>1, <2>5, <3>1, SlotStepOthers
  <2> QED
    BY <2>4, <2>5
<1>4. CASE PrepareRaises(r) \/ Leaves(r)
  <2>1. step[r] \in {"binding", "leaving"} /\ step'[r] \in {"refusing", "returning"} /\ Unlocks(r)
    BY <1>1, <1>4 DEF PrepareRaises, Leaves
  <2>2. HasSession(r) => SessionOf(r) \in Sessions /\ operation[SessionOf(r)] = r
    BY <2>1, SessionTaken DEF Locked
  <2>3. CASE q = r
    BY <1>1, <2>1, <2>3 DEF LockInv, LocksAt, RunnerAt, Locked, RunningSteps
  <2>4. CASE q # r
    <3>1. \A s \in Sessions : operation[s] = q => operation'[s] = q
      BY <1>1, <2>1, <2>2, <2>4 DEF Unlocks
    <3> QED
      BY <2>1, <2>4, <3>1, SlotStepOthers DEF Locked
  <2> QED
    BY <2>3, <2>4
  \* From here on the locks stay as they are.
<1>5. ASSUME step[r] \in Locked, step'[r] \in Locked, UNCHANGED <<workerLock, operation>>,
             RunnerAt(r)'
      PROVE  LockInv(q)'
  <2>1. CASE q = r
    BY <1>1, <1>5, <2>1 DEF LockInv, LocksAt
  <2>2. CASE q # r
    BY <1>5, <2>2, SlotStepOthers
  <2> QED
    BY <2>1, <2>2
<1>6. CASE Prepared(r) \/ PreflightPasses(r) \/ SearchStarts(r)
  <2>1. /\ step[r] \in {"binding", "preflight", "searching"} /\ UNCHANGED <<workerLock, operation>>
        /\ Configures(r, "workspace") \/ Configures(r, "timeout")
        /\ step'[r] \in {"configuring", "searching", "measuring"}
    BY <1>1, <1>6 DEF Prepared, PreflightPasses, SearchStarts
  <2>2. step[r] # "new" /\ SessionOf(r) \in Sessions \union {NoSession}
    BY <1>1, <2>1, SessionNamed
  <2>3. RunnerAt(r)'
    <3>1. CASE Prepared(r)
      BY <1>1, <2>2, <3>1, RunnerConfigured DEF Prepared, RunnerAt
    <3>2. CASE PreflightPasses(r)
      BY <1>1, <2>2, <3>2, RunnerConfigured DEF PreflightPasses, RunnerAt, RunningSteps
    <3>3. CASE SearchStarts(r)
      BY <1>1, <2>2, <3>3, RunnerConfigured DEF SearchStarts, RunnerAt, RunningSteps
    <3> QED
      BY <1>6, <3>1, <3>2, <3>3
  <2> QED
    BY <1>5, <2>1, <2>3 DEF Locked, RunningSteps
<1>7. CASE \/ StartsPreparing(r) \/ (\E targets \in BOOLEAN : Configured(r, targets)) \/ SearchSkipped(r)
           \/ SearchEnds(r) \/ BaselineAccepted(r) \/ DeviceVerified(r)
           \/ (\E outcome \in EngineOutcomes(r) : EngineReturns(r, outcome))
           \/ PassesFinalCheck(r) \/ CancelledBeforeStart(r) \/ PreflightCancelled(r)
           \/ CancelledInBaseline(r) \/ FinishCancelled(r) \/ Completed(r) \/ Raises(r)
  <2>1. UNCHANGED lockVars
    BY <1>7
       DEF StartsPreparing, Configured, SearchSkipped, SearchEnds, BaselineAccepted,
           DeviceVerified, EngineReturns, PassesFinalCheck, CancelledBeforeStart,
           PreflightCancelled, CancelledInBaseline, FinishCancelled, Completed, Raises
  <2>2. step[r] \in Locked /\ step'[r] \in Locked
    BY <1>1, <1>7
       DEF StartsPreparing, Configured, SearchSkipped, SearchEnds, BaselineAccepted,
           DeviceVerified, EngineReturns, PassesFinalCheck, CancelledBeforeStart,
           PreflightCancelled, CancelledInBaseline, FinishCancelled, Completed, Raises, Locked,
           RunningSteps
  <2>3. /\ step'[r] \in RunningSteps => step[r] \in RunningSteps
        /\ step'[r] # "measuring"
        /\ step'[r] = "searched" => step[r] = "measuring" \/ CancelRequested(r)
        /\ step'[r] \in {"bound", "optimising"} => step[r] \in {"searched", "bound"}
    BY <1>1, <1>7
       DEF StartsPreparing, Configured, SearchSkipped, SearchEnds, BaselineAccepted,
           DeviceVerified, EngineReturns, PassesFinalCheck, CancelledBeforeStart,
           PreflightCancelled, CancelledInBaseline, FinishCancelled, Completed, Raises,
           RunningSteps
  <2>4. RunnerAt(r)'
    BY <1>1, <2>1, <2>3 DEF RunnerAt, CancelRequested
  <2> QED
    BY <1>5, <2>1, <2>2, <2>4
<1>8. CASE TakesSlot(r) \/ PrepareFailureRecorded(r) \/ WorkerReleases(r)
  <2>1. CASE PrepareFailureRecorded(r) \/ WorkerReleases(r)
    <3>1. UNCHANGED lockVars /\ step'[r] \in {"returning", "ended"}
      BY <1>1, <2>1 DEF PrepareFailureRecorded, WorkerReleases
    <3>2. CASE q = r
      BY <1>1, <3>1, <3>2 DEF LockInv, LocksAt, RunnerAt, Locked, RunningSteps
    <3>3. CASE q # r
      BY <1>1, <3>1, <3>3, WorkerStaysOthers, LocksStay DEF ServiceInv, CancelRequested, Stays
    <3> QED
      BY <3>2, <3>3
  <2> QED
    BY <1>2, <1>8, <2>1
<1> QED
  BY <1>3, <1>4, <1>6, <1>7, <1>8 DEF WorkerStep

\* A new request holds nothing yet.
LEMMA ArrivalKeepsLocks ==
    ASSUME ServiceInv, NEW r \in Holders, NEW kind \in Kinds,
           \/ ArrivesWithoutSsh(r, kind)
           \/ \E s \in Sessions : ArrivesOnSession(r, kind, s) \/ ArrivesWithSettings(r, kind, s),
           NEW q \in Holders
    PROVE  LockInv(q)'
<1>1. UNCHANGED lockVars /\ UNCHANGED taskVars
  BY DEF ArrivesWithoutSsh, ArrivesOnSession, ArrivesWithSettings
<1>2. step'[r] \in {"submitting", "acquiring", "opening"}
  BY DEF ArrivesWithoutSsh, ArrivesOnSession, ArrivesWithSettings, Goes, ServiceInv, TypeOK
<1>3. CASE q = r
  BY <1>2, <1>3 DEF LockInv, LocksAt, RunnerAt, Locked, RunningSteps
<1>4. CASE q # r
  <2>1. Stays(q) /\ LockInv(q) /\ RequestAt(q) /\ TypeOK
    BY <1>4, ArrivalKeepsThread DEF ServiceInv, ThreadInv
  <2> QED
    BY <1>1, <2>1, LocksStay DEF lockVars, taskVars, CancelRequested
<1> QED
  BY <1>3, <1>4

\* Every step of the service keeps the locks and the runner in order.
LEMMA LocksKept ==
    ASSUME ServiceInv, [Next]_vars, NEW q \in Holders
    PROVE  LockInv(q)'
<1>1. TypeOK /\ LockInv(q) /\ RequestAt(q)
  BY DEF ServiceInv, ThreadInv
<1>2. CASE UNCHANGED <<step, request, lockVars>> /\ (CancelRequested(q) => CancelRequested(q)')
  BY <1>1, <1>2, LocksStay DEF lockVars
<1>3. ASSUME NEW r \in Holders, ThreadStep(r) PROVE LockInv(q)'
  BY <1>3, HttpKeepsLocks, WorkerKeepsLocks DEF ThreadStep
<1>4. CASE UserStep
  <2>1. CASE Arrival
    BY <2>1, ArrivalKeepsLocks DEF Arrival
  <2>2. ASSUME NEW s \in Sessions, UserConnects(s) \/ UserDeletes(s) PROVE LockInv(q)'
    BY <1>2, <2>2 DEF UserConnects, UserDeletes, threadVars, taskVars, CancelRequested
  <2>3. ASSUME NEW r \in Holders, RequestCancel(r) PROVE LockInv(q)'
    <3>1. CancelRequested(q) => CancelRequested(q)'
      BY <1>1, <2>3 DEF RequestCancel, CancelRequested, TypeOK
    <3> QED
      BY <1>2, <2>3, <3>1 DEF RequestCancel, threadVars
  <2> QED
    BY <1>4, <2>1, <2>2, <2>3 DEF UserStep
<1>5. CASE StoreBackground \/ UNCHANGED vars
  BY <1>2, <1>5 DEF StoreBackground, vars, threadVars, taskVars, CancelRequested
<1> QED
  BY <1>3, <1>4, <1>5 DEF Next

-----------------------------------------------------------------------------
(* Whose session it is.                                                    *)

\* Only a request that arrived has a thread.
LEMMA ThreadStarted ==
    ASSUME NEW r \in Holders, ThreadStep(r)
    PROVE  step[r] # "new"
BY HttpMoves, WorkerMoves DEF ThreadStep, WorkerSteps, HttpSteps

\* The owner of a session is set when the session is asked for and never changes.
LEMMA OwnersKept ==
    ASSUME ServiceInv, [Next]_vars, NEW q \in Holders, OwnerAt(q)
    PROVE  OwnerAt(q)'
<1>1. /\ owner \in [Sessions -> Holders \union {Nobody, "user"}] /\ TypeOK /\ RequestType
      /\ RequestAt(q) /\ step \in [Holders -> Steps]
      /\ request \in [Holders -> Requested \union {Nobody}]
  BY DEF ServiceInv, ThreadInv, TypeOK, RequestType
  \* A session that is taken keeps its owner.
<1>2. ASSUME \A s \in Sessions : owner[s] # Nobody => owner'[s] = owner[s],
             step'[q] # "new" => step[q] # "new" /\ request'[q] = request[q]
      PROVE  OwnerAt(q)'
  <2> SUFFICES ASSUME step'[q] # "new", HasSession(q)'
               PROVE  owner'[SessionOf(q)'] = IF Kind(q)'.ssh = "own" THEN q ELSE "user"
    BY DEF OwnerAt
  <2>1. step[q] # "new" /\ SessionOf(q)' = SessionOf(q) /\ Kind(q)' = Kind(q) /\ HasSession(q)
    BY <1>2 DEF SessionOf, Kind, HasSession
  <2>2. SessionOf(q) \in Sessions /\ owner[SessionOf(q)] = IF Kind(q).ssh = "own" THEN q ELSE "user"
    BY <1>1, <2>1, SessionNamed DEF OwnerAt, HasSession
  <2> QED
    BY <1>2, <2>1, <2>2, NobodyHoldsNothing
<1>3. ASSUME NEW r \in Holders, ThreadStep(r) PROVE OwnerAt(q)'
  <2>1. owner' = owner /\ request' = request /\ step[r] # "new" /\ (q # r => Stays(q))
    <3>1. RequestAt(r)
      BY DEF ServiceInv, ThreadInv
    <3>2. step[r] # "new"
      BY <1>3, ThreadStarted
    <3> QED
      BY <1>1, <1>3, <3>1, <3>2, HttpKeepsType, WorkerKeepsType, HttpStaysOthers,
         WorkerStaysOthers
         DEF ThreadStep
  <2> QED
    BY <1>2, <2>1 DEF Stays
<1>4. ASSUME NEW r \in Holders, NEW kind \in Kinds,
             \/ ArrivesWithoutSsh(r, kind)
             \/ \E s \in Sessions : ArrivesOnSession(r, kind, s) \/ ArrivesWithSettings(r, kind, s)
      PROVE  OwnerAt(q)'
  <2>1. \A s \in Sessions : owner[s] # Nobody => owner'[s] = owner[s]
    BY <1>1, <1>4 DEF ArrivesWithoutSsh, ArrivesOnSession, ArrivesWithSettings
  <2>2. CASE q # r
    <3>1. Stays(q)
      BY <1>1, <1>4, <2>2, ArrivalKeepsThread DEF ServiceInv
    <3> QED
      BY <1>2, <2>1, <3>1 DEF Stays
  <2>3. CASE q = r
    <3>1. CASE ArrivesWithoutSsh(r, kind)
      <4>1. SessionOf(q)' = NoSession
        BY <1>1, <2>3, <3>1 DEF ArrivesWithoutSsh, Asks, SessionOf
      <4> QED
        BY <4>1 DEF OwnerAt, HasSession
    <3>2. ASSUME NEW s \in Sessions, ArrivesOnSession(r, kind, s) PROVE OwnerAt(q)'
      <4>1. SessionOf(q)' = s /\ Kind(q)' = kind /\ owner'[s] = "user" /\ kind.ssh = "user"
        BY <1>1, <2>3, <3>2 DEF ArrivesOnSession, Asks, SessionOf, Kind
      <4> QED
        BY <4>1 DEF OwnerAt, HasSession
    <3>3. ASSUME NEW s \in Sessions, ArrivesWithSettings(r, kind, s) PROVE OwnerAt(q)'
      <4>1. SessionOf(q)' = s /\ Kind(q)' = kind /\ owner'[s] = r /\ kind.ssh = "own"
        BY <1>1, <2>3, <3>3 DEF ArrivesWithSettings, Asks, SessionOf, Kind
      <4> QED
        BY <2>3, <4>1 DEF OwnerAt, HasSession
    <3> QED
      BY <1>4, <3>1, <3>2, <3>3
  <2> QED
    BY <2>2, <2>3
<1>5. CASE UserStep
  <2>1. CASE Arrival
    BY <1>4, <2>1 DEF Arrival
  <2>2. CASE \/ \E s \in Sessions : UserConnects(s) \/ UserDeletes(s)
             \/ \E r \in Holders : RequestCancel(r)
    BY <1>1, <1>2, <2>2 DEF UserConnects, UserDeletes, RequestCancel, threadVars
  <2> QED
    BY <1>5, <2>1, <2>2 DEF UserStep
<1>6. CASE StoreBackground \/ UNCHANGED vars
  BY <1>2, <1>6 DEF StoreBackground, vars, threadVars
<1> QED
  BY <1>3, <1>5, <1>6 DEF Next

-----------------------------------------------------------------------------
(* The sessions under the service.                                         *)

\* A session out of the dictionary keeps its connection only while it is leased.
ClosesInOrder(r) ==
    /\ r.phase \in {"new", "connecting"} => ~r.open
    /\ r.phase = "dropped" /\ r.refs = 0 => ~r.open /\ r.registered = {}
    /\ r.phase = "dropped" /\ r.refs # 0 => r.revoked
    /\ r.revoked => r.phase = "dropped"

\* Before it is listed, or refused.
Opening == {"new", "connecting", "connected"}

\* A session is opened, listed and dropped, in that order.
PhaseAfter(s, phase) ==
    sessions[s].phase \in Opening /\ phase \in (Opening \ {"new"}) \union {"listed", "dropped"}

\* One session takes a step, the others stay.
OneSteps(s) ==
    /\ \A t \in Sessions : t # s => sessions'[t] = sessions[t]
    /\ ClosesInOrder(sessions'[s])

\* create: what becomes of the one session that is being opened.
LEMMA CreationSteps ==
    ASSUME StoreInv, ClosingOrder, NEW s \in Sessions,
           Connect(s) \/ ConnectFails(s) \/ ConnectSucceeds(s) \/ Enlist(s)
    PROVE  OneSteps(s) /\ PhaseAfter(s, sessions'[s].phase)
<1>1. /\ sessions \in [Sessions -> SessionRecords] /\ sessions[s] \in SessionRecords
      /\ sessions[s].phase \in Opening
  BY RecordTypes
     DEF StoreInv, StoreTypeOK, Connect, ConnectFails, ConnectSucceeds, Enlist, Opening
<1>2. /\ ClosesInOrder(sessions[s]) /\ ~sessions[s].revoked
      /\ sessions[s].refs = 0
  BY <1>1 DEF ClosingOrder, ClosesInOrder, StoreInv, EarlySecrets, Unlisted, Opening
<1>3. CASE Connect(s) \/ ConnectFails(s)
  <2>1. ~sessions[s].open
    BY <1>2, <1>3 DEF Connect, ConnectFails, ClosesInOrder
  <2>2. CASE Connect(s)
    <3>1. sessions' = [sessions EXCEPT ![s] = [sessions[s] EXCEPT !.phase = "connecting",
                                                  !.registered = PasswordsOf[s]]]
      BY <2>2 DEF Connect, Step
    <3> QED
      BY <1>1, <1>2, <2>1, <3>1 DEF SessionRecords, OneSteps, ClosesInOrder, PhaseAfter, Opening
  <2>3. CASE ConnectFails(s)
    <3>1. sessions' = [sessions EXCEPT ![s] = [sessions[s] EXCEPT !.phase = "dropped",
                                                  !.registered = {}]]
      BY <2>3 DEF ConnectFails, Step
    <3> QED
      BY <1>1, <1>2, <2>1, <3>1 DEF SessionRecords, OneSteps, ClosesInOrder, PhaseAfter, Opening
  <2> QED
    BY <1>3, <2>2, <2>3
<1>4. CASE ConnectSucceeds(s)
  <2> DEFINE e == Clock + Ttl
  <2>1. sessions' = [sessions EXCEPT ![s] = [sessions[s] EXCEPT !.phase = "connected",
                        !.open = TRUE, !.registered = SecretsOf(s), !.expires = e]]
    BY <1>4 DEF ConnectSucceeds, Step
  <2> HIDE DEF e
  <2> QED
    BY <1>1, <1>2, <2>1 DEF SessionRecords, OneSteps, ClosesInOrder, PhaseAfter, Opening
<1>5. CASE Enlist(s)
  <2> DEFINE e == now + Ttl
  <2>1. sessions' = [sessions EXCEPT ![s] = [sessions[s] EXCEPT !.phase = "listed",
                        !.timer = "set", !.timerAt = e]]
    BY <1>5 DEF Enlist, Step
  <2> HIDE DEF e
  <2> QED
    BY <1>1, <1>2, <2>1 DEF SessionRecords, OneSteps, ClosesInOrder, PhaseAfter, Opening
<1> QED
  BY <1>3, <1>4, <1>5

\* The session's record becomes r, or is retired as r.
LEMMA RecordSteps ==
    ASSUME StoreInv, NEW s \in Sessions, NEW r \in SessionRecords,
           \/ Retire(s, r) /\ r.phase \in {"listed", "dropped"} /\ (r.phase = "dropped" <=> r.revoked)
           \/ Step(s, r) /\ ClosesInOrder(r)
    PROVE  OneSteps(s) /\ sessions'[s].phase = r.phase
<1>1. CASE r.phase \in {"listed", "dropped"} /\ (r.phase = "dropped" <=> r.revoked) /\ r.refs = 0
           /\ Becomes(s, Closed(r))
  BY <1>1, ClosedFields, Lookup DEF OneSteps, ClosesInOrder, StoreInv
<1>2. CASE r.phase \in {"listed", "dropped"} /\ (r.phase = "dropped" <=> r.revoked) /\ r.refs # 0
           /\ Becomes(s, r)
  BY <1>2, Lookup DEF OneSteps, ClosesInOrder, StoreInv
<1>3. CASE Step(s, r) /\ ClosesInOrder(r)
  <2>1. Becomes(s, r)
    BY <1>3 DEF Step, Becomes
  <2> QED
    BY <1>3, <2>1, Lookup DEF OneSteps, StoreInv
<1> QED
  BY <1>1, <1>2, <1>3, Retired

\* acquire, release and the timer leave a session in the dictionary or out of it.
LEMMA UseSteps ==
    ASSUME StoreInv, ClosingOrder, NEW s \in Sessions,
           \/ AcquireExpired(s) \/ Expire(s)
           \/ \E h \in Holders : Acquire(h, s) \/ (Release(h) /\ lease[h] = s)
    PROVE  OneSteps(s) /\ sessions'[s].phase = sessions[s].phase
<1>1. sessions[s] \in SessionRecords /\ sessions[s].refs \in Nat /\ ClosesInOrder(sessions[s])
  BY RecordTypes DEF StoreInv, ClosingOrder, ClosesInOrder
<1>2. CASE AcquireExpired(s)
  BY <1>1, <1>2, RecordSteps DEF AcquireExpired, Listed
<1>3. CASE Expire(s)
  <2> DEFINE r == [sessions[s] EXCEPT !.timer = "fired"]
  <2>1. /\ r \in SessionRecords /\ r.phase = sessions[s].phase /\ r.revoked = sessions[s].revoked
        /\ ClosesInOrder(r)
    BY <1>1 DEF SessionRecords, ClosesInOrder
  <2>2. (Retire(s, r) /\ Listed(s)) \/ Step(s, r)
    BY <1>3 DEF Expire
  <2> HIDE DEF r
  <2> QED
    BY <2>1, <2>2, RecordSteps DEF Listed
<1>4. ASSUME NEW h \in Holders, Acquire(h, s)
      PROVE  OneSteps(s) /\ sessions'[s].phase = sessions[s].phase
  <2> DEFINE r == [sessions[s] EXCEPT !.refs = @ + 1]
  <2>1. /\ r \in SessionRecords /\ r.phase = "listed" /\ sessions[s].phase = "listed" /\ ~r.revoked
        /\ ClosesInOrder(r)
    BY <1>1, <1>4 DEF SessionRecords, ClosesInOrder, Acquire, Listed
  <2>2. Step(s, r)
    BY <1>4 DEF Acquire
  <2> HIDE DEF r
  <2> QED
    BY <2>1, <2>2, RecordSteps
<1>5. ASSUME NEW h \in Holders, Release(h), lease[h] = s
      PROVE  OneSteps(s) /\ sessions'[s].phase = sessions[s].phase
  <2> DEFINE r == [sessions[s] EXCEPT !.refs = @ - 1]
  <2>1. sessions[s].refs # 0 /\ sessions[s].refs - 1 \in Nat
    <3>1. h \in LeasesOn(s)
      BY <1>5 DEF LeasesOn
    <3> QED
      BY <1>1, <3>1, LeasesFinite DEF StoreInv, RefsCounted
  <2>2. /\ sessions[s].phase \in {"listed", "dropped"}
        /\ sessions[s].phase = "dropped" <=> sessions[s].revoked
    BY <1>1, <2>1 DEF StoreInv, EarlySecrets, Unlisted, ClosesInOrder, SessionRecords, Phases
  <2>3. /\ r \in SessionRecords /\ r.phase = sessions[s].phase /\ r.revoked = sessions[s].revoked
    <3>1. ASSUME NEW q \in SessionRecords, NEW n \in Nat
          PROVE  /\ [q EXCEPT !.refs = n] \in SessionRecords
                 /\ [q EXCEPT !.refs = n].phase = q.phase /\ [q EXCEPT !.refs = n].revoked = q.revoked
      BY DEF SessionRecords
    <3> QED
      BY <1>1, <2>1, <3>1
  <2>4. Retire(s, r) \/ (Step(s, r) /\ ~r.revoked)
    BY <1>5 DEF Release
  <2>5. ~r.revoked => ClosesInOrder(r)
    BY <2>2, <2>3 DEF ClosesInOrder
  <2> HIDE DEF r
  <2> QED
    BY <2>2, <2>3, <2>4, <2>5, RecordSteps
<1> QED
  BY <1>2, <1>3, <1>4, <1>5

\* delete takes a listed session out of the dictionary.
LEMMA DeleteSteps ==
    ASSUME StoreInv, ClosingOrder, NEW s \in Sessions, Delete(s)
    PROVE  OneSteps(s) /\ sessions'[s].phase = "dropped" /\ sessions[s].phase = "listed"
<1> DEFINE r == [sessions[s] EXCEPT !.phase = "dropped", !.revoked = TRUE]
<1>1. r \in SessionRecords /\ r.phase = "dropped" /\ r.revoked /\ sessions[s].phase = "listed"
  BY RecordTypes DEF StoreInv, SessionRecords, Phases, Delete
<1>2. Retire(s, r)
  BY DEF Delete
<1> HIDE DEF r
<1> QED
  BY <1>1, <1>2, RecordSteps

\* Whatever the store does, one session is stepped or none.
LEMMA StoreStepsOne ==
    ASSUME StoreInv, ClosingOrder, [StoreNext \/ SetBack]_storeVars
    PROVE  \/ UNCHANGED sessions
           \/ \E s \in Sessions :
                /\ OneSteps(s)
                /\ \/ PhaseAfter(s, sessions'[s].phase)
                   \/ sessions'[s].phase = sessions[s].phase
                   \/ Delete(s) /\ sessions'[s].phase = "dropped" /\ sessions[s].phase = "listed"
<1>1. ASSUME NEW h \in Holders, Release(h) PROVE lease[h] \in Sessions
  BY <1>1 DEF Release, StoreInv, StoreTypeOK
<1>2. CASE Tick \/ SetBack \/ UNCHANGED storeVars
  BY <1>2 DEF Tick, SetBack, storeVars
<1> QED
  BY <1>1, <1>2, CreationSteps, UseSteps, DeleteSteps DEF StoreNext, Background

\* Every step of the store keeps the order in which sessions close.
LEMMA ClosingOrderKept ==
    ASSUME StoreInv, ClosingOrder, [StoreNext \/ SetBack]_storeVars
    PROVE  ClosingOrder'
BY StoreStepsOne DEF ClosingOrder, ClosesInOrder, OneSteps

-----------------------------------------------------------------------------
(* A request's own session is deleted by the request alone.                *)

\* The inductive invariant of the service, the store below it included.
TaskInv ==
    /\ StoreInv
    /\ ServiceInv
    /\ ClosingOrder
    /\ \A r \in Holders : OwnerAt(r) /\ OwnAt(r)

\* A thread that stays, or did no more than go on, with its session in the phase it was.
LEMMA OwnStays ==
    ASSUME TaskInv, NEW q \in Holders, Kind(q).ssh = "own", step[q] # "new",
           step'[q] = step[q], request'[q] = request[q],
           LET s == SessionOf(q) IN
           sessions'[s].phase = sessions[s].phase \/ PhaseAfter(s, sessions'[s].phase)
    PROVE  OwnAt(q)'
BY DEF TaskInv, OwnAt, Kind, SessionOf, PhaseAfter, Opening, WorkerSteps, Steps, HttpSteps, WaitingSteps,
       RunningSteps, LateSteps

\* Only a delete takes a listed session out of the dictionary.
Undeleted(s) ==
    \/ UNCHANGED sessions
    \/ \E t \in Sessions : \/ Connect(t) \/ ConnectFails(t) \/ ConnectSucceeds(t) \/ Enlist(t)
                           \/ AcquireExpired(t) \/ Expire(t)
                           \/ \E h \in Holders : Acquire(h, t)
    \/ \E h \in Holders : Release(h)
    \/ \E t \in Sessions \ {s} : Delete(t)

\* Without a delete of it, a session goes on opening or stays where it is.
LEMMA PhaseUndeleted ==
    ASSUME TaskInv, NEW s \in Sessions, Undeleted(s)
    PROVE  sessions'[s].phase = sessions[s].phase \/ PhaseAfter(s, sessions'[s].phase)
<1>1. StoreInv /\ ClosingOrder
  BY DEF TaskInv
<1>2. ASSUME NEW h \in Holders, Release(h) PROVE lease[h] \in Sessions
  BY <1>1, <1>2 DEF Release, StoreInv, StoreTypeOK
<1>3. ASSUME NEW t \in Sessions, Connect(t) \/ ConnectFails(t) \/ ConnectSucceeds(t) \/ Enlist(t)
      PROVE  sessions'[s].phase = sessions[s].phase \/ PhaseAfter(s, sessions'[s].phase)
  BY <1>1, <1>3, CreationSteps DEF OneSteps
<1>4. ASSUME NEW t \in Sessions,
             \/ AcquireExpired(t) \/ Expire(t)
             \/ \E h \in Holders : Acquire(h, t) \/ (Release(h) /\ lease[h] = t)
      PROVE  sessions'[s].phase = sessions[s].phase
  BY <1>1, <1>4, UseSteps DEF OneSteps
<1>5. ASSUME NEW t \in Sessions \ {s}, Delete(t)
      PROVE  sessions'[s].phase = sessions[s].phase
  BY <1>1, <1>5, DeleteSteps DEF OneSteps
<1> QED
  BY <1>2, <1>3, <1>4, <1>5 DEF Undeleted

\* Nobody else deletes the session a request opened for itself.
LEMMA NobodyElseDeletes ==
    ASSUME TaskInv, NEW q \in Holders, step[q] # "new", Kind(q).ssh = "own",
           [Next]_vars, ~DeletesOwn(q)
    PROVE  Undeleted(SessionOf(q))
<1>1. SessionOf(q) \in Sessions /\ owner[SessionOf(q)] = q /\ RequestAt(q)
  BY SessionNamed, DistinctNames DEF TaskInv, ServiceInv, ThreadInv, OwnerAt, HasSession
<1>2. CASE UNCHANGED vars \/ UNCHANGED storeVars
  BY <1>2 DEF vars, storeVars, Undeleted
<1>3. CASE StoreBackground
  BY <1>3 DEF StoreBackground, Background, SetBack, Tick, Undeleted
<1>4. CASE UserStep
  <2>1. CASE Arrival
    BY <2>1
       DEF Arrival, ArrivesWithoutSsh, ArrivesOnSession, ArrivesWithSettings, storeVars,
           Undeleted
  <2>2. ASSUME NEW s \in Sessions, UserConnects(s) \/ UserDeletes(s) PROVE Undeleted(SessionOf(q))
    <3>1. UserDeletes(s) => s # SessionOf(q)
      BY <1>1, NobodyHoldsNothing DEF UserDeletes
    <3> QED
      BY <2>2, <3>1 DEF UserConnects, UserDeletes, Undeleted
  <2>3. ASSUME NEW r \in Holders, RequestCancel(r) PROVE UNCHANGED storeVars
    BY <2>3 DEF RequestCancel
  <2> QED
    BY <1>2, <1>4, <2>1, <2>2, <2>3 DEF UserStep
<1>5. ASSUME NEW r \in Holders, HttpStep(r) PROVE Undeleted(SessionOf(q))
  <2>1. RequestAt(r) /\ OwnerAt(r)
    BY DEF TaskInv, ServiceInv, ThreadInv
  <2>2. CASE LeaseGranted(r) \/ LeaseExpired(r)
    <3>1. SessionOf(r) \in Sessions
      BY <2>1, <2>2, SessionNamed DEF LeaseGranted, LeaseExpired, Goes, SessionSteps
    <3> QED
      BY <2>2, <3>1 DEF LeaseGranted, LeaseExpired, Undeleted
  <2>3. CASE RequestReleases(r)
    BY <2>3 DEF RequestReleases, Undeleted
  <2>4. CASE DeletesOwn(r)
    <3>1. SessionOf(r) \in Sessions /\ Kind(r).ssh = "own" /\ Delete(SessionOf(r))
      BY <2>1, <2>4, SessionNamed DEF DeletesOwn, Goes, SessionSteps, RequestAt
    <3>2. owner[SessionOf(r)] = r /\ r # q
      BY <2>1, <2>4, <3>1, DistinctNames DEF OwnerAt, HasSession, DeletesOwn, Goes
    <3> QED
      BY <1>1, <3>1, <3>2 DEF Undeleted
  <2> QED
    BY <1>2, <1>5, <2>2, <2>3, <2>4, HttpMoves
<1>6. ASSUME NEW r \in Holders, WorkerStep(r) PROVE Undeleted(SessionOf(q))
  BY <1>2, <1>6, WorkerMoves DEF WorkerReleases, Undeleted
<1> QED
  BY <1>2, <1>3, <1>4, <1>5, <1>6 DEF Next, ThreadStep

\* The request's own way to the end of its session.
LEMMA OwnStep ==
    ASSUME TaskInv, NEW r \in Holders, step[r] # "new", Kind(r).ssh = "own", [Next]_vars, ThreadStep(r)
    PROVE  OwnAt(r)'
<1> DEFINE s == SessionOf(r)
<1>1. /\ request' = request /\ Kind(r)' = Kind(r) /\ SessionOf(r)' = s
      /\ s \in Sessions /\ owner[s] = r /\ step \in [Holders -> Steps]
  <2>1. TypeOK /\ RequestType /\ RequestAt(r) /\ OwnerAt(r)
    BY DEF TaskInv, ServiceInv, ThreadInv
  <2>2. request' = request
    BY <2>1, HttpKeepsType, WorkerKeepsType DEF ThreadStep
  <2>3. s \in Sessions
    BY <2>1, SessionNamed
  <2> QED
    BY <2>1, <2>2, <2>3, DistinctNames DEF OwnerAt, HasSession, Kind, SessionOf, TypeOK
<1>2. /\ step[r] = "opening" => sessions[s].phase \in {"connecting", "connected", "listed", "dropped"}
      /\ step[r] \in {"acquiring", "selecting", "querying", "deleting"} => sessions[s].phase = "listed"
      /\ step[r] = "releasing" => sessions[s].phase \in {"listed", "dropped"}
      /\ step[r] \in {"submitting", "ended"} \union WorkerSteps => sessions[s].phase = "dropped"
  BY DEF TaskInv, OwnAt
<1>3. sessions[s].phase = "listed" => Listed(s)
  BY <1>1 DEF TaskInv, ClosingOrder, Listed
  \* Unless the request deletes its session now, a listed session stays listed.
<1>4. ASSUME ~DeletesOwn(r), sessions[s].phase \in {"listed", "dropped"}
      PROVE  sessions'[s].phase = sessions[s].phase
  <2>1. sessions'[s].phase = sessions[s].phase \/ PhaseAfter(s, sessions'[s].phase)
    BY <1>1, <1>4, NobodyElseDeletes, PhaseUndeleted
  <2> QED
    BY <1>4, <2>1 DEF PhaseAfter, Opening
<1>5. ASSUME step'[r] \in {"acquiring", "selecting", "querying", "deleting"},
             sessions'[s].phase = "listed"
      PROVE  OwnAt(r)'
  BY <1>1, <1>5 DEF OwnAt, WorkerSteps, Steps, HttpSteps
<1>6. ASSUME step'[r] = "releasing", sessions'[s].phase \in {"listed", "dropped"}
      PROVE  OwnAt(r)'
  BY <1>1, <1>6 DEF OwnAt, WorkerSteps, Steps, HttpSteps
<1>7. ASSUME step'[r] \in {"submitting", "ended"} \union WorkerSteps,
             sessions'[s].phase = "dropped"
      PROVE  OwnAt(r)'
  BY <1>1, <1>7 DEF OwnAt, WorkerSteps, Steps, HttpSteps
<1>8. ASSUME HttpStep(r), ~DeletesOwn(r) PROVE OwnAt(r)'
  <2> USE DEF Goes
  <2>1. CASE SessionOpened(r) \/ LeaseGranted(r) \/ TakesRunner(r)
    <3>1. step'[r] \in {"acquiring", "selecting", "querying"} /\ sessions[s].phase = "listed"
      BY <1>1, <1>2, <2>1 DEF SessionOpened, LeaseGranted, TakesRunner
    <3> QED
      BY <1>4, <1>5, <1>8, <3>1
  <2>2. CASE SessionRefused(r)
    BY <1>1, <1>4, <1>7, <1>8, <2>2 DEF SessionRefused
  <2>3. CASE LeaseExpired(r) \/ RequestReleases(r)
    <3>1. step'[r] = CleanUp(r) /\ sessions[s].phase \in {"listed", "dropped"}
      BY <1>1, <1>2, <2>3 DEF LeaseExpired, RequestReleases
    <3> QED
      BY <1>1, <1>3, <1>4, <1>5, <1>7, <1>8, <3>1 DEF CleanUp, Listed
  <2>4. CASE LeaseUnknown(r)
    BY <1>2, <1>3, <2>4 DEF LeaseUnknown
  <2>5. ASSUME NEW ok \in BOOLEAN, Queried(r, ok) PROVE OwnAt(r)'
    <3>1. step'[r] \in {"releasing", "deleting"} /\ sessions[s].phase = "listed"
      BY <1>1, <1>2, <2>5 DEF Queried
    <3> QED
      BY <1>4, <1>5, <1>6, <1>8, <3>1
  <2>6. CASE Submitted(r) \/ SubmitRaises(r)
    <3>1. step'[r] \in {"queued", "releasing", "ended"} /\ sessions[s].phase = "dropped"
      BY <1>1, <1>2, <2>6 DEF Submitted, SubmitRaises
    <3>2. "queued" \in WorkerSteps
      BY DEF WorkerSteps, Steps, HttpSteps, WaitingSteps
    <3> QED
      BY <1>4, <1>6, <1>7, <1>8, <3>1, <3>2
  <2> QED
    BY <1>8, <2>1, <2>2, <2>3, <2>4, <2>5, <2>6 DEF HttpStep
<1>9. CASE DeletesOwn(r)
  <2>1. step'[r] \in {"submitting", "ended"} /\ Delete(s)
    BY <1>1, <1>9 DEF DeletesOwn, Goes
  <2>2. sessions'[s].phase = "dropped"
    BY <1>1, <2>1, DeleteSteps DEF TaskInv
  <2> QED
    BY <1>7, <2>1, <2>2
<1>10. CASE WorkerStep(r)
  <2>1. step[r] \in WorkerSteps /\ step'[r] \in WorkerSteps \union {"ended"}
    BY <1>1, <1>10, WorkerMoves
  <2>2. ~DeletesOwn(r)
    BY <2>1 DEF DeletesOwn, Goes, WorkerSteps, HttpSteps
  <2> QED
    BY <1>2, <1>4, <1>7, <2>1, <2>2
<1> QED
  BY <1>8, <1>9, <1>10 DEF ThreadStep

\* Whoever steps, a request's own session stays on its way.
LEMMA OwnKept ==
    ASSUME TaskInv, [Next]_vars, NEW q \in Holders
    PROVE  OwnAt(q)'
<1>1. /\ TypeOK /\ RequestType /\ StoreInv /\ ClosingOrder
      /\ step \in [Holders -> Steps] /\ request \in [Holders -> Requested \union {Nobody}]
  BY DEF TaskInv, ServiceInv, TypeOK, RequestType
  \* A thread that did not step.
<1>2. ASSUME step'[q] = step[q], request'[q] = request[q], ~DeletesOwn(q) PROVE OwnAt(q)'
  <2>1. CASE step[q] = "new" \/ Kind(q).ssh # "own"
    BY <1>2, <2>1 DEF OwnAt, Kind
  <2>2. CASE step[q] # "new" /\ Kind(q).ssh = "own"
    <3>1. SessionOf(q) \in Sessions
      BY <2>2, SessionNamed DEF TaskInv, ServiceInv, ThreadInv
    <3> QED
      BY <1>2, <2>2, <3>1, NobodyElseDeletes, PhaseUndeleted, OwnStays
  <2> QED
    BY <2>1, <2>2
<1>3. DeletesOwn(q) => step'[q] # step[q]
  BY <1>1 DEF DeletesOwn, Goes
<1>4. ASSUME NEW r \in Holders, ThreadStep(r) PROVE OwnAt(q)'
  <2>1. CASE q # r
    BY <1>1, <1>2, <1>3, <1>4, <2>1, HttpStaysOthers, WorkerStaysOthers DEF ThreadStep, Stays
  <2>2. CASE q = r
    <3>1. RequestAt(r) /\ RequestType
      BY DEF TaskInv, ServiceInv, ThreadInv
    <3>2. request' = request /\ step[r] # "new"
      BY <1>1, <1>4, <3>1, HttpKeepsType, WorkerKeepsType, ThreadStarted DEF ThreadStep
    <3> QED
      BY <1>4, <2>2, <3>2, OwnStep DEF OwnAt, Kind
  <2> QED
    BY <2>1, <2>2
<1>5. ASSUME NEW r \in Holders, NEW kind \in Kinds,
             \/ ArrivesWithoutSsh(r, kind)
             \/ \E s \in Sessions : ArrivesOnSession(r, kind, s) \/ ArrivesWithSettings(r, kind, s)
      PROVE  OwnAt(q)'
  <2>1. CASE q # r
    BY <1>1, <1>2, <1>3, <1>5, <2>1, ArrivalKeepsThread DEF Stays, TaskInv, ServiceInv
  <2>2. CASE q = r
    <3>1. CASE ArrivesWithoutSsh(r, kind) \/ \E s \in Sessions : ArrivesOnSession(r, kind, s)
      <4>1. Kind(q)' = kind /\ kind.ssh # "own"
        BY <1>1, <2>2, <3>1 DEF ArrivesWithoutSsh, ArrivesOnSession, Asks, Kind
      <4> QED
        BY <4>1 DEF OwnAt
    <3>2. ASSUME NEW s \in Sessions, ArrivesWithSettings(r, kind, s) PROVE OwnAt(q)'
      <4>1. SessionOf(q)' = s /\ step'[q] = "opening" /\ Connect(s)
        BY <1>1, <2>2, <3>2 DEF ArrivesWithSettings, Asks, Goes, SessionOf
      <4>2. sessions'[s].phase \in {"connecting", "connected", "listed", "dropped"}
        BY <1>1, <4>1, CreationSteps DEF PhaseAfter, Opening
      <4> QED
        BY <4>1, <4>2 DEF OwnAt, WorkerSteps, Steps, HttpSteps
    <3> QED
      BY <1>5, <3>1, <3>2
  <2> QED
    BY <2>1, <2>2
<1>6. CASE UserStep
  <2>1. CASE Arrival
    BY <1>5, <2>1 DEF Arrival
  <2>2. CASE \/ \E s \in Sessions : UserConnects(s) \/ UserDeletes(s)
             \/ \E r \in Holders : RequestCancel(r)
    BY <1>2, <1>3, <2>2 DEF UserConnects, UserDeletes, RequestCancel, threadVars
  <2> QED
    BY <1>6, <2>1, <2>2 DEF UserStep
<1>7. CASE StoreBackground \/ UNCHANGED vars
  BY <1>2, <1>3, <1>7 DEF StoreBackground, vars, threadVars
<1> QED
  BY <1>4, <1>6, <1>7 DEF Next

-----------------------------------------------------------------------------
(* The theorems.                                                           *)

\* The service starts with nothing asked for.
LEMMA TaskInvInit ==
    ASSUME Init
    PROVE  TaskInv
<1>1. /\ StoreInit /\ \A s \in Sessions : sessions[s] = NewSession
      /\ \A r \in Holders : lease[r] = NoSession /\ step[r] = "new" /\ status[r] = "absent"
                            /\ cancelled[r] = "never" /\ sourceResult[r] = "none"
  BY DEF Init, StoreInit
<1>2. StoreInv
  BY <1>1, StoreInvInit
<1>3. TypeOK /\ RequestType
  <2>1. StoreTypeOK /\ step \in [Holders -> Steps] /\ workerLock \in Holders \union {Nobody}
        /\ owner \in [Sessions -> Holders \union {Nobody, "user"}]
        /\ operation \in [Sessions -> Holders \union {Nobody}]
    BY <1>2 DEF Init, StoreInv, Steps, HttpSteps
  <2>2. runner \in [Sessions -> RunnerSettings]
    BY DEF Init, RunnerSettings
  <2>3. /\ status \in [Holders -> TaskStatus] /\ cancelled \in [Holders -> CancelTimes]
        /\ sourceResult \in [Holders -> SourceStatus] /\ RequestType
    BY DEF Init, TaskStatus, CancelTimes, SourceStatus, RequestType
  <2> QED
    BY <1>1, <2>1, <2>2, <2>3 DEF TypeOK
<1>4. ASSUME NEW r \in Holders PROVE ThreadInv(r) /\ LockInv(r) /\ OwnerAt(r) /\ OwnAt(r)
  <2>1. RequestAt(r) /\ LeaseAt(r) /\ OwnerAt(r) /\ OwnAt(r)
    BY <1>1 DEF RequestAt, LeaseAt, OwnerAt, OwnAt, LeaseSteps, WorkerSteps, HttpSteps
  <2>2. StatusAt(r) /\ CancelAt(r) /\ ResultAt(r)
    BY <1>1
       DEF StatusAt, CancelAt, ResultAt, HttpSteps, WaitingSteps, RunningSteps, TerminalStatus
  <2>3. LockInv(r)
    BY <1>1 DEF LockInv, LocksAt, RunnerAt, Locked, RunningSteps
  <2> QED
    BY <2>1, <2>2, <2>3 DEF ThreadInv
<1>5. ClosingOrder
  BY <1>1 DEF ClosingOrder, NewSession
<1> QED
  BY <1>2, <1>3, <1>4, <1>5 DEF TaskInv, ServiceInv

\* Every step of the service keeps the invariant.
LEMMA TaskInvKept ==
    ASSUME TaskInv, [Next]_vars
    PROVE  TaskInv'
<1>1. /\ TypeOK /\ RequestType /\ StoreInv /\ ClosingOrder /\ ServiceInv
      /\ \A r \in Holders : ThreadInv(r) /\ OwnerAt(r) /\ RequestAt(r)
  BY DEF TaskInv, ServiceInv, ThreadInv
<1>2. [StoreNext \/ SetBack]_storeVars
  BY <1>1, StoreSteps
<1>3. StoreInv' /\ ClosingOrder'
  BY <1>1, <1>2, StoreInvKept, ClosingOrderKept
<1>4. ASSUME NEW r \in Holders PROVE ThreadInv(r)'
  BY <1>1, ThreadsKept
<1>5. TypeOK' /\ RequestType'
  <2>1. StoreTypeOK'
    BY <1>3 DEF StoreInv
  <2> QED
    BY <1>1, <1>4, <2>1, TypeKept
<1>6. ASSUME NEW r \in Holders PROVE LockInv(r)'
  BY <1>1, LocksKept
<1>7. ASSUME NEW r \in Holders PROVE OwnerAt(r)'
  BY <1>1, OwnersKept
<1>8. ASSUME NEW r \in Holders PROVE OwnAt(r)'
  BY OwnKept
<1> QED
  BY <1>3, <1>4, <1>5, <1>6, <1>7, <1>8 DEF TaskInv, ServiceInv

\* The inductive invariant of the service holds under every interleaving of HTTP threads, worker
\* threads, timers and users, whatever the clock does.
THEOREM TaskInvariance == Spec => []TaskInv
<1>1. Init => TaskInv
  BY TaskInvInit
<1>2. TaskInv /\ [Next]_vars => TaskInv'
  BY TaskInvKept
<1> QED
  BY <1>1, <1>2, PTL DEF Spec

\* The variables of the service keep their types.
THEOREM ServiceTypeCorrect == Spec => []TypeOK
<1>1. TaskInv => TypeOK
  BY DEF TaskInv, ServiceInv
<1> QED
  BY <1>1, TaskInvariance, PTL

\* The service drives the session store only through its operations: whatever is proved of the
\* store under AnyClockSpec holds inside the service.
THEOREM ServiceUsesStore == Spec => AnyClockSpec
<1>1. Init => StoreInit
  BY DEF Init
<1>2. TaskInv /\ [Next]_vars => [StoreNext \/ SetBack]_storeVars
  <2> SUFFICES ASSUME TaskInv, [Next]_vars PROVE [StoreNext \/ SetBack]_storeVars
    OBVIOUS
  <2>1. TypeOK /\ \A r \in Holders : RequestAt(r)
    BY DEF TaskInv, ServiceInv, ThreadInv
  <2> QED
    BY <2>1, StoreSteps
<1> QED
  BY <1>1, <1>2, TaskInvariance, PTL DEF Spec, AnyClockSpec

\* While a task measures or optimises, the shared SSHRunner of its session carries its workspace and
\* its timeout: nobody reconfigured it meanwhile.
THEOREM RunnerIsServing == Spec => []RunnerServesTask
<1>1. TaskInv => RunnerServesTask
  BY DEF TaskInv, ServiceInv, LockInv, RunnerAt, RunnerServesTask, RunningSteps
<1> QED
  BY <1>1, TaskInvariance, PTL

\* A cancel acknowledged before the last check is never answered with a completed task, and one that
\* met the task in the queue keeps it from running.
THEOREM CancelIsHonoured == Spec => []CancelHonoured
<1>1. TaskInv => CancelHonoured
  <2> SUFFICES ASSUME TaskInv, NEW r \in Holders
               PROVE  /\ status[r] = "completed" => cancelled[r] \in {"never", "late"}
                      /\ cancelled[r] = "waiting" => status[r] \in {"pending", "cancelled"}
    BY DEF CancelHonoured
  <2>1. /\ StatusAt(r) /\ CancelAt(r) /\ cancelled[r] \in CancelTimes /\ step[r] \in Steps
    BY DEF TaskInv, ServiceInv, ThreadInv, TypeOK
  <2> QED
    BY <2>1 DEF StatusAt, CancelAt, CancelTimes, WaitingSteps, RunningSteps
<1> QED
  BY <1>1, TaskInvariance, PTL

\* The result file of an optimisation task agrees with the status of the ended task.
THEOREM ResultIsInAgreement == Spec => []ResultAgrees
<1>1. TaskInv => ResultAgrees
  <2> SUFFICES ASSUME TaskInv, NEW r \in Holders, status[r] \in TerminalStatus, Kind(r).optimise
               PROVE  /\ sourceResult[r] # "running"
                      /\ status[r] = "completed" => sourceResult[r] \in {"completed", "unavailable"}
                      /\ status[r] = "failed" => sourceResult[r] \in {"failed", "none"}
    BY DEF ResultAgrees
  <2>1. StatusAt(r) /\ ResultAt(r)
    BY DEF TaskInv, ServiceInv, ThreadInv
  <2>2. step[r] # "new"
    BY <2>1 DEF StatusAt, HttpSteps, TerminalStatus
  <2> QED
    BY <2>1, <2>2 DEF ResultAt
<1> QED
  BY <1>1, TaskInvariance, PTL

\* The connection a file task opened for itself is closed, and its password forgotten, when its
\* request or its task has ended, however it ended.
THEOREM OwnConnectionIsClosed == Spec => []OwnConnectionClosed
<1>1. TaskInv => OwnConnectionClosed
  <2> SUFFICES ASSUME TaskInv, NEW r \in Holders, step[r] = "ended", Kind(r).ssh = "own"
               PROVE  ~sessions[SessionOf(r)].open /\ sessions[SessionOf(r)].registered = {}
    BY DEF OwnConnectionClosed
  <2> DEFINE s == SessionOf(r)
  <2>1. /\ StoreInv /\ ClosingOrder /\ StoreTypeOK
        /\ \A h \in Holders : RequestAt(h) /\ LeaseAt(h) /\ OwnerAt(h) /\ OwnAt(h) /\ step[h] \in Steps
    BY DEF TaskInv, ServiceInv, ThreadInv, StoreInv, TypeOK
  <2>2. s \in Sessions /\ owner[s] = r /\ sessions[s].phase = "dropped" /\ lease[r] = NoSession
    BY <2>1, SessionNamed, DistinctNames DEF OwnerAt, OwnAt, LeaseAt, HasSession
  \* Another thread that had the lease would own the session, or the user would.
  <2>3. ASSUME NEW h \in Holders, lease[h] = s PROVE FALSE
    <3>1. h # r /\ s # NoSession
      BY <2>2, <2>3, DistinctNames
    <3>2. SessionOf(h) = s /\ step[h] # "new"
      BY <2>1, <2>3, <3>1 DEF LeaseAt, LeaseSteps, WorkerSteps, Steps, HttpSteps
    <3>3. owner[s] \in {h, "user"}
      BY <2>1, <3>1, <3>2 DEF OwnerAt, HasSession
    <3> QED
      BY <2>2, <3>1, <3>3, NobodyHoldsNothing
  <2>4. sessions[s].refs = 0
    <3>1. LeasesOn(s) = {}
      BY <2>3 DEF LeasesOn
    <3> QED
      BY <2>1, <2>2, <3>1, LeasesFinite DEF StoreInv, RefsCounted
  <2> QED
    BY <2>1, <2>2, <2>4 DEF ClosingOrder
<1> QED
  BY <1>1, TaskInvariance, PTL

\* Only the last two steps of a worker are left once its status is terminal, and neither writes it.
LEMMA StatusKept ==
    ASSUME TaskInv, [Next]_vars, NEW q \in Holders, status[q] \in TerminalStatus
    PROVE  status'[q] = status[q]
<1>1. /\ TypeOK /\ RequestType /\ StatusAt(q) /\ step[q] \in Steps
      /\ status \in [Holders -> TaskStatus]
  BY DEF TaskInv, ServiceInv, ThreadInv, TypeOK
<1>2. step[q] \in {"leaving", "returning", "ended"}
  BY <1>1 DEF StatusAt, Steps, HttpSteps, WaitingSteps, RunningSteps, LateSteps, TerminalStatus
<1>3. ASSUME NEW r \in Holders, ThreadStep(r) PROVE status'[q] = status[q]
  <2>1. CASE q # r
    BY <1>1, <1>3, <2>1, HttpStaysOthers, WorkerStaysOthers DEF ThreadStep, Stays
  <2>2. CASE q = r
    <3>1. ~HttpStep(r)
      BY <1>2, <2>2
         DEF HttpStep, SessionOpened, SessionRefused, LeaseGranted, LeaseExpired,
             LeaseUnknown, TakesRunner, Queried, RequestReleases, DeletesOwn, Submitted,
             SubmitRaises, Goes
    <3>2. WorkerStep(r) => Leaves(r) \/ WorkerReleases(r)
      BY <1>2, <2>2
         DEF WorkerStep, TakesSlot, TakesOperation, CancelledBeforeStart, StartsPreparing,
             Prepared, PrepareRaises, PrepareFailureRecorded, Configured, PreflightPasses,
             PreflightCancelled, SearchStarts, SearchSkipped, SearchEnds, CancelledInBaseline,
             BaselineAccepted, DeviceVerified, EngineReturns, PassesFinalCheck, FinishCancelled,
             Completed, Raises, Goes, RunningSteps
    <3> QED
      BY <1>3, <3>1, <3>2 DEF ThreadStep, Leaves, WorkerReleases, taskVars
  <2> QED
    BY <2>1, <2>2
<1>4. CASE UserStep \/ StoreBackground \/ UNCHANGED vars
  BY <1>4
     DEF UserStep, Arrival, ArrivesWithoutSsh, ArrivesOnSession, ArrivesWithSettings,
         UserConnects, UserDeletes, RequestCancel, StoreBackground, vars, taskVars
<1> QED
  BY <1>3, <1>4 DEF Next

\* A terminal status a client has read never changes.
THEOREM StatusIsFinal == Spec => TerminalIsFinal
<1>1. TaskInv /\ [Next]_vars =>
        [(\A r \in Holders : status[r] \in TerminalStatus => status'[r] = status[r])]_vars
  BY StatusKept
<1> QED
  BY <1>1, TaskInvariance, PTL DEF Spec, TerminalIsFinal

\* The secrets of every session stay balanced in the log filter while the service runs.
THEOREM RedactionInService == Spec => []RedactionBalanced
BY ServiceUsesStore, RegistryBalanced, PTL

-----------------------------------------------------------------------------
(* The life of a task.                                                     *)

\* The slot is held at the steps between TakesSlot and the unlocking only, no result file is
\* written for a task that optimises nothing, and a cancel is late behind the last check only.
SlotAt(r) == workerLock = r => step[r] \in Locked \union {"slot"}
PlainAt(r) == step[r] # "new" /\ ~Kind(r).optimise => sourceResult[r] = "none"
InTime(r) == cancelled[r] = "late" => step[r] \in LateSteps \union {"ended"}

LifeAt(r) == SlotAt(r) /\ PlainAt(r) /\ InTime(r)
LifeInv == TaskInv /\ \A r \in Holders : LifeAt(r)

\* What the client of another task sees is as it was.
OthersLive(r) == \A q \in Holders \ {r} :
    /\ Stays(q)
    /\ workerLock' = q <=> workerLock = q

LEMMA OthersKept ==
    ASSUME ServiceInv, NEW r \in Holders, ThreadStep(r)
    PROVE  OthersLive(r)
<1>1. TypeOK /\ RequestType /\ LocksAt(r)
  BY DEF ServiceInv, LockInv
<1>2. ASSUME NEW q \in Holders, q # r PROVE Stays(q)
  BY <1>1, <1>2, HttpStaysOthers, WorkerStaysOthers DEF ThreadStep
<1>3. ASSUME NEW q \in Holders, q # r PROVE workerLock' = q <=> workerLock = q
  <2>1. CASE UNCHANGED workerLock
    BY <2>1
  <2>2. CASE TakesSlot(r)
    BY <2>2, <1>3, NobodyHoldsNothing DEF TakesSlot
  <2>3. CASE PrepareRaises(r) \/ Leaves(r)
    <3>1. workerLock = r
      BY <1>1, <2>3 DEF PrepareRaises, Leaves, Goes, LocksAt, Locked
    <3> QED
      BY <1>3, <2>3, <3>1, NobodyHoldsNothing DEF PrepareRaises, Leaves, Unlocks
  <2>4. HttpStep(r) => UNCHANGED workerLock
    BY HttpMoves
  <2>5. WorkerStep(r) => UNCHANGED workerLock \/ TakesSlot(r) \/ PrepareRaises(r) \/ Leaves(r)
    BY DEF WorkerStep, TakesSlot, TakesOperation, CancelledBeforeStart, StartsPreparing, Prepared,
        PrepareFailureRecorded, Configured, PreflightPasses, PreflightCancelled,
        SearchStarts, SearchSkipped, SearchEnds, CancelledInBaseline, BaselineAccepted,
        DeviceVerified, EngineReturns, PassesFinalCheck, FinishCancelled, Completed, Raises,
        WorkerReleases, lockVars
  <2> QED
    BY <2>1, <2>2, <2>3, <2>4, <2>5 DEF ThreadStep
<1> QED
  BY <1>2, <1>3 DEF OthersLive

\* A thread at rest keeps both.
LEMMA LifeStays ==
    ASSUME NEW q \in Holders, LifeAt(q), Stays(q), workerLock' = q <=> workerLock = q
    PROVE  LifeAt(q)'
BY DEF LifeAt, SlotAt, PlainAt, InTime, Stays, Kind

LEMMA SlotKept ==
    ASSUME ServiceInv, NEW r \in Holders, SlotAt(r), ThreadStep(r)
    PROVE  SlotAt(r)'
<1>1. step \in [Holders -> Steps] /\ r # Nobody
  BY NobodyHoldsNothing DEF ServiceInv, TypeOK
<1> USE DEF SlotAt, Goes, Locked, RunningSteps
<1>2. CASE HttpStep(r)
  <2>1. workerLock # r
    BY <1>2, HttpMoves DEF HttpSteps
  <2> QED
    BY <1>2, <2>1, HttpMoves
<1>3. CASE TakesSlot(r)
  BY <1>1, <1>3 DEF TakesSlot
<1>4. CASE PrepareRaises(r) \/ Leaves(r)
  BY <1>1, <1>4 DEF PrepareRaises, Leaves, Unlocks
<1>5. CASE WorkerReleases(r) \/ PrepareFailureRecorded(r)
  <2>1. step[r] \notin Locked \union {"slot"}
    BY <1>5 DEF WorkerReleases, PrepareFailureRecorded
  <2> QED
    BY <1>5, <2>1 DEF WorkerReleases, PrepareFailureRecorded, lockVars
<1>6. CASE \/ TakesOperation(r) \/ CancelledBeforeStart(r) \/ StartsPreparing(r) \/ Prepared(r)
           \/ (\E targets \in BOOLEAN : Configured(r, targets))
           \/ PreflightPasses(r) \/ PreflightCancelled(r)
           \/ SearchStarts(r) \/ SearchSkipped(r) \/ SearchEnds(r)
           \/ CancelledInBaseline(r) \/ BaselineAccepted(r) \/ DeviceVerified(r)
           \/ (\E outcome \in EngineOutcomes(r) : EngineReturns(r, outcome))
           \/ PassesFinalCheck(r) \/ FinishCancelled(r) \/ Completed(r) \/ Raises(r)
  <2>1. step'[r] \in Locked
    BY <1>1, <1>6
       DEF TakesOperation, CancelledBeforeStart, StartsPreparing, Prepared, Configured,
           PreflightPasses, PreflightCancelled, SearchStarts, SearchSkipped, SearchEnds,
           CancelledInBaseline, BaselineAccepted, DeviceVerified, EngineReturns,
           PassesFinalCheck, FinishCancelled, Completed, Raises
  <2> QED
    BY <2>1
<1> QED
  BY <1>2, <1>3, <1>4, <1>5, <1>6 DEF ThreadStep, WorkerStep

LEMMA PlainKept ==
    ASSUME ServiceInv, NEW r \in Holders, PlainAt(r), ThreadStep(r)
    PROVE  PlainAt(r)'
<1>1. request' = request /\ step[r] # "new"
  BY HttpMoves, WorkerMoves DEF ThreadStep, WorkerSteps, HttpSteps
<1>2. UNCHANGED sourceResult \/ \E value \in SourceStatus : WriteResult(r, value)
  BY HttpMoves, WorkerMoves DEF ThreadStep
<1> QED
  BY <1>1, <1>2 DEF PlainAt, Kind, WriteResult

LEMMA LateKept ==
    ASSUME ServiceInv, NEW r \in Holders, InTime(r), ThreadStep(r)
    PROVE  InTime(r)'
<1>1. cancelled' = cancelled /\ step \in [Holders -> Steps]
  BY HttpMoves, WorkerMoves DEF ThreadStep, ServiceInv, TypeOK
<1>2. SUFFICES ASSUME step[r] \in LateSteps \union {"ended"}
               PROVE  step'[r] \in LateSteps \union {"ended"}
  BY <1>1 DEF InTime
<1>3. ~HttpStep(r)
  BY <1>2, HttpMoves DEF HttpSteps, LateSteps
<1>4. Completed(r) \/ Raises(r) \/ Leaves(r) \/ PrepareFailureRecorded(r) \/ WorkerReleases(r)
  BY <1>2, <1>3
     DEF ThreadStep, WorkerStep, TakesSlot, TakesOperation, CancelledBeforeStart, StartsPreparing,
         Prepared, PrepareRaises, Configured, PreflightPasses, PreflightCancelled, SearchStarts,
         SearchSkipped, SearchEnds, CancelledInBaseline, BaselineAccepted, DeviceVerified,
         EngineReturns, PassesFinalCheck, FinishCancelled, Goes, LateSteps
<1> QED
  BY <1>1, <1>4
     DEF Completed, Raises, Leaves, PrepareFailureRecorded, WorkerReleases, Goes, LateSteps

\* A cancel that is late, or that is not.
LEMMA CancelKeeps ==
    ASSUME ServiceInv, NEW r \in Holders, NEW q \in Holders, InTime(q), RequestCancel(r)
    PROVE  InTime(q)'
<1>1. /\ step' = step /\ cancelled \in [Holders -> CancelTimes] /\ StatusAt(r) /\ step[r] \in Steps
      /\ status[r] # "absent"
  BY DEF ServiceInv, ThreadInv, TypeOK, RequestCancel, threadVars
<1>2. CASE q # r
  BY <1>1, <1>2 DEF InTime, RequestCancel
<1>3. CASE q = r
  <2>1. cancelled'[r] = "late" => step[r] \notin WaitingSteps \union RunningSteps \union {"binding"}
    BY <1>1 DEF RequestCancel
  <2>2. step[r] \notin HttpSteps \ {"ended"}
    BY <1>1 DEF StatusAt
  <2> QED
    BY <1>1, <1>3, <2>1, <2>2 DEF InTime, Steps
<1> QED
  BY <1>2, <1>3

\* Users, arrivals and the store move no thread behind its arrival.
LEMMA UsersLive ==
    ASSUME LifeInv, UserStep \/ StoreBackground \/ UNCHANGED vars, NEW q \in Holders
    PROVE  LifeAt(q)'
<1>1. /\ ServiceInv /\ SlotAt(q) /\ PlainAt(q) /\ InTime(q) /\ TypeOK /\ RequestType /\ ResultAt(q)
      /\ StatusAt(q) /\ CancelAt(q)
  BY DEF LifeInv, LifeAt, TaskInv, ServiceInv, ThreadInv
<1>2. UNCHANGED <<workerLock, sourceResult>>
  BY DEF UserStep, Arrival, ArrivesWithoutSsh, ArrivesOnSession, ArrivesWithSettings,
         UserConnects, UserDeletes, RequestCancel, StoreBackground, vars, taskVars, lockVars
<1>3. ASSUME UNCHANGED <<step, request>>, UNCHANGED cancelled \/ \E r \in Holders : RequestCancel(r)
      PROVE  LifeAt(q)'
  <2>1. SlotAt(q)' /\ PlainAt(q)'
    BY <1>1, <1>2, <1>3 DEF SlotAt, PlainAt, Kind
  <2>2. InTime(q)'
    BY <1>1, <1>3, CancelKeeps DEF InTime
  <2> QED
    BY <2>1, <2>2 DEF LifeAt
<1>4. CASE Arrival
  <2>1. PICK r \in Holders, kind \in Kinds :
          \/ ArrivesWithoutSsh(r, kind)
          \/ \E s \in Sessions : ArrivesOnSession(r, kind, s) \/ ArrivesWithSettings(r, kind, s)
    BY <1>4 DEF Arrival
  <2>2. /\ step[r] = "new"
        /\ cancelled' = cancelled
        /\ \A p \in Holders \ {r} : step'[p] = step[p] /\ request'[p] = request[p]
    BY <1>1, <2>1, ThreadTypes
       DEF ArrivesWithoutSsh, ArrivesOnSession, ArrivesWithSettings, Goes, Asks, taskVars
  <2>3. CASE q # r
    BY <1>1, <1>2, <2>2, <2>3 DEF LifeAt, SlotAt, PlainAt, InTime, Kind
  <2>4. CASE q = r
    <3>1. cancelled'[q] = "never"
      BY <1>1, <2>2, <2>4 DEF StatusAt, CancelAt, HttpSteps
    <3> QED
      BY <1>1, <1>2, <2>2, <2>4, <3>1
         DEF LifeAt, SlotAt, PlainAt, InTime, ResultAt, Locked, RunningSteps
  <2> QED
    BY <2>3, <2>4
<1>5. CASE ~Arrival
  BY <1>3, <1>5
     DEF UserStep, UserConnects, UserDeletes, RequestCancel, StoreBackground, vars, threadVars, taskVars
<1> QED
  BY <1>4, <1>5

LEMMA LifeInvKept ==
    ASSUME LifeInv, [Next]_vars
    PROVE  LifeInv'
<1>1. TaskInv /\ ServiceInv /\ \A q \in Holders : LifeAt(q)
  BY DEF LifeInv, TaskInv
<1>2. TaskInv'
  BY <1>1, TaskInvKept
<1>3. ASSUME NEW r \in Holders, ThreadStep(r), NEW q \in Holders PROVE LifeAt(q)'
  <2>1. CASE q = r
    BY <1>1, <1>3, <2>1, SlotKept, PlainKept, LateKept DEF LifeAt
  <2>2. CASE q # r
    BY <1>1, <1>3, <2>2, OthersKept, LifeStays DEF OthersLive
  <2> QED
    BY <2>1, <2>2
<1> QED
  BY <1>2, <1>3, UsersLive DEF Next, LifeInv

LEMMA LifeInvInit ==
    ASSUME Init
    PROVE  LifeInv
BY TaskInvInit, NobodyHoldsNothing DEF LifeInv, LifeAt, SlotAt, PlainAt, InTime, Init

\* The client's view of all tasks.
LifeView == <<status, sourceResult, CancelOf, TurnOf, Leaseholders>>
LifeStep == [Life!Next]_LifeView

LEMMA ViewTypes ==
    ASSUME TypeOK
    PROVE  /\ status = [q \in Holders |-> status[q]]
           /\ sourceResult = [q \in Holders |-> sourceResult[q]]
           /\ CancelOf = [q \in Holders |-> CancelOf[q]]
           /\ TurnOf = [q \in Holders |-> TurnOf[q]]
           /\ Leaseholders \subseteq Holders
BY DEF TypeOK, CancelOf, TurnOf, Leaseholders

\* A function that changed at r only, and one that did not change.
LEMMA OneChanged ==
    ASSUME NEW f, NEW g, f = [q \in Holders |-> f[q]], g = [q \in Holders |-> g[q]],
           NEW r \in Holders, \A q \in Holders \ {r} : g[q] = f[q]
    PROVE  /\ g = [f EXCEPT ![r] = g[r]]
           /\ g[r] = f[r] => g = f
OBVIOUS

\* A step of r: the view changed at r only.
ViewMoves(r) ==
    /\ status' = [status EXCEPT ![r] = status'[r]]
    /\ sourceResult' = [sourceResult EXCEPT ![r] = sourceResult'[r]]
    /\ CancelOf' = [CancelOf EXCEPT ![r] = CancelOf'[r]]
    /\ TurnOf' = [TurnOf EXCEPT ![r] = TurnOf'[r]]
    /\ \A q \in Holders \ {r} : q \in Leaseholders' <=> q \in Leaseholders
    /\ Leaseholders \subseteq Holders /\ Leaseholders' \subseteq Holders
    /\ status'[r] = status[r] => status' = status
    /\ sourceResult'[r] = sourceResult[r] => sourceResult' = sourceResult
    /\ CancelOf'[r] = CancelOf[r] => CancelOf' = CancelOf
    /\ TurnOf'[r] = TurnOf[r] => TurnOf' = TurnOf

LEMMA ViewOthers ==
    ASSUME NEW r \in Holders, OthersLive(r), NEW q \in Holders \ {r}
    PROVE  /\ CancelOf'[q] = CancelOf[q] /\ TurnOf'[q] = TurnOf[q]
           /\ q \in Leaseholders' <=> q \in Leaseholders
BY DEF OthersLive, Stays, CancelOf, TurnOf, Leaseholders

LEMMA ViewMoved ==
    ASSUME TypeOK, TypeOK', NEW r \in Holders, OthersLive(r)
    PROVE  ViewMoves(r)
<1>1. \A q \in Holders \ {r} : status'[q] = status[q] /\ sourceResult'[q] = sourceResult[q]
  BY DEF OthersLive, Stays
<1>2. /\ status = [q \in Holders |-> status[q]] /\ status' = [q \in Holders |-> status'[q]]
      /\ sourceResult = [q \in Holders |-> sourceResult[q]]
      /\ sourceResult' = [q \in Holders |-> sourceResult'[q]]
      /\ CancelOf = [q \in Holders |-> CancelOf[q]] /\ CancelOf' = [q \in Holders |-> CancelOf'[q]]
      /\ TurnOf = [q \in Holders |-> TurnOf[q]] /\ TurnOf' = [q \in Holders |-> TurnOf'[q]]
      /\ Leaseholders \subseteq Holders /\ Leaseholders' \subseteq Holders
  BY ViewTypes DEF TypeOK, CancelOf, TurnOf, Leaseholders
<1>3. /\ status' = [status EXCEPT ![r] = status'[r]]
      /\ status'[r] = status[r] => status' = status
  BY <1>1, <1>2, OneChanged
<1>4. /\ sourceResult' = [sourceResult EXCEPT ![r] = sourceResult'[r]]
      /\ sourceResult'[r] = sourceResult[r] => sourceResult' = sourceResult
  BY <1>1, <1>2, OneChanged
<1>5. /\ CancelOf' = [CancelOf EXCEPT ![r] = CancelOf'[r]]
      /\ CancelOf'[r] = CancelOf[r] => CancelOf' = CancelOf
  BY <1>2, ViewOthers, OneChanged
<1>6. /\ TurnOf' = [TurnOf EXCEPT ![r] = TurnOf'[r]]
      /\ TurnOf'[r] = TurnOf[r] => TurnOf' = TurnOf
  BY <1>2, ViewOthers, OneChanged
<1> QED
  BY <1>2, <1>3, <1>4, <1>5, <1>6, ViewOthers DEF ViewMoves

\* What changed of task r besides the functions named.
SameStatus(r) == status'[r] = status[r]
SameResult(r) == sourceResult'[r] = sourceResult[r]
SameCancel(r) == CancelOf'[r] = CancelOf[r]
SameTurn(r) == TurnOf'[r] = TurnOf[r]
SameLease(r) == r \in Leaseholders' <=> r \in Leaseholders

LEMMA LeasesSame ==
    ASSUME NEW r \in Holders, ViewMoves(r), SameLease(r)
    PROVE  Leaseholders' = Leaseholders
BY DEF ViewMoves, SameLease

LEMMA TaskSteps ==
    ASSUME NEW r \in Holders, Life!TaskStep(r)
    PROVE  LifeStep
BY DEF LifeStep, Life!Next

LEMMA ViewStutters ==
    ASSUME NEW r \in Holders, ViewMoves(r), SameStatus(r), SameResult(r), SameCancel(r),
           SameTurn(r), SameLease(r)
    PROVE  LifeStep
BY LeasesSame DEF LifeStep, LifeView, ViewMoves, SameStatus, SameResult, SameCancel, SameTurn

LEMMA LifeConnects ==
    ASSUME NEW r \in Holders, ViewMoves(r), SameStatus(r), SameResult(r), SameCancel(r),
           SameTurn(r), status[r] = "absent", r \notin Leaseholders, r \in Leaseholders'
    PROVE  LifeStep
<1>1. Leaseholders' = Leaseholders \union {r}
  BY DEF ViewMoves
<1>2. Life!Connects(r)
  BY <1>1 DEF Life!Connects, ViewMoves, SameStatus, SameResult, SameCancel, SameTurn
<1> QED
  BY <1>2, TaskSteps DEF Life!TaskStep

LEMMA LifeDisconnects ==
    ASSUME NEW r \in Holders, ViewMoves(r), SameStatus(r), SameResult(r), SameCancel(r),
           SameTurn(r), status[r] = "absent" \/ (status[r] \in TerminalStatus /\ TurnOf[r] = "after"),
           r \in Leaseholders, r \notin Leaseholders'
    PROVE  LifeStep
<1>1. Leaseholders' = Leaseholders \ {r}
  BY DEF ViewMoves
<1>2. Life!Disconnects(r)
  BY <1>1
     DEF Life!Disconnects, Life!Ended, TerminalStatus, ViewMoves, SameStatus, SameResult,
         SameCancel, SameTurn
<1> QED
  BY <1>2, TaskSteps DEF Life!TaskStep

LEMMA LifeSubmitted ==
    ASSUME NEW r \in Holders, ViewMoves(r), SameResult(r), SameCancel(r), SameTurn(r), SameLease(r),
           status[r] = "absent", status'[r] = "pending"
    PROVE  LifeStep
<1>1. Life!IsSubmitted(r)
  BY LeasesSame
     DEF Life!IsSubmitted, Life!Becomes, ViewMoves, SameResult, SameCancel, SameTurn
<1> QED
  BY <1>1, TaskSteps DEF Life!TaskStep

LEMMA LifeTakesTurn ==
    ASSUME NEW r \in Holders, ViewMoves(r), SameStatus(r), SameResult(r), SameCancel(r), SameLease(r),
           status[r] = "pending", \A q \in Holders : TurnOf[q] # "now",
           TurnOf[r] = "before", TurnOf'[r] = "now"
    PROVE  LifeStep
<1>1. Life!TakesTurn(r)
  BY LeasesSame
     DEF Life!TakesTurn, Life!Turns, ViewMoves, SameStatus, SameResult, SameCancel
<1> QED
  BY <1>1, TaskSteps DEF Life!TaskStep

LEMMA LifeEndsTurn ==
    ASSUME NEW r \in Holders, ViewMoves(r), SameStatus(r), SameResult(r), SameCancel(r), SameLease(r),
           status[r] \in TerminalStatus \union {"pending"}, TurnOf[r] = "now", TurnOf'[r] = "after"
    PROVE  LifeStep
<1>1. Life!EndsTurn(r)
  BY LeasesSame
     DEF Life!EndsTurn, Life!Turns, Life!Ended, TerminalStatus, ViewMoves, SameStatus, SameResult,
         SameCancel
<1> QED
  BY <1>1, TaskSteps DEF Life!TaskStep

LEMMA LifeCancelled ==
    ASSUME NEW r \in Holders, ViewMoves(r), SameStatus(r), SameResult(r), SameTurn(r), SameLease(r),
           CancelOf[r] = "never", TurnOf[r] # "after", CancelOf'[r] \in {"waiting", "running"},
           status[r] = "pending" \/ (status[r] = "running" /\ CancelOf'[r] = "running")
    PROVE  LifeStep
<1>1. PICK when \in {"waiting", "running"} : when = CancelOf'[r]
  OBVIOUS
<1>2. Life!IsCancelled(r, when)
  BY <1>1, LeasesSame
     DEF Life!IsCancelled, ViewMoves, SameStatus, SameResult, SameTurn
<1> QED
  BY <1>2, TaskSteps DEF Life!TaskStep

LEMMA LifeStarts ==
    ASSUME NEW r \in Holders, ViewMoves(r), SameResult(r), SameCancel(r), SameTurn(r), SameLease(r),
           status[r] = "pending", TurnOf[r] = "now", CancelOf[r] # "waiting", status'[r] = "running"
    PROVE  LifeStep
<1>1. Life!Starts(r)
  BY LeasesSame DEF Life!Starts, Life!Becomes, ViewMoves, SameResult, SameCancel, SameTurn
<1> QED
  BY <1>1, TaskSteps DEF Life!TaskStep

LEMMA LifeWritesResult ==
    ASSUME NEW r \in Holders, ViewMoves(r), SameStatus(r), SameCancel(r), SameTurn(r), SameLease(r),
           status[r] = "running", TurnOf[r] = "now",
           sourceResult'[r] \in {"running", "unavailable", "completed"}
    PROVE  LifeStep
<1>1. Life!WritesResult(r)
  BY LeasesSame
     DEF Life!WritesResult, Life!Leaves, ViewMoves, SameStatus, SameCancel, SameTurn
<1> QED
  BY <1>1, TaskSteps DEF Life!TaskStep

LEMMA LifeCompletes ==
    ASSUME NEW r \in Holders, ViewMoves(r), SameResult(r), SameCancel(r), SameTurn(r), SameLease(r),
           status[r] = "running", TurnOf[r] = "now", CancelOf[r] = "never",
           sourceResult[r] \in {"none", "unavailable", "completed"}, status'[r] = "completed"
    PROVE  LifeStep
<1>1. Life!Completes(r)
  BY LeasesSame DEF Life!Completes, Life!Becomes, ViewMoves, SameResult, SameCancel, SameTurn
<1> QED
  BY <1>1, TaskSteps DEF Life!TaskStep

LEMMA LifeEndsCancelled ==
    ASSUME NEW r \in Holders, ViewMoves(r), SameCancel(r), SameTurn(r), SameLease(r),
           status[r] \in {"pending", "running"}, TurnOf[r] = "now", CancelOf[r] # "never",
           sourceResult'[r] \in {sourceResult[r], "cancelled"} \ {"running"}, status'[r] = "cancelled"
    PROVE  LifeStep
<1>1. Life!EndsCancelled(r)
  BY LeasesSame DEF Life!EndsCancelled, Life!Becomes, Life!Leaves, ViewMoves, SameCancel, SameTurn
<1> QED
  BY <1>1, TaskSteps DEF Life!TaskStep

LEMMA LifeFails ==
    ASSUME NEW r \in Holders, ViewMoves(r), SameCancel(r), SameTurn(r), SameLease(r),
           \/ status[r] = "running" /\ TurnOf[r] = "now"
           \/ status[r] = "pending" /\ TurnOf[r] = "after",
           sourceResult'[r] \in {"none", "failed"}, status'[r] = "failed"
    PROVE  LifeStep
<1>1. Life!Fails(r)
  BY LeasesSame DEF Life!Fails, Life!Becomes, Life!Leaves, ViewMoves, SameCancel, SameTurn
<1> QED
  BY <1>1, TaskSteps DEF Life!TaskStep

-----------------------------------------------------------------------------
(* The steps of a thread, as its client sees them.                         *)

LEMMA TurnIs ==
    ASSUME NEW r \in Holders
    PROVE  /\ workerLock = r => TurnOf[r] = "now"
           /\ workerLock # r =>
                TurnOf[r] = IF step[r] \in {"refusing", "returning", "ended"} /\ status[r] # "absent"
                            THEN "after" ELSE "before"
BY DEF TurnOf

LEMMA CancelIs ==
    ASSUME NEW r \in Holders
    PROVE  CancelOf[r] = IF cancelled[r] = "late" THEN "never" ELSE cancelled[r]
BY DEF CancelOf

\* What is known of thread r before its step, of the locks and of itself.
Known(r) ==
    /\ TypeOK /\ RequestType /\ ThreadInv(r) /\ LocksAt(r) /\ SlotAt(r) /\ PlainAt(r) /\ InTime(r)
    /\ r # Nobody /\ ViewMoves(r) /\ SlotAt(r)' /\ TypeOK'

\* An HTTP thread has no turn.
LEMMA HttpHasNoTurn ==
    ASSUME NEW r \in Holders, Known(r), HttpStep(r)
    PROVE  SameTurn(r) /\ SameCancel(r) /\ SameResult(r) /\ TurnOf[r] = "before" /\ status[r] = "absent"
<1>1. /\ UNCHANGED <<workerLock, cancelled, sourceResult>> /\ step[r] \in HttpSteps \ {"new", "ended"}
      /\ step \in [Holders -> Steps]
      /\ UNCHANGED status \/ Submitted(r)
      /\ \E to \in (HttpSteps \ {"new", "opening"}) \union {"queued"} : step' = [step EXCEPT ![r] = to]
  BY HttpMoves DEF Known, TypeOK
<1>2. status[r] = "absent" /\ workerLock # r /\ workerLock' # r
  BY <1>1 DEF Known, ThreadInv, StatusAt, SlotAt, HttpSteps, Locked, RunningSteps
<1>3. step'[r] \notin {"refusing", "returning"} /\ (step'[r] = "ended" => status'[r] = "absent")
  <2>1. CASE UNCHANGED status
    BY <1>1, <1>2, <2>1 DEF HttpSteps
  <2>2. CASE Submitted(r)
    BY <1>1, <2>2 DEF Submitted, Goes
  <2> QED
    BY <1>1, <2>1, <2>2
<1>4. TurnOf[r] = "before"
  BY <1>1, <1>2, TurnIs
<1>5. TurnOf'[r] = "before"
  BY <1>2, <1>3 DEF TurnOf
<1>6. CancelOf'[r] = CancelOf[r]
  BY <1>1 DEF CancelOf
<1> QED
  BY <1>1, <1>2, <1>4, <1>5, <1>6 DEF SameTurn, SameCancel, SameResult

LEMMA HttpImplements ==
    ASSUME NEW r \in Holders, Known(r), HttpStep(r)
    PROVE  LifeStep
<1>1. /\ SameTurn(r) /\ SameCancel(r) /\ SameResult(r) /\ TurnOf[r] = "before" /\ status[r] = "absent"
      /\ ViewMoves(r) /\ lease \in [Holders -> Sessions \union {NoSession}]
      /\ status \in [Holders -> TaskStatus]
  BY HttpHasNoTurn DEF Known, TypeOK, StoreTypeOK
<1>2. CASE Submitted(r)
  <2>1. status'[r] = "pending" /\ lease' = lease
    BY <1>1, <1>2 DEF Submitted, SetStatus, storeVars
  <2>2. SameLease(r)
    BY <2>1 DEF SameLease, Leaseholders
  <2> QED
    BY <1>1, <2>1, <2>2, LifeSubmitted
<1>3. CASE LeaseGranted(r)
  <2>1. /\ SessionOf(r) \in Sessions /\ lease[r] = NoSession
    BY <1>3, SessionNamed DEF LeaseGranted, Goes, SessionSteps, Known, ThreadInv, LeaseAt
  <2>2. lease'[r] = SessionOf(r) /\ status' = status
    BY <1>1, <1>3 DEF LeaseGranted, Acquire, taskVars
  <2>3. r \notin Leaseholders /\ r \in Leaseholders' /\ SameStatus(r)
    BY <2>1, <2>2, DistinctNames DEF Leaseholders, SameStatus
  <2> QED
    BY <1>1, <2>3, LifeConnects
<1>4. CASE RequestReleases(r)
  <2>1. lease'[r] = NoSession /\ lease[r] # NoSession /\ status' = status
    BY <1>1, <1>4 DEF RequestReleases, Release, taskVars
  <2>2. r \in Leaseholders /\ r \notin Leaseholders' /\ SameStatus(r)
    BY <2>1 DEF Leaseholders, SameStatus
  <2> QED
    BY <1>1, <2>2, LifeDisconnects
<1>5. CASE ~Submitted(r) /\ ~LeaseGranted(r) /\ ~RequestReleases(r)
  <2>1. status' = status
    BY <1>5, HttpMoves
  <2>2. lease' = lease
    <3>1. UNCHANGED storeVars \/ LeaseExpired(r) \/ DeletesOwn(r)
      BY <1>5, HttpMoves
    <3> QED
      BY <3>1 DEF storeVars, LeaseExpired, AcquireExpired, DeletesOwn, Delete
  <2>3. SameLease(r) /\ SameStatus(r)
    BY <2>1, <2>2 DEF SameLease, SameStatus, Leaseholders
  <2> QED
    BY <1>1, <2>3, ViewStutters
<1> QED
  BY <1>2, <1>3, <1>4, <1>5

\* A worker thread between TakesSlot and the unlocking, which its step does not do.
LEMMA WorkerHasTurn ==
    ASSUME NEW r \in Holders, Known(r), step[r] \in Locked \union {"slot"},
           UNCHANGED <<workerLock, lease, cancelled>>
    PROVE  /\ TurnOf[r] = "now" /\ SameTurn(r) /\ SameCancel(r) /\ SameLease(r)
<1>1. workerLock = r
  BY DEF Known, LocksAt
<1>2. TurnOf'[r] = "now"
  BY <1>1 DEF TurnOf
<1>3. TurnOf[r] = "now"
  BY <1>1, TurnIs
<1>4. CancelOf'[r] = CancelOf[r]
  BY DEF CancelOf
<1> QED
  BY <1>2, <1>3, <1>4 DEF SameTurn, SameCancel, SameLease, Leaseholders

LEMMA WorkerImplements ==
    ASSUME NEW r \in Holders, Known(r), WorkerStep(r)
    PROVE  LifeStep
<1>1. /\ ViewMoves(r) /\ StatusAt(r) /\ CancelAt(r) /\ ResultAt(r) /\ LocksAt(r) /\ SlotAt(r)
      /\ PlainAt(r) /\ step \in [Holders -> Steps] /\ r # Nobody
      /\ status \in [Holders -> TaskStatus] /\ cancelled \in [Holders -> CancelTimes]
      /\ sourceResult \in [Holders -> SourceStatus] /\ lease \in [Holders -> Sessions \union {NoSession}]
      /\ UNCHANGED <<request, cancelled>>
  BY WorkerMoves DEF Known, ThreadInv, TypeOK, StoreTypeOK
\* Steps between the locks.
<1>2. ASSUME step[r] \in Locked, UNCHANGED <<workerLock, lease>>
      PROVE  TurnOf[r] = "now" /\ SameTurn(r) /\ SameCancel(r) /\ SameLease(r)
  BY <1>1, <1>2, WorkerHasTurn
<1>3. CASE TakesSlot(r)
  <2>1. /\ step[r] = "queued" /\ workerLock = Nobody /\ workerLock' = r /\ UNCHANGED <<status, sourceResult, lease>>
    BY <1>3 DEF TakesSlot, Goes, taskVars, storeVars
  <2>2. status[r] = "pending" /\ \A q \in Holders : TurnOf[q] # "now"
    BY <1>1, <2>1, NobodyHoldsNothing DEF StatusAt, WaitingSteps, TurnOf
  <2>3. TurnOf[r] = "before" /\ TurnOf'[r] = "now"
    BY <1>1, <2>1 DEF TurnOf
  <2>4. SameStatus(r) /\ SameResult(r) /\ SameCancel(r) /\ SameLease(r)
    BY <1>1, <2>1 DEF SameStatus, SameResult, SameCancel, SameLease, CancelOf, Leaseholders
  <2> QED
    BY <1>1, <2>2, <2>3, <2>4, LifeTakesTurn
<1>4. CASE \/ TakesOperation(r) \/ StartsPreparing(r) \/ PreflightPasses(r)
           \/ SearchStarts(r) \/ SearchSkipped(r) \/ SearchEnds(r) \/ BaselineAccepted(r)
           \/ DeviceVerified(r) \/ PassesFinalCheck(r)
  <2>1. /\ step[r] \in Locked \union {"slot"} /\ UNCHANGED <<workerLock, lease, status, sourceResult>>
    BY <1>4
       DEF TakesOperation, StartsPreparing, PreflightPasses, SearchStarts, SearchSkipped,
           SearchEnds, BaselineAccepted, DeviceVerified, PassesFinalCheck, Goes, Locked,
           RunningSteps, lockVars, taskVars, storeVars
  <2>2. SameTurn(r) /\ SameCancel(r) /\ SameLease(r)
    BY <1>1, <2>1, WorkerHasTurn
  <2> QED
    BY <1>1, <2>1, <2>2, ViewStutters DEF SameStatus, SameResult
<1>5. CASE CancelledBeforeStart(r) \/ PreflightCancelled(r) \/ CancelledInBaseline(r) \/ FinishCancelled(r)
  <2>1. /\ step[r] \in Locked /\ step[r] \in {"preparing", "preflight", "searched", "finishing"}
        /\ UNCHANGED <<workerLock, lease>> /\ CancelRequested(r)
        /\ status'[r] = "cancelled"
    BY <1>1, <1>5
       DEF CancelledBeforeStart, PreflightCancelled, CancelledInBaseline, FinishCancelled, Goes,
           SetStatus, Locked, RunningSteps, lockVars, storeVars
  <2>2. TurnOf[r] = "now" /\ SameTurn(r) /\ SameCancel(r) /\ SameLease(r)
    BY <1>2, <2>1
  <2>3. status[r] \in {"pending", "running"}
    BY <1>1, <2>1 DEF StatusAt, WaitingSteps, RunningSteps
  <2>4. CancelOf[r] # "never"
    <3>1. cancelled[r] # "late"
      BY <2>1 DEF Known, InTime, LateSteps
    <3> QED
      BY <2>1, <3>1, CancelIs DEF CancelRequested
  <2>5. sourceResult'[r] \in {sourceResult[r], "cancelled"} \ {"running"}
    <3>1. CASE FinishCancelled(r)
      <4>1. sourceResult' = sourceResult /\ step[r] = "finishing"
        BY <3>1 DEF FinishCancelled, Goes
      <4> QED
        BY <1>1, <4>1 DEF ResultAt, PlainAt
    <3>2. CASE WriteResult(r, "cancelled")
      BY <1>1, <2>1, <3>2 DEF WriteResult, PlainAt
    <3> QED
      BY <1>5, <3>1, <3>2 DEF CancelledBeforeStart, PreflightCancelled, CancelledInBaseline
  <2> QED
    BY <1>1, <2>1, <2>2, <2>3, <2>4, <2>5, LifeEndsCancelled
<1>6. CASE Prepared(r)
  <2>1. /\ step[r] = "binding" /\ UNCHANGED <<workerLock, lease, sourceResult>> /\ status'[r] = "running"
    BY <1>1, <1>6 DEF Prepared, Goes, SetStatus, storeVars
  <2>2. TurnOf[r] = "now" /\ SameTurn(r) /\ SameCancel(r) /\ SameLease(r)
    BY <1>2, <2>1 DEF Locked
  <2>3. status[r] = "pending" /\ cancelled[r] # "waiting"
    BY <1>1, <2>1 DEF StatusAt, CancelAt, WaitingSteps
  <2>4. CancelOf[r] # "waiting"
    BY <2>3, CancelIs
  <2> QED
    BY <1>1, <2>1, <2>2, <2>3, <2>4, LifeStarts DEF SameResult
<1>7. CASE PrepareRaises(r) \/ Leaves(r)
  <2>1. /\ step[r] \in Locked /\ step[r] \in {"binding", "leaving"} /\ workerLock' = Nobody
        /\ step'[r] \in {"refusing", "returning"} /\ UNCHANGED <<lease, status, sourceResult>>
    BY <1>1, <1>7 DEF PrepareRaises, Leaves, Goes, Unlocks, Locked, taskVars, storeVars
  <2>2. TurnOf[r] = "now"
    BY <1>1, <2>1, TurnIs DEF LocksAt
  <2>3. status[r] \in TerminalStatus \union {"pending"} /\ status[r] # "absent"
    BY <1>1, <2>1 DEF StatusAt, TerminalStatus
  <2>4. TurnOf'[r] = "after"
    BY <1>1, <2>1, <2>3 DEF TurnOf
  <2>5. SameStatus(r) /\ SameResult(r) /\ SameCancel(r) /\ SameLease(r)
    BY <1>1, <2>1 DEF SameStatus, SameResult, SameCancel, SameLease, CancelOf, Leaseholders
  <2> QED
    BY <1>1, <2>2, <2>3, <2>4, <2>5, LifeEndsTurn
<1>8. CASE PrepareFailureRecorded(r)
  <2>1. /\ step[r] = "refusing" /\ step'[r] = "returning" /\ status'[r] = "failed"
        /\ UNCHANGED <<workerLock, lease, sourceResult>>
    BY <1>1, <1>8 DEF PrepareFailureRecorded, Goes, SetStatus, lockVars, storeVars
  <2>2. status[r] = "pending" /\ workerLock # r
    BY <1>1, <2>1 DEF StatusAt, SlotAt, Locked, RunningSteps
  <2>3. TurnOf[r] = "after"
    BY <2>1, <2>2, TurnIs
  <2>4. TurnOf'[r] = "after"
    BY <2>1, <2>2 DEF TurnOf
  <2>5. SameTurn(r) /\ SameCancel(r) /\ SameLease(r)
    BY <1>1, <2>1, <2>3, <2>4 DEF SameTurn, SameCancel, SameLease, CancelOf, Leaseholders
  <2>6. sourceResult'[r] = "none"
    BY <1>1, <2>1 DEF ResultAt, PlainAt
  <2> QED
    BY <1>1, <2>1, <2>2, <2>3, <2>5, <2>6, LifeFails
<1>9. ASSUME NEW targets \in BOOLEAN, Configured(r, targets) PROVE LifeStep
  <2>1. /\ step[r] = "configuring" /\ UNCHANGED <<workerLock, lease, status>>
        /\ WriteResult(r, IF targets THEN "running" ELSE "unavailable")
    BY <1>9 DEF Configured, Goes, lockVars, storeVars
  <2>2. TurnOf[r] = "now" /\ SameTurn(r) /\ SameCancel(r) /\ SameLease(r) /\ status[r] = "running"
    BY <1>1, <1>2, <2>1 DEF Locked, RunningSteps, StatusAt
  <2>3. sourceResult'[r] \in {"running", "unavailable"} \/ sourceResult'[r] = sourceResult[r]
    BY <1>1, <2>1 DEF WriteResult
  <2> QED
    BY <1>1, <2>1, <2>2, <2>3, LifeWritesResult, ViewStutters DEF SameStatus, SameResult
<1>10. ASSUME NEW outcome \in EngineOutcomes(r), EngineReturns(r, outcome) PROVE LifeStep
  <2>1. /\ step[r] = "optimising" /\ UNCHANGED <<workerLock, lease>> /\ WriteResult(r, outcome)
        /\ IF outcome \in {"failed", "cancelled"} THEN SetStatus(r, outcome) ELSE UNCHANGED status
    BY <1>10 DEF EngineReturns, Goes, lockVars, storeVars
  <2>2. TurnOf[r] = "now" /\ SameTurn(r) /\ SameCancel(r) /\ SameLease(r) /\ status[r] = "running"
    BY <1>1, <1>2, <2>1 DEF Locked, RunningSteps, StatusAt
  <2>3. \/ sourceResult'[r] = outcome
        \/ sourceResult'[r] = sourceResult[r] /\ sourceResult[r] = "none"
    BY <1>1, <2>1 DEF WriteResult, PlainAt
  <2>4. CASE outcome \in {"completed", "unavailable"}
    <3>1. SameStatus(r)
      BY <2>1, <2>4 DEF SameStatus
    <3> QED
      BY <1>1, <2>2, <2>3, <2>4, <3>1, LifeWritesResult, ViewStutters DEF SameResult
  <2>5. CASE outcome = "failed"
    <3>1. status'[r] = "failed"
      BY <1>1, <2>1, <2>5 DEF SetStatus
    <3> QED
      BY <1>1, <2>2, <2>3, <2>5, <3>1, LifeFails
  <2>6. CASE outcome = "cancelled"
    <3>1. status'[r] = "cancelled"
      BY <1>1, <2>1, <2>6 DEF SetStatus
    <3>2. CancelRequested(r) /\ cancelled[r] # "late"
      BY <1>10, <2>1, <2>6 DEF EngineOutcomes, Known, InTime, LateSteps
    <3>3. CancelOf[r] # "never"
      BY <3>2, CancelIs DEF CancelRequested
    <3> QED
      BY <1>1, <2>2, <2>3, <2>6, <3>1, <3>3, LifeEndsCancelled
  <2> QED
    BY <1>10, <2>4, <2>5, <2>6 DEF EngineOutcomes
<1>11. CASE Completed(r)
  <2>1. /\ step[r] = "reporting" /\ UNCHANGED <<workerLock, lease, sourceResult>> /\ status'[r] = "completed"
    BY <1>1, <1>11 DEF Completed, Goes, SetStatus, lockVars, storeVars
  <2>2. TurnOf[r] = "now" /\ SameTurn(r) /\ SameCancel(r) /\ SameLease(r) /\ status[r] = "running"
    BY <1>1, <1>2, <2>1 DEF Locked, StatusAt
  <2>3. CancelOf[r] = "never"
    BY <1>1, <2>1, CancelIs DEF CancelAt
  <2>4. sourceResult[r] \in {"none", "unavailable", "completed"}
    BY <1>1, <2>1 DEF ResultAt, PlainAt
  <2> QED
    BY <1>1, <2>1, <2>2, <2>3, <2>4, LifeCompletes DEF SameResult
<1>12. CASE Raises(r)
  <2>1. /\ step[r] \in RunningSteps \union {"reporting"} /\ UNCHANGED <<workerLock, lease>>
        /\ status'[r] = "failed" /\ WriteResult(r, "failed")
    BY <1>1, <1>12 DEF Raises, SetStatus, lockVars, storeVars
  <2>2. TurnOf[r] = "now" /\ SameTurn(r) /\ SameCancel(r) /\ SameLease(r) /\ status[r] = "running"
    BY <1>1, <1>2, <2>1 DEF Locked, StatusAt
  <2>3. sourceResult'[r] \in {"none", "failed"}
    BY <1>1, <2>1 DEF WriteResult, PlainAt, RunningSteps
  <2> QED
    BY <1>1, <2>1, <2>2, <2>3, LifeFails
<1>13. CASE WorkerReleases(r)
  <2>1. /\ step[r] = "returning" /\ step'[r] = "ended" /\ UNCHANGED <<workerLock, status, sourceResult>>
        /\ IF lease[r] # NoSession THEN lease'[r] = NoSession ELSE lease' = lease
    BY <1>1, <1>13 DEF WorkerReleases, Goes, lockVars, taskVars, storeVars, Release
  <2>2. status[r] \in TerminalStatus /\ status[r] # "absent" /\ workerLock # r
    BY <1>1, <2>1 DEF StatusAt, TerminalStatus, SlotAt, Locked, RunningSteps
  <2>3. TurnOf[r] = "after"
    BY <2>1, <2>2, TurnIs
  <2>4. TurnOf'[r] = "after"
    BY <2>1, <2>2 DEF TurnOf
  <2>5. SameTurn(r) /\ SameCancel(r) /\ SameStatus(r) /\ SameResult(r)
    BY <1>1, <2>1, <2>3, <2>4 DEF SameTurn, SameCancel, SameStatus, SameResult, CancelOf
  <2>6. CASE lease[r] # NoSession
    <3>1. r \in Leaseholders /\ r \notin Leaseholders'
      BY <2>1, <2>6 DEF Leaseholders
    <3> QED
      BY <1>1, <2>2, <2>3, <2>5, <3>1, LifeDisconnects
  <2>7. CASE lease[r] = NoSession
    <3>1. SameLease(r)
      BY <2>1, <2>7 DEF SameLease, Leaseholders
    <3> QED
      BY <1>1, <2>5, <3>1, ViewStutters
  <2> QED
    BY <2>6, <2>7
<1> QED
  BY <1>3, <1>4, <1>5, <1>6, <1>7, <1>8, <1>9, <1>10, <1>11, <1>12, <1>13 DEF WorkerStep

\* Arrivals, users and the store change nothing a client sees, except by a cancel in time.
LEMMA UsersImplement ==
    ASSUME LifeInv, LifeInv', UserStep \/ StoreBackground \/ UNCHANGED vars
    PROVE  LifeStep
<1>1. /\ ServiceInv /\ TypeOK /\ TypeOK' /\ RequestType
      /\ \A q \in Holders : LifeAt(q) /\ StatusAt(q) /\ CancelAt(q) /\ SlotAt(q)
  BY DEF LifeInv, LifeAt, TaskInv, ServiceInv, ThreadInv
<1>2. CASE Arrival
  <2>1. PICK r \in Holders, kind \in Kinds :
          \/ ArrivesWithoutSsh(r, kind)
          \/ \E s \in Sessions : ArrivesOnSession(r, kind, s) \/ ArrivesWithSettings(r, kind, s)
    BY <1>2 DEF Arrival
  <2>2. /\ step[r] = "new" /\ step'[r] \in {"acquiring", "opening", "submitting"}
        /\ UNCHANGED <<lease, workerLock, status, cancelled, sourceResult>>
        /\ \A q \in Holders \ {r} : step'[q] = step[q]
    BY <1>1, <2>1, ThreadTypes
       DEF ArrivesWithoutSsh, ArrivesOnSession, ArrivesWithSettings, Goes, Connect, taskVars,
           lockVars, storeVars
  <2>3. ASSUME NEW q \in Holders PROVE TurnOf'[q] = TurnOf[q]
    BY <2>2, <2>3 DEF TurnOf
  <2>4. TurnOf' = TurnOf
    <3>1. TurnOf = [q \in Holders |-> TurnOf[q]] /\ TurnOf' = [q \in Holders |-> TurnOf'[q]]
      BY DEF TurnOf
    <3> QED
      BY <2>3, <3>1
  <2>5. CancelOf' = CancelOf /\ Leaseholders' = Leaseholders
    BY <2>2 DEF CancelOf, Leaseholders
  <2> QED
    BY <2>2, <2>4, <2>5 DEF LifeStep, LifeView
<1>3. ASSUME NEW r \in Holders, RequestCancel(r) PROVE LifeStep
  <2>1. /\ UNCHANGED <<step, request, lease, workerLock, status, sourceResult>>
        /\ status[r] # "absent" /\ cancelled[r] = "never"
        /\ \A q \in Holders \ {r} : cancelled'[q] = cancelled[q]
        /\ cancelled'[r] = IF step[r] \in WaitingSteps THEN "waiting"
                           ELSE IF step[r] \in RunningSteps \union {"binding"} THEN "running" ELSE "late"
    BY <1>1, <1>3, ThreadTypes DEF RequestCancel, CancelRequested, threadVars, lockVars, storeVars
  <2>2. OthersLive(r)
    BY <2>1 DEF OthersLive, Stays
  <2>3. ViewMoves(r)
    BY <1>1, <2>2, ViewMoved
  <2>4. SameStatus(r) /\ SameResult(r) /\ SameTurn(r) /\ SameLease(r)
    BY <2>1 DEF SameStatus, SameResult, SameTurn, SameLease, TurnOf, Leaseholders
  <2>5. CancelOf[r] = "never"
    BY <2>1, CancelIs
  <2>6. CancelOf'[r] = IF cancelled'[r] = "late" THEN "never" ELSE cancelled'[r]
    BY DEF CancelOf
  <2>7. CASE step[r] \in WaitingSteps \union RunningSteps \union {"binding"}
    <3>1. TurnOf[r] # "after"
      BY <2>7 DEF TurnOf, WaitingSteps, RunningSteps
    <3>2. CancelOf'[r] \in {"waiting", "running"}
      BY <2>1, <2>6, <2>7
    <3>3. status[r] = "pending" \/ (status[r] = "running" /\ CancelOf'[r] = "running")
      BY <1>1, <2>1, <2>6, <2>7 DEF StatusAt, WaitingSteps, RunningSteps
    <3> QED
      BY <2>3, <2>4, <2>5, <3>1, <3>2, <3>3, LifeCancelled
  <2>8. CASE step[r] \notin WaitingSteps \union RunningSteps \union {"binding"}
    <3>1. SameCancel(r)
      BY <2>1, <2>5, <2>6, <2>8 DEF SameCancel
    <3> QED
      BY <2>3, <2>4, <3>1, ViewStutters
  <2> QED
    BY <2>7, <2>8
<1>4. CASE \/ \E s \in Sessions : UserConnects(s) \/ UserDeletes(s)
           \/ StoreBackground \/ UNCHANGED vars
  <2>1. UNCHANGED <<step, lease, workerLock, status, cancelled, sourceResult>>
    BY <1>4
       DEF UserConnects, UserDeletes, Connect, Delete, StoreBackground, Background, SetBack, Tick,
           ConnectSucceeds, ConnectFails, Enlist, Expire, vars, threadVars, lockVars, taskVars, storeVars
  <2> QED
    BY <2>1 DEF LifeStep, LifeView, CancelOf, TurnOf, Leaseholders
<1> QED
  BY <1>2, <1>3, <1>4 DEF UserStep

LEMMA ServiceImplements ==
    ASSUME LifeInv, LifeInv', [Next]_vars
    PROVE  LifeStep
<1>1. ASSUME NEW r \in Holders, ThreadStep(r) PROVE LifeStep
  <2>1. ServiceInv /\ ServiceInv' /\ LifeAt(r) /\ LifeAt(r)'
    BY DEF LifeInv, TaskInv
  <2>2. OthersLive(r)
    BY <1>1, <2>1, OthersKept
  <2>3. ViewMoves(r)
    BY <2>1, <2>2, ViewMoved DEF ServiceInv
  <2>4. Known(r)
    BY <2>1, <2>3, NobodyHoldsNothing DEF Known, ServiceInv, LockInv, LifeAt
  <2> QED
    BY <1>1, <2>4, HttpImplements, WorkerImplements DEF ThreadStep
<1> QED
  BY <1>1, UsersImplement DEF Next

LEMMA LifeBegins ==
    ASSUME Init
    PROVE  Life!Init
<1>1. status = [r \in Holders |-> "absent"] /\ sourceResult = [r \in Holders |-> "none"]
  BY DEF Init
<1>2. CancelOf = [r \in Holders |-> "never"] /\ Leaseholders = {}
  BY DEF Init, StoreInit, CancelOf, Leaseholders
<1>3. TurnOf = [r \in Holders |-> "before"]
  BY NobodyHoldsNothing DEF Init, TurnOf
<1> QED
  BY <1>1, <1>2, <1>3 DEF Life!Init

\* The threads of the service, its two locks and the leases together keep the promise of
\* TaskLife: tasks have the machine one at a time and once each, a cancel in time is kept, the
\* result file goes with the status, and a task's connection outlives its work.
THEOREM ServiceKeepsTaskLife == Spec => ImplementsTaskLife
<1>1. Init => Life!Init /\ LifeInv
  BY LifeBegins, LifeInvInit
<1>2. LifeInv /\ [Next]_vars => LifeInv'
  BY LifeInvKept
<1>3. LifeInv /\ LifeInv' /\ [Next]_vars => [Life!Next]_<<status, sourceResult, CancelOf, TurnOf, Leaseholders>>
  BY ServiceImplements DEF LifeStep, LifeView
<1> QED
  BY <1>1, <1>2, <1>3, PTL DEF Spec, ImplementsTaskLife, Life!Spec, Life!lifeVars

=============================================================================
