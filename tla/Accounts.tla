------------------------------- MODULE Accounts -------------------------------
(***************************************************************************)
(* Operators' accounts and the sessions they are signed in with            *)
(* (src/backend/app/auth and the routes over it): setting a deployment up, *)
(* signing in within the limit on failures, resolving a request's session  *)
(* through a short-lived cache, signing out, and the changes operators and *)
(* administrators make to accounts.                                        *)
(*                                                                         *)
(* A transaction is a step, and what its handler does after it another.    *)
(* An account stands for its email too, and a session for its token.  The  *)
(* clock counts the unit that the three periods are given in.              *)
(***************************************************************************)
EXTENDS Integers, Sequences

CONSTANTS
    Users,           \* the accounts there may be
    Browsers,        \* those that complete the setup
    Ttl,             \* session_ttl_hours
    CacheFor,        \* _RESOLVE_CACHE_SECONDS
    MaxFailures,     \* login_max_failures
    Lockout,         \* login_lockout_seconds
    MaxTrying,       \* bound: sign-ins with one email under way at a time
    MaxSessions,     \* bound
    Budgets,         \* bounds: the clock's ticks, setups, sign-ins tried, sessions
                     \* resolved, changes asked for
    None

ConstantsAssumption ==
    /\ Ttl \in Nat \ {0} /\ CacheFor \in Nat \ {0} /\ Lockout \in Nat \ {0}
    /\ MaxFailures \in Nat \ {0} /\ MaxTrying \in Nat \ {0}
    /\ MaxSessions \in Nat
    /\ Budgets \subseteq [ticks : Nat, setups : Nat, tries : Nat, requests : Nat, changes : Nat]
    /\ None \notin {"ADMIN", "OPERATOR"}
    /\ None \notin [role : {"ADMIN", "OPERATOR"}, read : Nat, at : Nat]

VARIABLES
    clock,
    role, active,    \* UserAccount: a role, None before the account is created
    setup,           \* browser -> "idle", "waiting" for the lock, "alone" in it, "made"
    founded,         \* history: the accounts made by a setup
    pending,         \* changes read and allowed, not yet written
    overlapped,      \* history: whether two of them were ever under way at once
    trying,          \* account -> sign-ins with its email under way
    matched, proven, \* accounts with a sign-in under way that read the right password;
                     \* that has it verified
    failures,        \* LoginRateLimiter: email -> the times of its latest failures
    failed,          \* history: the times of all its failures since a sign-in
    opened,          \* sessions 1 .. opened were started
    owner, expires, revoked,
    leaving,         \* sessions being signed out: out of the cache, not yet revoked
    asking,          \* sessions a request is about to read
    reading,         \* what requests have read and not yet stored
    cache,           \* _resolved: session -> what was stored and when, or None
    clears,          \* commits whose _resolved.clear() is still to come
    acting,          \* the sessions, with the role then, that requests were let in for
    overtaken,       \* history: sessions revoked while a request had read them
    good,            \* history: session -> when it was last valid
    budget           \* bound: what is left of the budget

accountVars == <<role, active, setup, founded, pending, overlapped>>
signInVars == <<trying, matched, proven, failures, failed>>
sessionVars == <<opened, owner, expires, revoked, leaving>>
cacheVars == <<asking, reading, cache, clears, acting, overtaken>>
vars == <<clock, accountVars, signInVars, sessionVars, cacheVars, good, budget>>

Roles == {"ADMIN", "OPERATOR"}
Sessions == 1 .. MaxSessions
Exists(u) == role[u] # None
Administers(u) == u \in active /\ role[u] = "ADMIN"

\* A session that is good for a request: not revoked, not expired, of an active account.
Good(s) == s <= opened /\ ~revoked[s] /\ clock < expires[s] /\ owner[s] \in active

Init ==
    /\ clock = 0 /\ budget \in Budgets
    /\ role = [u \in Users |-> None] /\ active = {}
    /\ setup = [b \in Browsers |-> "idle"] /\ founded = {}
    /\ pending = {} /\ overlapped = FALSE
    /\ trying = [u \in Users |-> 0] /\ matched = {} /\ proven = {}
    /\ failures = [u \in Users |-> <<>>] /\ failed = [u \in Users |-> <<>>]
    /\ opened = 0 /\ owner = [s \in Sessions |-> None]
    /\ expires = [s \in Sessions |-> 0] /\ revoked = [s \in Sessions |-> FALSE]
    /\ leaving = {} /\ asking = {} /\ reading = {} /\ cache = [s \in Sessions |-> None]
    /\ clears = 0 /\ acting = {} /\ overtaken = {}
    /\ good = [s \in Sessions |-> -1]

Spend(what) == budget[what] > 0 /\ budget' = [budget EXCEPT ![what] = @ - 1]

Tick ==
    /\ clock' = clock + 1
    /\ Spend("ticks")
    /\ UNCHANGED <<accountVars, signInVars, sessionVars, cacheVars>>

-----------------------------------------------------------------------------
(* Setup.                                                                  *)

SetupBegins(b) ==
    /\ setup[b] = "idle" /\ setup' = [setup EXCEPT ![b] = "waiting"]
    /\ Spend("setups")
    /\ UNCHANGED <<clock, role, active, founded, pending, overlapped>>
    /\ UNCHANGED <<signInVars, sessionVars, cacheVars>>

\* The lock is free.
MayEnterSetup(b) == \A a \in Browsers : setup[a] # "alone"

\* In the lock: refused when there is an account.
SetupChecks(b) ==
    /\ setup[b] = "waiting" /\ MayEnterSetup(b)
    /\ setup' = [setup EXCEPT ![b] = IF \E u \in Users : Exists(u) THEN "idle" ELSE "alone"]
    /\ UNCHANGED <<clock, role, active, founded, pending, overlapped>>
    /\ UNCHANGED <<signInVars, sessionVars, cacheVars, budget>>

SetupCreates(b, u) ==
    /\ setup[b] = "alone" /\ ~Exists(u)
    /\ setup' = [setup EXCEPT ![b] = "made"]
    /\ role' = [role EXCEPT ![u] = "ADMIN"] /\ active' = active \cup {u}
    /\ founded' = founded \cup {u}
    /\ UNCHANGED <<clock, pending, overlapped, signInVars, sessionVars, cacheVars, budget>>

\* start_session
Opens(u) ==
    LET s == opened + 1
    IN  /\ opened < MaxSessions /\ opened' = s
        /\ owner' = [owner EXCEPT ![s] = u]
        /\ expires' = [expires EXCEPT ![s] = clock + Ttl]
        /\ UNCHANGED <<revoked, leaving>>

SetupSignsIn(b) ==
    /\ setup[b] = "made" /\ setup' = [setup EXCEPT ![b] = "idle"]
    /\ \E u \in founded : Opens(u)
    /\ UNCHANGED <<clock, role, active, founded, pending, overlapped>>
    /\ UNCHANGED <<signInVars, cacheVars, budget>>

-----------------------------------------------------------------------------
(* Signing in.                                                             *)

\* LoginRateLimiter.check.  The failures _prune drops stay in the model and never
\* count again.
Allowed(u) ==
    IF Len(failures[u]) < MaxFailures THEN TRUE ELSE failures[u][1] <= clock - Lockout

TriesToSignIn(u) ==
    /\ trying[u] < MaxTrying /\ Allowed(u)
    /\ trying' = [trying EXCEPT ![u] = @ + 1]
    /\ Spend("tries")
    /\ UNCHANGED <<clock, accountVars, matched, proven, failures, failed, sessionVars, cacheVars>>

\* Of the sign-ins under way, one did not read the right password.
OneMayFail(u) ==
    trying[u] > (IF u \in matched THEN 1 ELSE 0) + (IF u \in proven THEN 1 ELSE 0)

\* authenticate reads an active account whose password was given.
PasswordMatches(u) ==
    /\ OneMayFail(u) /\ u \in active /\ u \notin matched \cup proven
    /\ matched' = matched \cup {u}
    /\ UNCHANGED <<clock, accountVars, trying, proven, failures, failed>>
    /\ UNCHANGED <<sessionVars, cacheVars, budget>>

\* The password of an account that is switched off: neither counted nor forgiven.
AccountIsDisabled(u) ==
    /\ OneMayFail(u) /\ Exists(u) /\ u \notin active
    /\ trying' = [trying EXCEPT ![u] = @ - 1]
    /\ UNCHANGED <<clock, accountVars, matched, proven, failures, failed>>
    /\ UNCHANGED <<sessionVars, cacheVars, budget>>

\* record_failure: only the latest are kept.
Latest(times) == IF Len(times) > MaxFailures THEN Tail(times) ELSE times

\* No such account, or not its password.
PasswordIsWrong(u) ==
    /\ OneMayFail(u)
    /\ trying' = [trying EXCEPT ![u] = @ - 1]
    /\ failures' = [failures EXCEPT ![u] = Latest(Append(failures[u], clock))]
    /\ failed' = [failed EXCEPT ![u] = Append(failed[u], clock)]
    /\ UNCHANGED <<clock, accountVars, matched, proven, sessionVars, cacheVars, budget>>

\* Verified: the limiter forgets the failures.
IsVerified(u) ==
    /\ u \in matched /\ matched' = matched \ {u} /\ proven' = proven \cup {u}
    /\ failures' = [failures EXCEPT ![u] = <<>>] /\ failed' = [failed EXCEPT ![u] = <<>>]
    /\ UNCHANGED <<clock, accountVars, trying, sessionVars, cacheVars, budget>>

SignsIn(u) ==
    /\ u \in proven /\ proven' = proven \ {u}
    /\ trying' = [trying EXCEPT ![u] = @ - 1]
    /\ Opens(u)
    /\ UNCHANGED <<clock, accountVars, matched, failures, failed, cacheVars, budget>>

-----------------------------------------------------------------------------
(* A request's session.                                                    *)

\* A request with this session is let in without asking the database.
Trusted(s) == IF cache[s] = None THEN FALSE ELSE clock - cache[s].at < CacheFor

\* resolve_token's row.
RowIsGood(s) == s <= opened /\ ~revoked[s] /\ clock < expires[s] /\ owner[s] \in active

Asks(s) ==
    /\ ~Trusted(s) /\ asking' = asking \cup {s}
    /\ Spend("requests")
    /\ UNCHANGED <<clock, accountVars, signInVars, sessionVars>>
    /\ UNCHANGED <<reading, cache, clears, acting, overtaken>>

ReadsSession(s) ==
    /\ s \in asking /\ asking' = asking \ {s} /\ RowIsGood(s)
    /\ reading' = reading \cup {[session |-> s, role |-> role[owner[s]], read |-> clock]}
    /\ UNCHANGED <<clock, accountVars, signInVars, sessionVars, budget>>
    /\ UNCHANGED <<cache, clears, acting, overtaken>>

\* Sign in again.
FindsNoSession(s) ==
    /\ s \in asking /\ asking' = asking \ {s} /\ ~RowIsGood(s)
    /\ cache' = [cache EXCEPT ![s] = None]
    /\ UNCHANGED <<clock, accountVars, signInVars, sessionVars, budget>>
    /\ UNCHANGED <<reading, clears, acting, overtaken>>

\* The transaction has ended: the request is let in.
StoresContext(c) ==
    /\ reading' = reading \ {c}
    /\ cache' = [cache EXCEPT ![c.session] = [role |-> c.role, read |-> c.read, at |-> clock]]
    /\ acting' = acting \cup {<<c.session, c.role>>}
    /\ UNCHANGED <<clock, accountVars, signInVars, sessionVars, budget>>
    /\ UNCHANGED <<asking, clears, overtaken>>

-----------------------------------------------------------------------------
(* Changes.  A request may act long after it was let in.                   *)

MayAct(s) == \E r \in Roles : <<s, r>> \in acting
ActsAsAdmin(s) == <<s, "ADMIN">> \in acting

Read(s) == \E c \in reading : c.session = s
OwnedBy(u) == {s \in Sessions : s <= opened /\ owner[s] = u}

\* The sessions are revoked, and _resolved is to be cleared.
Revokes(gone) ==
    /\ revoked' = [s \in Sessions |-> revoked[s] \/ s \in gone]
    /\ overtaken' = overtaken \cup {s \in gone : Read(s)}
    /\ clears' = clears + 1
    /\ UNCHANGED <<opened, owner, expires, leaving, asking, reading, cache, acting>>

Clears ==
    /\ clears > 0 /\ clears' = clears - 1
    /\ cache' = [s \in Sessions |-> None]
    /\ UNCHANGED <<clock, accountVars, signInVars, sessionVars, budget>>
    /\ UNCHANGED <<asking, reading, acting, overtaken>>

\* revoke_session: one of one's own.
RevokesSession(s, gone) ==
    /\ MayAct(s) /\ gone \in OwnedBy(owner[s]) /\ ~revoked[gone]
    /\ Revokes({gone})
    /\ Spend("changes")
    /\ UNCHANGED <<clock, accountVars, signInVars>>

\* change_password signs out every other session.
ChangesPassword(s) ==
    /\ MayAct(s)
    /\ Revokes(OwnedBy(owner[s]) \ {s})
    /\ Spend("changes")
    /\ UNCHANGED <<clock, accountVars, signInVars>>

UpdatesProfile(s) ==
    /\ MayAct(s)
    /\ Revokes({})
    /\ Spend("changes")
    /\ UNCHANGED <<clock, accountVars, signInVars>>

\* revoke_token: the cache first.
SignsOut(s) ==
    /\ s <= opened /\ s \notin leaving
    /\ leaving' = leaving \cup {s}
    /\ cache' = [cache EXCEPT ![s] = None]
    /\ Spend("changes")
    /\ UNCHANGED <<clock, accountVars, signInVars, opened, owner, expires, revoked>>
    /\ UNCHANGED <<asking, reading, clears, acting, overtaken>>

IsSignedOut(s) ==
    /\ s \in leaving /\ leaving' = leaving \ {s}
    /\ revoked' = [revoked EXCEPT ![s] = TRUE]
    /\ overtaken' = IF Read(s) \/ cache[s] # None THEN overtaken \cup {s} ELSE overtaken
    /\ UNCHANGED <<clock, accountVars, signInVars, opened, owner, expires, budget>>
    /\ UNCHANGED <<asking, reading, cache, clears, acting>>

CreatesUser(s, u) ==
    /\ ActsAsAdmin(s) /\ ~Exists(u)
    /\ \E r \in Roles : role' = [role EXCEPT ![u] = r]
    /\ active' = active \cup {u}
    /\ Spend("changes")
    /\ UNCHANGED <<clock, setup, founded, pending, overlapped, signInVars, sessionVars, cacheVars>>

\* What a change of u sets: a role and "on" or "off", or "same".
Change(u, r, a) == [user |-> u, role |-> r, power |-> a]
RemovesAdmin(new) ==
    Administers(new.user) /\ (new.role = "OPERATOR" \/ new.power = "off")

\* Mutant: any other account will do.
LeavesAnAccount(new) ==
    RemovesAdmin(new) => \E v \in Users \ {new.user} : Exists(v)
LeavesAnAdmin(new) ==
    RemovesAdmin(new) => \E v \in Users \ {new.user} : Administers(v)

\* update_user as far as its check.  One's own account cannot be switched off.
ChecksChange(s, new) ==
    /\ ActsAsAdmin(s) /\ Exists(new.user)
    /\ ~(new.user = owner[s] /\ new.power = "off")
    /\ LeavesAnAdmin(new)
    /\ pending' = pending \cup {new}
    /\ overlapped' = (overlapped \/ pending # {})
    /\ Spend("changes")
    /\ UNCHANGED <<clock, role, active, setup, founded, signInVars, sessionVars, cacheVars>>

WritesChange(new) ==
    /\ pending' = pending \ {new}
    /\ role' = IF new.role = "same" THEN role ELSE [role EXCEPT ![new.user] = new.role]
    /\ active' = CASE new.power = "on" -> active \cup {new.user}
                   [] new.power = "off" -> active \ {new.user}
                   [] new.power = "same" -> active
    /\ Revokes(IF new.power = "off" THEN OwnedBy(new.user) ELSE {})
    /\ UNCHANGED <<clock, setup, founded, overlapped, signInVars, budget>>

\* The backend restarts: what it held in memory is gone.
Restarts ==
    /\ Spend("changes")
    /\ setup' = [b \in Browsers |-> "idle"] /\ pending' = {}
    /\ trying' = [u \in Users |-> 0] /\ matched' = {} /\ proven' = {}
    /\ failures' = [u \in Users |-> <<>>] /\ failed' = [u \in Users |-> <<>>]
    /\ leaving' = {} /\ asking' = {} /\ reading' = {}
    /\ cache' = [s \in Sessions |-> None] /\ clears' = 0 /\ acting' = {}
    /\ UNCHANGED <<clock, role, active, founded, overlapped>>
    /\ UNCHANGED <<opened, owner, expires, revoked, overtaken>>

Changes == [user : Users, role : Roles \cup {"same"}, power : {"on", "off", "same"}]

Moves ==
    \/ Tick \/ Clears \/ Restarts
    \/ \E b \in Browsers : \/ SetupBegins(b) \/ SetupChecks(b) \/ SetupSignsIn(b)
                           \/ \E u \in Users : SetupCreates(b, u)
    \/ \E u \in Users : \/ TriesToSignIn(u) \/ PasswordMatches(u) \/ AccountIsDisabled(u)
                        \/ PasswordIsWrong(u) \/ IsVerified(u) \/ SignsIn(u)
    \/ \E s \in Sessions : \/ Asks(s) \/ ReadsSession(s) \/ FindsNoSession(s)
                           \/ ChangesPassword(s) \/ UpdatesProfile(s)
                           \/ SignsOut(s) \/ IsSignedOut(s)
                           \/ \E gone \in Sessions : RevokesSession(s, gone)
                           \/ \E u \in Users : CreatesUser(s, u)
                           \/ \E new \in Changes : ChecksChange(s, new)
    \/ \E c \in reading : StoresContext(c)
    \/ \E new \in pending : WritesChange(new)

\* After each step it is noted which sessions are valid.
Dates == good' = [s \in Sessions |-> IF Good(s)' THEN clock' ELSE good[s]]

Next == Moves /\ Dates

Spec == Init /\ [][Next]_vars

-----------------------------------------------------------------------------
(* Properties.                                                             *)

TypeOK ==
    /\ clock \in Nat /\ opened \in 0 .. MaxSessions /\ clears \in Nat
    /\ role \in [Users -> Roles \cup {None}]
    /\ active \subseteq Users /\ \A u \in active : Exists(u)
    /\ trying \in [Users -> 0 .. MaxTrying]
    /\ \A s \in Sessions : s <= opened => owner[s] \in Users

(* However many browsers complete the setup at the same moment, it makes   *)
(* one account.                                                            *)
SetupIsOnce == \A u, v \in founded : u = v

(* A deployment that was set up has an active administrator, as long as    *)
(* no two changes to accounts were under way at once.                      *)
AdministratorRemains ==
    (\E u \in Users : Exists(u)) /\ ~overlapped => \E u \in Users : Administers(u)

(* A request is let in from the cache only for a session that was good     *)
(* when it was last read.                                                  *)
TrustIsRecent == \A s \in Sessions : Trusted(s) => good[s] >= cache[s].read

(* A session that was revoked is known to nobody once _resolved has been   *)
(* cleared, unless a request had read it before.                           *)
RevokedIsForgotten ==
    \A s \in Sessions :
        revoked[s] /\ s \notin overtaken /\ clears = 0 => ~Read(s) /\ cache[s] = None

(* A sign-in is refused only when MaxFailures failed within the lockout;   *)
(* and however many are under way at a time, fewer than                    *)
(* MaxFailures + MaxTrying fail within it.                                 *)
LockoutIsEarned ==
    \A u \in Users :
        LET n == Len(failed[u])
        IN  /\ ~Allowed(u) =>
                  n >= MaxFailures /\ failed[u][n - MaxFailures + 1] > clock - Lockout
            /\ n >= MaxFailures + MaxTrying =>
                  failed[u][n - MaxFailures - MaxTrying + 1] <= clock - Lockout

AccountsAreKept ==
    /\ TypeOK /\ SetupIsOnce /\ AdministratorRemains
    /\ TrustIsRecent /\ RevokedIsForgotten /\ LockoutIsEarned
=============================================================================
