----------------------------- MODULE ClientSession -----------------------------
(***************************************************************************)
(* The session of one browser: its pages, the local storage and the        *)
(* refresh cookie they share, and the server that rotates refresh tokens   *)
(* (redesign/backend.js, context/AuthContext.tsx, redesign/AppCore.jsx,    *)
(* routes/auth.py, services/auth_service.py).                              *)
(*                                                                         *)
(* A page holds two keepers of the session that do not know each other:    *)
(* the API module, whose refreshes are joined into one, and AuthProvider,  *)
(* which main.tsx still mounts and which refreshes by itself whenever the  *)
(* page was loaded with a stored user.                                     *)
(***************************************************************************)
EXTENDS Naturals

CONSTANTS
    Page,       \* open pages of the browser
    MaxToken,   \* bound: refresh tokens minted, the rate limit beyond it
    MaxFaults,  \* bound: requests or answers lost, and refresh tokens expired
    MaxReloads  \* bound: reloads

ASSUME SessionAssumption == {MaxToken, MaxFaults, MaxReloads} \subseteq Nat

VARIABLES
    cookie,    \* veridict_refresh, 0 when there is none
    stored,    \* veridict_token: none, fresh, or stale once it is 12 hours old
    live,      \* server: refresh tokens neither revoked nor rotated
    minted,    \* server: the last refresh token
    flight,    \* the refresh request of each keeper
    exit,      \* the sign-out request of each keeper
    waits,     \* who awaits the module's refresh
    timer,     \* is the keeper's next silent refresh scheduled?
    call,      \* an API call of the page
    sign,      \* a sign-in, sign-up or registration of the page
    view,      \* what App renders: the application or the sign-in screen
    banner,    \* does the sign-in screen say that the session expired?
    faults, reloads,
    disturbed  \* did something happen that one keeper cannot see?

vars == <<cookie, stored, live, minted, flight, exit, waits, timer, call, sign,
          view, banner, faults, reloads, disturbed>>

Token == 1..MaxToken
Keeper == Page \X {"module", "provider"}
Module(p) == <<p, "module">>
Provider(p) == <<p, "provider">>

Without(a) == [at |-> a, token |-> 0]
NoFlight == Without("no")
Idle == [at |-> "idle", good |-> FALSE, saves |-> FALSE]

Init ==
    /\ cookie = 0 /\ stored = "none" /\ live = {} /\ minted = 0
    /\ flight = [k \in Keeper |-> NoFlight]
    /\ exit = [k \in Keeper |-> NoFlight]
    /\ waits = [p \in Page |-> {}]
    /\ timer = [k \in Keeper |-> FALSE]
    /\ call = [p \in Page |-> Idle]
    /\ sign = [p \in Page |-> NoFlight]
    /\ view = [p \in Page |-> "auth"]
    /\ banner = [p \in Page |-> FALSE]
    /\ faults = 0 /\ reloads = 0 /\ disturbed = FALSE

-----------------------------------------------------------------------------
Sent == [at |-> "sent", token |-> cookie]
SignedIn == stored # "none"

Quiet == /\ \A k \in Keeper : flight[k] = NoFlight /\ exit[k] = NoFlight
         /\ \A p \in Page : sign[p] = NoFlight

\* A request on the session that starts while another keeper's is under way.
Overlaps(k) ==
    \/ \E j \in Keeper \ {k} : flight[j] # NoFlight \/ exit[j] # NoFlight
    \/ \E p \in Page : sign[p] # NoFlight

\* Mutant: every caller sends a refresh of its own.
TryRefreshAlone(p, who) ==
    /\ waits' = [waits EXCEPT ![p] = @ \cup {who}]
    /\ flight' = [flight EXCEPT ![Module(p)] = Sent]
    /\ disturbed' = (disturbed \/ Overlaps(Module(p)) \/ exit[Module(p)] # NoFlight)

\* Mutant: who joins a refresh is not told when it ends.
TryRefreshUnheard(p, who) ==
    IF flight[Module(p)] # NoFlight
    THEN UNCHANGED <<waits, flight, disturbed>>
    ELSE /\ waits' = [waits EXCEPT ![p] = @ \cup {who}]
         /\ flight' = [flight EXCEPT ![Module(p)] = Sent]
         /\ disturbed' = (disturbed \/ Overlaps(Module(p)) \/ exit[Module(p)] # NoFlight)

\* tryRefreshToken of the API module: a refresh under way is joined.
TryRefresh(p, who) ==
    /\ waits' = [waits EXCEPT ![p] = @ \cup {who}]
    /\ IF flight[Module(p)] # NoFlight
       THEN UNCHANGED <<flight, disturbed>>
       ELSE /\ flight' = [flight EXCEPT ![Module(p)] = Sent]
            /\ disturbed' = (disturbed \/ Overlaps(Module(p)) \/ exit[Module(p)] # NoFlight)

-----------------------------------------------------------------------------
\* POST /auth/refresh: the row is read.  Its user is there, since no handler deletes
\* one...
ReadToken(k) ==
    /\ flight[k].at = "sent"
    /\ flight' = [flight EXCEPT ![k] =
                     IF flight[k].token = 0 THEN Without("no cookie")
                     ELSE IF flight[k].token \in live THEN [flight[k] EXCEPT !.at = "read"]
                     ELSE Without("refused")]
    /\ UNCHANGED <<cookie, stored, live, minted, exit, waits, timer, call, sign,
                   view, banner, faults, reloads, disturbed>>

\* Mutant: the row of the next token is not kept.
MintUnrecorded(k) ==
    /\ live' = (live \ {flight[k].token}) \cup {minted + 1}
    /\ UNCHANGED minted

\* rotate_refresh_token revokes the token it read, which another request may have
\* revoked in the meantime, and mints the next one.
Rotate(k) ==
    /\ minted' = minted + 1
    /\ live' = (live \ {flight[k].token}) \cup {minted + 1}

AnswerRefresh(k) ==
    /\ flight[k].at = "read"
    /\ minted < MaxToken
    /\ Rotate(k)
    /\ flight' = [flight EXCEPT ![k] = [at |-> "ok", token |-> minted + 1]]
    /\ UNCHANGED <<cookie, stored, exit, waits, timer, call, sign, view, banner,
                   faults, reloads, disturbed>>

\* The limiter of /auth/refresh answers 429.
LimitRefresh(k) ==
    /\ flight[k].at = "read"
    /\ minted = MaxToken
    /\ flight' = [flight EXCEPT ![k] = Without("failed")]
    /\ UNCHANGED <<cookie, stored, live, minted, exit, waits, timer, call, sign,
                   view, banner, faults, reloads, disturbed>>

\* The request or its answer is lost: the token may have been rotated.
LoseRefresh(k) ==
    /\ flight[k].at \in {"sent", "read", "ok"}
    /\ faults < MaxFaults
    /\ faults' = faults + 1
    /\ disturbed' = TRUE
    /\ flight' = [flight EXCEPT ![k] = Without("failed")]
    /\ UNCHANGED <<cookie, stored, live, minted, exit, waits, timer, call, sign,
                   view, banner, reloads>>

-----------------------------------------------------------------------------
\* tryRefreshToken resolves: the cookie and the token are stored, and the keeper
\* and the API call that awaited it go on.
ModuleRefreshed(p) ==
    LET f == flight[Module(p)] IN
    /\ f.at = "ok"
    /\ cookie' = f.token
    /\ stored' = "fresh"
    /\ timer' = [timer EXCEPT ![Module(p)] = timer[Module(p)] \/ "keeper" \in waits[p]]
    /\ call' = [call EXCEPT ![p] = IF "call" \in waits[p]
                                   THEN [call[p] EXCEPT !.at = "again", !.good = TRUE]
                                   ELSE call[p]]
    /\ flight' = [flight EXCEPT ![Module(p)] = NoFlight]
    /\ waits' = [waits EXCEPT ![p] = {}]
    /\ UNCHANGED <<live, minted, exit, sign, view, banner, faults, reloads, disturbed>>

\* clearSession, and App's handler of the event it dispatches.
ClearSession(p) ==
    /\ stored' = "none"
    /\ view' = [view EXCEPT ![p] = "auth"]
    /\ banner' = [banner EXCEPT ![p] = TRUE]

\* A fatal answer: whoever awaited it clears the session.
ModuleRefused(p) ==
    /\ flight[Module(p)].at = "refused"
    /\ ClearSession(p)
    /\ timer' = [timer EXCEPT ![Module(p)] = FALSE]
    /\ call' = [call EXCEPT ![p] = IF "call" \in waits[p] THEN Idle ELSE call[p]]
    /\ flight' = [flight EXCEPT ![Module(p)] = NoFlight]
    /\ waits' = [waits EXCEPT ![p] = {}]
    /\ UNCHANGED <<cookie, live, minted, exit, sign, faults, reloads, disturbed>>

\* No cookie, no answer, or one that decides nothing: the session stays, and the
\* keeper tries again later.
ModuleUnanswered(p) ==
    /\ flight[Module(p)].at \in {"no cookie", "failed"}
    /\ timer' = [timer EXCEPT ![Module(p)] =
                     IF "keeper" \in waits[p] THEN SignedIn ELSE timer[Module(p)]]
    /\ call' = [call EXCEPT ![p] = IF "call" \in waits[p] THEN Idle ELSE call[p]]
    /\ flight' = [flight EXCEPT ![Module(p)] = NoFlight]
    /\ waits' = [waits EXCEPT ![p] = {}]
    /\ UNCHANGED <<cookie, stored, live, minted, exit, sign, view, banner, faults,
                   reloads, disturbed>>

\* scheduleSilentRefresh: five minutes before the access token expires.
ModuleTimer(p) ==
    /\ timer[Module(p)]
    /\ timer' = [timer EXCEPT ![Module(p)] = FALSE]
    /\ TryRefresh(p, "keeper")
    /\ UNCHANGED <<cookie, stored, live, minted, exit, call, sign, view, banner,
                   faults, reloads>>

-----------------------------------------------------------------------------
\* AuthProvider's timer calls silentRefresh.
ProviderTimer(p) ==
    /\ timer[Provider(p)]
    /\ flight[Provider(p)] = NoFlight
    /\ timer' = [timer EXCEPT ![Provider(p)] = FALSE]
    /\ flight' = [flight EXCEPT ![Provider(p)] = Sent]
    /\ disturbed' = (disturbed \/ Overlaps(Provider(p)))
    /\ UNCHANGED <<cookie, stored, live, minted, exit, waits, call, sign, view,
                   banner, faults, reloads>>

\* silentRefresh stores the user, which schedules the next refresh...
ProviderRefreshed(p) ==
    LET f == flight[Provider(p)] IN
    /\ f.at = "ok"
    /\ cookie' = f.token
    /\ stored' = "fresh"
    /\ timer' = [timer EXCEPT ![Provider(p)] = TRUE]
    /\ flight' = [flight EXCEPT ![Provider(p)] = NoFlight]
    /\ UNCHANGED <<live, minted, exit, waits, call, sign, view, banner, faults,
                   reloads, disturbed>>

\* ...and signs out on any other outcome, a network error included.
ProviderGivesUp(p) ==
    /\ flight[Provider(p)].at \in {"refused", "no cookie", "failed"}
    /\ timer' = [timer EXCEPT ![Provider(p)] = FALSE]
    /\ flight' = [flight EXCEPT ![Provider(p)] = NoFlight]
    /\ exit' = [exit EXCEPT ![Provider(p)] = Sent]
    /\ disturbed' = TRUE
    /\ UNCHANGED <<cookie, stored, live, minted, waits, call, sign, view, banner,
                   faults, reloads>>

-----------------------------------------------------------------------------
\* The sign-out button: logout of the API module.
SignOut(p) ==
    /\ view[p] = "app"
    /\ exit[Module(p)] = NoFlight
    /\ timer' = [timer EXCEPT ![Module(p)] = FALSE]
    /\ exit' = [exit EXCEPT ![Module(p)] = Sent]
    /\ disturbed' = (disturbed \/ ~Quiet \/ call[p].saves \/ \E q \in Page \ {p} : view[q] = "app")
    /\ UNCHANGED <<cookie, stored, live, minted, flight, waits, call, sign, view,
                   banner, faults, reloads>>

\* Mutant: only the browser forgets the refresh token.
KeepToken(k) == UNCHANGED live

\* POST /auth/logout revokes the token of the cookie.
Revoke(k) == live' = live \ {exit[k].token}

AnswerSignOut(k) ==
    /\ exit[k].at = "sent"
    /\ Revoke(k)
    /\ exit' = [exit EXCEPT ![k] = Without("ok")]
    /\ UNCHANGED <<cookie, stored, minted, flight, waits, timer, call, sign, view,
                   banner, faults, reloads, disturbed>>

LoseSignOut(k) ==
    /\ exit[k].at \in {"sent", "ok"}
    /\ faults < MaxFaults
    /\ faults' = faults + 1
    /\ disturbed' = TRUE
    /\ exit' = [exit EXCEPT ![k] = Without("failed")]
    /\ UNCHANGED <<cookie, stored, live, minted, flight, waits, timer, call, sign,
                   view, banner, reloads>>

\* Whatever the answer, the stored session goes.  Only the module's sign-out
\* changes the page; a refresh under way is not stopped.
SignedOut(k) ==
    /\ exit[k].at \in {"ok", "failed"}
    /\ cookie' = IF exit[k].at = "ok" THEN 0 ELSE cookie
    /\ stored' = "none"
    /\ exit' = [exit EXCEPT ![k] = NoFlight]
    /\ IF k[2] = "module"
       THEN /\ view' = [view EXCEPT ![k[1]] = "auth"]
            /\ banner' = [banner EXCEPT ![k[1]] = FALSE]
       ELSE UNCHANGED <<view, banner>>
    /\ UNCHANGED <<live, minted, flight, waits, timer, call, sign, faults, reloads,
                   disturbed>>

-----------------------------------------------------------------------------
\* login, createOrg and registerFromInvite.
SubmitSignIn(p) ==
    /\ view[p] = "auth"
    /\ sign[p] = NoFlight
    /\ sign' = [sign EXCEPT ![p] = Without("sent")]
    /\ disturbed' = (disturbed \/ ~Quiet \/ SignedIn)
    /\ UNCHANGED <<cookie, stored, live, minted, flight, exit, waits, timer, call,
                   view, banner, faults, reloads>>

AnswerSignIn(p) ==
    /\ sign[p].at = "sent"
    /\ \/ /\ minted < MaxToken
          /\ minted' = minted + 1
          /\ live' = live \cup {minted + 1}
          /\ sign' = [sign EXCEPT ![p] = [at |-> "ok", token |-> minted + 1]]
       \/ /\ sign' = [sign EXCEPT ![p] = Without("failed")]
          /\ UNCHANGED <<live, minted>>
    /\ UNCHANGED <<cookie, stored, flight, exit, waits, timer, call, view, banner,
                   faults, reloads, disturbed>>

LoseSignIn(p) ==
    /\ sign[p].at \in {"sent", "ok"}
    /\ faults < MaxFaults
    /\ faults' = faults + 1
    /\ disturbed' = TRUE
    /\ sign' = [sign EXCEPT ![p] = Without("failed")]
    /\ UNCHANGED <<cookie, stored, live, minted, flight, exit, waits, timer, call,
                   view, banner, reloads>>

\* saveAuth and onLogin.
SignInDone(p) ==
    /\ sign[p].at = "ok"
    /\ cookie' = sign[p].token
    /\ stored' = "fresh"
    /\ timer' = [timer EXCEPT ![Module(p)] = TRUE]
    /\ view' = [view EXCEPT ![p] = "app"]
    /\ banner' = [banner EXCEPT ![p] = FALSE]
    /\ sign' = [sign EXCEPT ![p] = NoFlight]
    /\ UNCHANGED <<live, minted, flight, exit, waits, call, faults, reloads, disturbed>>

SignInFailed(p) ==
    /\ sign[p].at = "failed"
    /\ sign' = [sign EXCEPT ![p] = NoFlight]
    /\ UNCHANGED <<cookie, stored, live, minted, flight, exit, waits, timer, call,
                   view, banner, faults, reloads, disturbed>>

-----------------------------------------------------------------------------
\* apiFetch sends what the storage holds.  updateProfile saves its answer as a
\* new session.
CallAPI(p) ==
    /\ view[p] = "app"
    /\ call[p] = Idle
    /\ \E saves \in BOOLEAN :
         /\ call' = [call EXCEPT ![p] = [at |-> "sent", good |-> stored = "fresh", saves |-> saves]]
         /\ disturbed' = (disturbed \/ (saves /\ \E k \in Keeper : exit[k] # NoFlight))
    /\ UNCHANGED <<cookie, stored, live, minted, flight, exit, waits, timer, sign,
                   view, banner, faults, reloads>>

\* An answer other than 401 ends the call.
CallAnswered(p) ==
    /\ call[p].at \in {"sent", "again"}
    /\ call[p].good
    /\ stored' = IF call[p].saves THEN "fresh" ELSE stored
    /\ timer' = IF call[p].saves THEN [timer EXCEPT ![Module(p)] = TRUE] ELSE timer
    /\ call' = [call EXCEPT ![p] = Idle]
    /\ UNCHANGED <<cookie, live, minted, flight, exit, waits, sign, view, banner,
                   faults, reloads, disturbed>>

\* A 401 refreshes the token once.  The second request carries a token minted a
\* moment ago, which the server accepts.
CallUnauthorized(p) ==
    /\ call[p].at = "sent"
    /\ ~call[p].good
    /\ call' = [call EXCEPT ![p].at = "refreshing"]
    /\ TryRefresh(p, "call")
    /\ UNCHANGED <<cookie, stored, live, minted, exit, timer, sign, view, banner,
                   faults, reloads>>

\* The timeout, or a network error.
CallLost(p) ==
    /\ call[p].at \in {"sent", "again"}
    /\ call' = [call EXCEPT ![p] = Idle]
    /\ UNCHANGED <<cookie, stored, live, minted, flight, exit, waits, timer, sign,
                   view, banner, faults, reloads, disturbed>>

-----------------------------------------------------------------------------
\* The access token in the storage expires.
Age ==
    /\ stored = "fresh"
    /\ stored' = "stale"
    /\ UNCHANGED <<cookie, live, minted, flight, exit, waits, timer, call, sign,
                   view, banner, faults, reloads, disturbed>>

\* A refresh token that nobody used for 30 days: the server takes it for a revoked one,
\* and the browser drops its cookie about then.
Expire ==
    /\ faults < MaxFaults
    /\ faults' = faults + 1
    /\ disturbed' = TRUE
    /\ \E t \in live : /\ live' = live \ {t}
                       /\ cookie' \in {cookie, IF cookie = t THEN 0 ELSE cookie}
    /\ UNCHANGED <<stored, minted, flight, exit, waits, timer, call, sign, view, banner,
                   reloads>>

\* A reload drops what the page was doing.  With a stored user both keepers
\* refresh at once: bootSession, and AuthProvider's mount effect, which has also
\* scheduled its timer.
Reload(p) ==
    /\ reloads < MaxReloads
    /\ reloads' = reloads + 1
    /\ LET boots == IF SignedIn THEN Sent ELSE NoFlight IN
       flight' = [flight EXCEPT ![Module(p)] = boots, ![Provider(p)] = boots]
    /\ exit' = [exit EXCEPT ![Module(p)] = NoFlight, ![Provider(p)] = NoFlight]
    /\ sign' = [sign EXCEPT ![p] = NoFlight]
    /\ waits' = [waits EXCEPT ![p] = IF SignedIn THEN {"keeper"} ELSE {}]
    /\ timer' = [timer EXCEPT ![Module(p)] = FALSE, ![Provider(p)] = SignedIn]
    /\ call' = [call EXCEPT ![p] = Idle]
    /\ view' = [view EXCEPT ![p] = IF SignedIn THEN "app" ELSE "auth"]
    /\ banner' = [banner EXCEPT ![p] = FALSE]
    /\ disturbed' = (disturbed \/ SignedIn \/ ~Quiet)
    /\ UNCHANGED <<cookie, stored, live, minted, faults>>

-----------------------------------------------------------------------------
ServerStep(k) == ReadToken(k) \/ AnswerRefresh(k) \/ LimitRefresh(k) \/ AnswerSignOut(k)
Lost(k) == LoseRefresh(k) \/ LoseSignOut(k)
ModuleStep(p) == ModuleRefreshed(p) \/ ModuleRefused(p) \/ ModuleUnanswered(p)
ProviderStep(p) == ProviderRefreshed(p) \/ ProviderGivesUp(p)
Timers(p) == ModuleTimer(p) \/ ProviderTimer(p)
SignInStep(p) == AnswerSignIn(p) \/ SignInDone(p) \/ SignInFailed(p)
CallStep(p) == CallAnswered(p) \/ CallUnauthorized(p)
UserStep(p) == SignOut(p) \/ SubmitSignIn(p) \/ CallAPI(p) \/ Reload(p)

Next ==
    \/ \E k \in Keeper : ServerStep(k) \/ Lost(k) \/ SignedOut(k)
    \/ \E p \in Page : \/ ModuleStep(p) \/ ProviderStep(p) \/ Timers(p)
                       \/ SignInStep(p) \/ LoseSignIn(p)
                       \/ CallStep(p) \/ CallLost(p) \/ UserStep(p)
    \/ Age \/ Expire

Spec == Init /\ [][Next]_vars

\* The server answers what reaches it, and the browser runs every continuation.
Fairness ==
    /\ \A k \in Keeper : WF_vars(ServerStep(k)) /\ WF_vars(SignedOut(k))
    /\ \A p \in Page : /\ WF_vars(ModuleStep(p)) /\ WF_vars(ProviderStep(p))
                       /\ WF_vars(SignInStep(p)) /\ WF_vars(CallStep(p))

FairSpec == Spec /\ Fairness

-----------------------------------------------------------------------------
Refreshes == [at : {"no", "sent", "read", "ok", "refused", "no cookie", "failed"},
              token : 0..MaxToken]
Requests == [at : {"no", "sent", "ok", "failed"}, token : 0..MaxToken]
Calls == [at : {"idle", "sent", "refreshing", "again"}, good : BOOLEAN, saves : BOOLEAN]

\* Types: the tokens are the server's and every request is in a known state.
TypeOK ==
    /\ cookie \in 0..MaxToken
    /\ stored \in {"none", "fresh", "stale"}
    /\ live \subseteq 1..minted
    /\ minted \in 0..MaxToken
    /\ flight \in [Keeper -> Refreshes]
    /\ exit \in [Keeper -> Requests]
    /\ sign \in [Page -> Requests]
    /\ waits \in [Page -> SUBSET {"keeper", "call"}]
    /\ timer \in [Keeper -> BOOLEAN]
    /\ call \in [Page -> Calls]
    /\ view \in [Page -> {"auth", "app"}]
    /\ banner \in [Page -> BOOLEAN]
    /\ faults \in 0..MaxFaults
    /\ reloads \in 0..MaxReloads
    /\ disturbed \in BOOLEAN

\* Because the module's callers share one refresh ("parallel refreshes race and
\* log the user out"), a session whose requests do not overlap those of another
\* keeper, another page or a sign-out, and lose no answer and no token to its age, is
\* kept: no page says that it expired, and every page in the application has its token stored.
SessionKept ==
    ~disturbed => \A p \in Page : ~banner[p] /\ (view[p] = "app" => SignedIn)

\* Such a session leaves nothing behind: once no request is under way, the cookie
\* is the only refresh token the server accepts, and after a sign-out none is.
NoTokenLeft == ~disturbed /\ Quiet => live = IF SignedIn THEN {cookie} ELSE {}

\* Every API call ends, whatever becomes of the token it was sent with.
CallsEnd == \A p \in Page : call[p] # Idle ~> call[p] = Idle
=============================================================================
