------------------------------ MODULE RunMonitor ------------------------------
(***************************************************************************)
(* How one page follows its runs: the screens of the application and their *)
(* addresses (App in redesign/AppCore.jsx), the uploads that start runs,   *)
(* and the processing screen that polls, retries and cancels them          *)
(* (ProcessingScreen in redesign/Screens.jsx).                             *)
(*                                                                         *)
(* Upload u creates run u, of contract u or of the contract whose version  *)
(* is added; contract 0 is there from the start.                           *)
(***************************************************************************)
EXTENDS Naturals

CONSTANTS
    MaxUploads,  \* bound: uploads, and so runs
    MaxTurns     \* bound: reloads, new sessions, retries, cancellations, late commits

ASSUME MonitorAssumption == MaxUploads \in Nat /\ MaxTurns \in Nat

Run == 1..MaxUploads
Contract == 0..MaxUploads
NoContract == MaxUploads + 1

Status == {"processing", "awaiting", "under_review", "finalized", "rejected", "failed", "cancelled"}

\* The ends that the screen knows; "failed" stands for blocked, too.
Ends == {"cancelled", "failed", "awaiting", "finalized"}

VARIABLES
    run,        \* server: the status of every run
    reached,    \* history: the ends that every run has been at
    up,         \* the uploads: the request under way and the contract
    screen, chosen, address,  \* screen, selectedContractId, the address bar
    processing, \* processingRunId: none, pending or a run
    saved,      \* its copy in the local storage
    error,      \* pendingError
    recovery,   \* the request for the active run
    watch,      \* the poll of the screen's effect
    shown,      \* runState of the processing screen
    busy,       \* retrying, cancelling
    ask,        \* the retry and the cancellation under way
    stray,      \* the polls that retries started
    astray,     \* history: what left the page beside its address, an upload's answer
                \* that found it elsewhere or a session that ended
    turns

vars == <<run, reached, up, screen, chosen, address, processing, saved, error, recovery, watch,
          shown, busy, ask, stray, astray, turns>>
server == <<run, reached, up>>
page == <<screen, chosen, processing, saved, error, recovery, watch, shown, busy>>

At(s, c) == [screen |-> s, id |-> c]
Home == At("dashboard", NoContract)
Off == [at |-> "off", mounted |-> FALSE]
Rest == [at |-> "no", run |-> 0]
Due == [at |-> "due", run |-> 0]
Asking == {"retry", "cancel"}
NoAsk == [at |-> "no", run |-> 0, mounted |-> FALSE]

Init ==
    /\ run = [r \in Run |-> "none"] /\ reached = [r \in Run |-> {}]
    /\ up = [u \in Run |-> [at |-> "no", contract |-> 0]]
    /\ screen = "dashboard" /\ chosen = NoContract /\ address = Home
    /\ processing = 0 /\ saved = 0 /\ error = FALSE
    /\ recovery = Rest /\ watch = "off" /\ shown = "nothing" /\ busy = {}
    /\ ask = [k \in Asking |-> NoAsk]
    /\ stray = [r \in Run |-> Off]
    /\ astray = {} /\ turns = 0

Pending == MaxUploads + 1   \* processingRunId = "__pending__"
ContractOf(r) == up[r].contract

-----------------------------------------------------------------------------
\* The effects of a rendering with screen s, contract c, run p and error e.  A
\* screen that is left forgets the run; a new run is polled from the start; a
\* processing screen without run or error looks for the active one.
Leaves(s) == s # screen /\ s # "processing"

Show(s, c, p, sv, e) ==
    LET mounts == s # screen
        r == IF Leaves(s) THEN 0 ELSE p
    IN /\ screen' = s /\ chosen' = c /\ processing' = r /\ error' = e
       /\ saved' = IF Leaves(s) THEN 0 ELSE sv
       /\ watch' = IF ~mounts /\ r = processing THEN watch
                   ELSE IF s = "processing" /\ r \in Run THEN "due" ELSE "off"
       /\ recovery' = IF ~mounts /\ r = processing /\ e = error THEN recovery
                      ELSE IF s = "processing" /\ r = 0 /\ ~e THEN Due ELSE Rest
       /\ shown' = IF mounts THEN "nothing" ELSE shown
       /\ busy' = IF mounts THEN {} ELSE busy

\* What outlives the processing screen loses its component.
Unmount(s) ==
    IF s = screen THEN UNCHANGED <<stray, ask>>
    ELSE /\ stray' = [r \in Run |-> [stray[r] EXCEPT !.mounted = FALSE]]
         /\ ask' = [k \in Asking |-> [ask[k] EXCEPT !.mounted = FALSE]]

\* A navigation puts the page right, but the processing screen may go on showing
\* what is another run's.
Lasts(s) == IF screen = "processing" /\ s = "processing" THEN astray \cap {"upload"} ELSE {}

\* Mutant: the address does not follow.
GoQuietly(s, c) ==
    /\ address' = address /\ astray' = Lasts(s)
    /\ Show(s, c, processing, saved, error)

\* navigate
Go(s, c) ==
    /\ address' = At(s, c) /\ astray' = Lasts(s)
    /\ Show(s, c, processing, saved, error)

Created == {0} \cup {c \in Run : up[c].at \in {"version", "run", "answered"} /\ up[c].contract = c}

\* The buttons and rows that lead from screen to screen.
Navigate ==
    /\ \/ \E s \in {"dashboard", "new_contract"} : Go(s, NoContract) /\ Unmount(s)
       \/ /\ screen = "dashboard"
          /\ \E c \in Created : Go("contract_detail", c) /\ Unmount("contract_detail")
       \/ /\ screen = "contract_detail"
          /\ Go("verdict", chosen) /\ Unmount("verdict")
    /\ UNCHANGED <<server, turns>>

\* The browser's back and forward buttons.
PopState ==
    /\ \E e \in {Home, At("new_contract", NoContract), At("processing", NoContract)}
                \cup {At("contract_detail", c) : c \in Created} :
         /\ address' = e /\ astray' = Lasts(e.screen)
         /\ Show(e.screen, e.id, processing, saved, error)
         /\ Unmount(e.screen)
    /\ UNCHANGED <<server, turns>>

\* An upload that nobody waits for: its contract exists, or never will.
Dropped(at) == CASE at = "no" -> "no"
                 [] at \in {"contract", "failed"} -> "failed"
                 [] OTHER -> "answered"

\* A reload takes the screen from the address and the run from the storage.
Reload ==
    /\ turns < MaxTurns
    /\ turns' = turns + 1
    /\ LET p == IF address.screen = "processing" THEN saved ELSE 0 IN
       /\ screen' = address.screen /\ chosen' = address.id
       /\ processing' = p /\ saved' = p /\ error' = FALSE
       /\ watch' = IF p # 0 THEN "due" ELSE "off"
       /\ recovery' = IF address.screen = "processing" /\ p = 0 THEN Due ELSE Rest
    /\ shown' = "nothing" /\ busy' = {} /\ astray' = {}
    /\ stray' = [r \in Run |-> Off]
    /\ ask' = [k \in Asking |-> NoAsk]
    /\ up' = [u \in Run |-> [up[u] EXCEPT !.at = Dropped(up[u].at)]]
    /\ UNCHANGED <<run, reached, address>>

\* applySessionExpired: the page moves to the dashboard, its address does not.  The
\* sign-in form that covers the page is no state of its own: the page under it does
\* what it would do without.
ExpireSession ==
    /\ turns < MaxTurns
    /\ turns' = turns + 1
    /\ Show("dashboard", NoContract, processing, saved, error) /\ Unmount("dashboard")
    /\ astray' = {"session"}
    /\ UNCHANGED <<server, address>>

\* onLogout and a sign-in: the same screen is mounted anew.
SignOut ==
    /\ turns < MaxTurns
    /\ turns' = turns + 1
    /\ shown' = "nothing" /\ busy' = {}
    /\ watch' = IF screen = "processing" /\ processing \in Run THEN "due" ELSE "off"
    /\ stray' = [r \in Run |-> [stray[r] EXCEPT !.mounted = FALSE]]
    /\ ask' = [k \in Asking |-> [ask[k] EXCEPT !.mounted = FALSE]]
    /\ UNCHANGED <<server, screen, chosen, processing, saved, error, recovery, address, astray>>

-----------------------------------------------------------------------------
\* Mutant: the upload under way is stored as if it were a run.
StartUploadStored(u, stage, c) ==
    /\ up[u].at = "no"
    /\ up' = [up EXCEPT ![u] = [at |-> stage, contract |-> c]]
    /\ address' = At("processing", NoContract) /\ astray' = {}
    /\ Show("processing", NoContract, Pending, Pending, FALSE)
    /\ Unmount("processing")
    /\ UNCHANGED <<run, reached, turns>>

\* "Analyze Contract" and "Upload & Analyze": the processing screen opens before
\* the first request is sent.
StartUpload(u, stage, c) ==
    /\ up[u].at = "no"
    /\ \A v \in Run : v < u => up[v].at # "no"
    /\ up' = [up EXCEPT ![u] = [at |-> stage, contract |-> c]]
    /\ address' = At("processing", NoContract) /\ astray' = {}
    /\ Show("processing", NoContract, Pending, saved, FALSE)
    /\ Unmount("processing")
    /\ UNCHANGED <<run, reached, turns>>

AddVersion(u) == screen = "contract_detail" /\ chosen # NoContract /\ StartUpload(u, "version", chosen)
SubmitContract(u) == screen = "new_contract" /\ StartUpload(u, "contract", u)

\* The server commits status s of run r.
Becomes(r, s) ==
    /\ run' = [run EXCEPT ![r] = s]
    /\ reached' = [reached EXCEPT ![r] = @ \cup ({s} \cap Ends)]

\* listWorkspaces, createContract, addContractVersion.
ServeUpload(u) ==
    /\ \/ up[u].at = "contract" /\ up' = [up EXCEPT ![u].at = "version"] /\ UNCHANGED <<run, reached>>
       \/ up[u].at = "version" /\ up' = [up EXCEPT ![u].at = "run"] /\ Becomes(u, "processing")
    /\ UNCHANGED <<page, address, ask, stray, astray, turns>>

\* The answer sets the run and the contract on whatever screen the page shows.
UploadAnswered(u) ==
    /\ up[u].at = "run"
    /\ up' = [up EXCEPT ![u].at = "answered"]
    /\ astray' = IF screen = "processing" /\ processing = Pending THEN astray ELSE astray \cup {"upload"}
    /\ Show(screen, ContractOf(u), u, u, error)
    /\ UNCHANGED <<run, reached, address, ask, stray, turns>>

\* A refusal, a lost answer or the timeout: the run may exist.
UploadFailed(u) ==
    /\ up[u].at \in {"contract", "version", "run"}
    /\ up' = [up EXCEPT ![u].at = Dropped(up[u].at)]
    /\ Show(screen, chosen, processing, saved, TRUE)
    /\ UNCHANGED <<run, reached, address, ask, stray, astray, turns>>

-----------------------------------------------------------------------------
\* The server: workers finish a run, reviewers open it and decide on it, and it is
\* cancelled and retried from other pages, too.
Work(r) == run[r] = "processing" /\ \E s \in {"awaiting", "failed"} : Becomes(r, s)
OpenReview(r) == run[r] = "awaiting" /\ Becomes(r, "under_review")
Decide(r) == run[r] \in {"awaiting", "under_review"} /\ \E s \in {"finalized", "rejected"} : Becomes(r, s)

\* handleCancelRun of the dashboard's rows, and everybody else's pages
CancelElsewhere(r) == run[r] = "processing" /\ Becomes(r, "cancelled")

\* "Retry" beside the version of a contract, on everybody else's pages
RetryElsewhere(r) == run[r] = "failed" /\ Becomes(r, "processing")

\* A worker or a request that read the run earlier commits over whatever became of it
\* since: a cancelled run revives, a decided one fails.
Overwrite(r) == run[r] # "none" /\ \E s \in Status : Becomes(r, s)

ServerStep(r) ==
    /\ \/ (Work(r) \/ OpenReview(r) \/ Decide(r) \/ CancelElsewhere(r)) /\ UNCHANGED turns
       \/ (RetryElsewhere(r) \/ Overwrite(r)) /\ turns < MaxTurns /\ turns' = turns + 1
    /\ UNCHANGED <<up, page, address, ask, stray, astray>>

\* GET /runs/active answers the newest run at work, else the newest that failed.
FindActive ==
    /\ recovery.at = "due"
    /\ LET work == {r \in Run : run[r] = "processing"}
           failed == {r \in Run : run[r] = "failed"}
           found == IF work # {} THEN work ELSE failed
       IN IF found = {} THEN recovery' = [at |-> "none", run |-> 0]
          ELSE \E r \in found : recovery' = [at |-> "found", run |-> r]
    /\ UNCHANGED <<server, screen, chosen, processing, saved, error, watch, shown,
                   busy, address, ask, stray, astray, turns>>

\* The recovery effect takes the run up, or leaves for the dashboard "to avoid
\* permanent grey screen"; an error does the same.
Recovered ==
    /\ recovery.at = "found"
    /\ Show(screen, chosen, recovery.run, recovery.run, error)
    /\ UNCHANGED <<server, address, ask, stray, astray, turns>>

\* Mutant: without an active run the screen stays.
StayGrey ==
    /\ recovery.at \in {"due", "none"}
    /\ recovery' = Rest
    /\ UNCHANGED <<server, screen, chosen, processing, saved, error, watch, shown,
                   busy, address, ask, stray, astray, turns>>

NothingToRecover ==
    /\ recovery.at \in {"due", "none"}
    /\ Go("dashboard", NoContract) /\ Unmount("dashboard")
    /\ UNCHANGED <<server, turns>>

-----------------------------------------------------------------------------
Success == {"awaiting", "finalized"}
\* "On failed/blocked/cancelled: stop polling, stay on screen"
Terminal == {"failed", "cancelled"}
\* Mutant: the poll of a retry goes on after a failure.
NothingEnds == {}
\* The poll of a retry does not know cancelled runs.
StrayTerminal == {"failed"}

\* The poll of the effect.  While an answer is under way, watch is the status it
\* carries.
WatchAsks ==
    /\ watch = "due"
    /\ watch' = run[processing]
    /\ UNCHANGED <<server, screen, chosen, processing, saved, error, recovery, shown,
                   busy, address, ask, stray, astray, turns>>

WatchAnswered ==
    /\ watch \in Status
    /\ shown' = watch
    /\ watch' = IF watch \in Success THEN "leaving"
                ELSE IF watch \in Terminal THEN "stopped" ELSE "due"
    /\ UNCHANGED <<server, screen, chosen, processing, saved, error, recovery, busy,
                   address, ask, stray, astray, turns>>

\* 800 ms after a success the page goes to the contract.
WatchLeaves ==
    /\ watch = "leaving"
    /\ Go("contract_detail", ContractOf(processing)) /\ Unmount("contract_detail")
    /\ UNCHANGED <<server, turns>>

-----------------------------------------------------------------------------
Asks(k) ==
    /\ screen = "processing"
    /\ k \notin busy
    /\ ask[k].at = "no"
    /\ turns < MaxTurns
    /\ turns' = turns + 1
    /\ busy' = busy \cup {k}
    /\ ask' = [ask EXCEPT ![k] = [at |-> "sent", run |-> processing, mounted |-> TRUE]]
    /\ UNCHANGED <<server, screen, chosen, processing, saved, error, recovery, watch,
                   shown, address, stray, astray>>

\* handleRetry and handleCancel: the buttons that the screen shows.
Retry == shown = "failed" /\ Asks("retry")
Cancel == shown \notin {"failed", "cancelled"} /\ processing # 0 /\ Asks("cancel")

\* Retrying takes a failed run, cancelling one at work; "__pending__" is unknown.
ServeAsk(k) ==
    LET r == ask[k].run
        from == IF k = "retry" THEN "failed" ELSE "processing"
        to == IF k = "retry" THEN "processing" ELSE "cancelled"
    IN /\ ask[k].at = "sent"
       /\ IF r \in Run /\ run[r] = from
          THEN Becomes(r, to) /\ ask' = [ask EXCEPT ![k].at = "ok"]
          ELSE ask' = [ask EXCEPT ![k].at = "refused"] /\ UNCHANGED <<run, reached>>
       /\ UNCHANGED <<up, page, address, stray, astray, turns>>

\* A retry polls by itself from now on, mounted or not.
RetryAnswered ==
    LET a == ask["retry"] IN
    /\ a.at = "ok"
    /\ ask' = [ask EXCEPT !["retry"] = NoAsk]
    /\ stray' = [stray EXCEPT ![a.run] = [at |-> "due", mounted |-> a.mounted]]
    /\ IF a.mounted THEN shown' = "nothing" /\ busy' = busy \ {"retry"}
       ELSE UNCHANGED <<shown, busy>>
    /\ UNCHANGED <<server, screen, chosen, processing, saved, error, recovery, watch,
                   address, astray, turns>>

CancelAnswered ==
    LET a == ask["cancel"] IN
    /\ a.at = "ok"
    /\ ask' = [ask EXCEPT !["cancel"] = NoAsk]
    /\ shown' = IF a.mounted THEN "cancelled" ELSE shown
    /\ UNCHANGED <<server, screen, chosen, processing, saved, error, recovery, watch,
                   busy, address, stray, astray, turns>>

\* Mutant: a cancellation is taken for done whatever the answer.
AskIgnored(k) ==
    /\ ask[k].at = "refused"
    /\ ask' = [ask EXCEPT ![k] = NoAsk]
    /\ busy' = busy
    /\ shown' = IF ask[k].mounted /\ k = "cancel" THEN "cancelled" ELSE shown
    /\ UNCHANGED <<server, screen, chosen, processing, saved, error, recovery, watch,
                   address, stray, astray, turns>>

\* A refusal, or no answer: the request or its answer was lost.
AskRefused(k) ==
    /\ ask[k].at # "no"
    /\ ask' = [ask EXCEPT ![k] = NoAsk]
    /\ busy' = IF ask[k].mounted THEN busy \ {k} ELSE busy
    /\ UNCHANGED <<server, screen, chosen, processing, saved, error, recovery, watch,
                   shown, address, stray, astray, turns>>

-----------------------------------------------------------------------------
StrayAsks(r) ==
    /\ stray[r].at = "due"
    /\ stray' = [stray EXCEPT ![r].at = run[r]]
    /\ UNCHANGED <<server, page, address, ask, astray, turns>>

StrayAnswered(r) ==
    LET got == stray[r].at IN
    /\ got \in Status
    /\ shown' = IF stray[r].mounted THEN got ELSE shown
    /\ stray' = [stray EXCEPT ![r].at = IF got \in Success THEN "leaving"
                                        ELSE IF got \in StrayTerminal THEN "off"
                                        ELSE "due"]
    /\ UNCHANGED <<server, screen, chosen, processing, saved, error, recovery, watch,
                   busy, address, ask, astray, turns>>

\* Nothing stops this navigation, wherever the user is by now.
StrayLeaves(r) ==
    /\ stray[r].at = "leaving"
    /\ Go("contract_detail", ContractOf(r))
    /\ IF screen = "contract_detail"
       THEN stray' = [stray EXCEPT ![r].at = "off"] /\ UNCHANGED ask
       ELSE /\ stray' = [q \in Run |-> [at |-> IF q = r THEN "off" ELSE stray[q].at,
                                        mounted |-> FALSE]]
            /\ ask' = [k \in Asking |-> [ask[k] EXCEPT !.mounted = FALSE]]
    /\ UNCHANGED <<server, turns>>

-----------------------------------------------------------------------------
User == Navigate \/ PopState \/ Reload \/ ExpireSession \/ SignOut \/ Retry \/ Cancel
Uploads(u) == AddVersion(u) \/ SubmitContract(u)
Watch == WatchAsks \/ WatchAnswered \/ WatchLeaves
Recovery == FindActive \/ Recovered \/ NothingToRecover
Stray(r) == StrayAsks(r) \/ StrayAnswered(r) \/ StrayLeaves(r)
Answers == RetryAnswered \/ CancelAnswered \/ \E k \in Asking : ServeAsk(k) \/ AskRefused(k)

Next ==
    \/ User \/ Watch \/ Recovery \/ Answers
    \/ \E r \in Run : Uploads(r) \/ ServeUpload(r) \/ UploadAnswered(r) \/ UploadFailed(r)
                      \/ ServerStep(r) \/ Stray(r)

Spec == Init /\ [][Next]_vars

\* Requests are answered or fail, and timers fire.  Nothing is asked of the workers.
Fairness ==
    /\ WF_vars(Watch) /\ WF_vars(Recovery) /\ WF_vars(Answers)
    /\ \A r \in Run : /\ WF_vars(ServeUpload(r)) /\ WF_vars(UploadAnswered(r))
                      /\ WF_vars(Stray(r))

FairSpec == Spec /\ Fairness

-----------------------------------------------------------------------------
Screens == {"dashboard", "new_contract", "contract_detail", "processing", "verdict"}
UploadStates == [at : {"no", "contract", "version", "run", "answered", "failed"},
                 contract : Contract]
Recoveries == [at : {"no", "due", "found", "none"}, run : 0..MaxUploads]
AskStates == [at : {"no", "sent", "ok", "refused"}, run : 0..Pending, mounted : BOOLEAN]
StrayStates == [at : {"off", "due", "leaving"} \cup Status, mounted : BOOLEAN]

\* Types: every page state is one the program has.
TypeOK ==
    /\ run \in [Run -> Status \cup {"none"}]
    /\ reached \in [Run -> SUBSET Ends]
    /\ up \in [Run -> UploadStates]
    /\ screen \in Screens
    /\ chosen \in Contract \cup {NoContract}
    /\ address \in [screen : Screens, id : Contract \cup {NoContract}]
    /\ processing \in 0..Pending
    /\ saved \in 0..MaxUploads
    /\ error \in BOOLEAN
    /\ recovery \in Recoveries
    /\ watch \in {"off", "due", "leaving", "stopped"} \cup Status
    /\ shown \in {"nothing"} \cup Status
    /\ busy \subseteq Asking
    /\ ask \in [Asking -> AskStates]
    /\ stray \in [Run -> StrayStates]
    /\ astray \subseteq {"upload", "session"}
    /\ turns \in 0..MaxTurns

\* An end that the processing screen shows is one that the run it follows has been at:
\* no answer of an earlier poll, screen or retry, or about another run, is taken for
\* it.  (The run may have moved on since, or been revived.)  Where an upload was
\* answered elsewhere the run may be another one, but the end is not made up.
ShownTruthfully ==
    shown \in Ends =>
        \/ processing \in Run /\ shown \in reached[processing]
        \/ "upload" \in astray /\ \E r \in Run : shown \in reached[r]

\* What a reload takes up is what the page shows: the address names its screen and
\* its contract, and the storage no other run than the one the processing screen
\* follows.  A session that ended leaves the page on the dashboard beside its address,
\* an upload that was answered elsewhere shows its own contract instead.
Resumable ==
    /\ screen = address.screen \/ (screen = "dashboard" /\ "session" \in astray)
    /\ screen \in {"contract_detail", "verdict"} =>
          \/ chosen = address.id
          \/ "upload" \in astray /\ \E u \in Run : up[u].at = "answered" /\ chosen = ContractOf(u)
    /\ saved # 0 /\ screen = "processing" => processing \in {saved, Pending}

\* The processing screen does not stay grey: it is left, says what went wrong or finds
\* its run.  And once that run stays where its workers or a cancellation left it, the
\* screen is left or says how it ended, through retries, lost answers, reloads and
\* sessions that end.  (Under review and rejected are no ends to its polls, and after
\* an upload that was answered elsewhere a retry of one run may hide the other's end.)
ScreenResolves ==
    /\ (screen = "processing" /\ processing \notin Run)
          ~> (screen # "processing" \/ error \/ processing \in Run)
    /\ \A r \in Run : <>[](run[r] \in Ends) =>
          []<>(\/ screen # "processing" \/ error
               \/ processing # r
               \/ shown \in {"failed", "cancelled"} \/ "upload" \in astray)

\* The poll that a retry started ends with its run, unless the run is cancelled
\* or rejected, which it does not take for an end.
RetryPollEnds ==
    \A r \in Run : <>[](run[r] \in {"failed", "awaiting", "finalized"}) => []<>(stray[r].at = "off")
=============================================================================
