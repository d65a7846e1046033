------------------------------ MODULE Account -------------------------------
(***************************************************************************)
(* Who is signed in: the tokens of OAuth in secrets.json and everybody who *)
(* reads and refreshes them (daemon/src/auth), the start of the daemon,    *)
(* which asks the user to sign in (main.rs), and full_reset of the D-Bus   *)
(* interface, which forgets the account (dbus_server/server.rs).           *)
(*                                                                         *)
(* get_valid_token loads the file, asks OneDrive for new tokens if these   *)
(* expire soon, and saves the answer; nothing keeps two tasks from doing   *)
(* so at once, and saving is a truncation followed by a write.             *)
(*                                                                         *)
(* External: OneDrive's answers, the user, systemd, which starts a daemon  *)
(* that ended with an error again (debian/onedrive-sync.service).          *)
(***************************************************************************)
EXTENDS Integers, FiniteSets

CONSTANTS
    Accounts,       \* accounts the user may sign in with
    Calls,          \* D-Bus calls under way at one time, e.g. get_daemon_status
    MaxEvents,      \* bound: expiries, revocations and resets
    MaxFaults       \* bound: requests and statements that fail, kills, and
                    \* answers of OneDrive without a refresh token

ASSUME SizesAssumption == MaxEvents \in Nat /\ MaxFaults \in Nat

Tasks == {"main", "cycle", "status"} \union Calls
Nobody == "nobody"

ASSUME NobodyIsNone == Nobody \notin Accounts

VARIABLES
    phase,          \* "down", "authorize", "connect", "profile", "up"
    tabs,           \* sign-in pages open in the browser: of this attempt, of an
                    \* earlier one
    file,           \* secrets.json
    task,           \* where each task is in get_valid_token, and its tokens
    link,           \* sync_state: the account whose delta link is stored
    profile,        \* user_profiles
    reset,          \* the step of full_reset
    events, faults,
    owner,          \* history: the account whose tokens were saved at sign-in
    lost,           \* history: tokens were lost in a named window
    late            \* history: a reset was overtaken, or not done before the
                    \* user signed in with another account

store == <<file, link, profile>>
history == <<owner, lost, late>>
vars == <<phase, tabs, store, task, reset, events, faults, history>>

Owners == Accounts \union {Nobody}
Token == [of : Owners, fresh : BOOLEAN, good : BOOLEAN]
NoToken == [of |-> Nobody, fresh |-> FALSE, good |-> FALSE]
Expired(tok) == ~tok.fresh
Idle == [pc |-> "idle", tok |-> NoToken]
Content == [state : {"none", "empty", "whole", "torn"}, tok : Token]
Step == [pc : {"idle", "exchange", "refresh", "save", "write", "orphan", "send", "store"},
         tok : Token]

TypeOK ==
    /\ phase \in {"down", "authorize", "connect", "profile", "up"}
    /\ tabs \in [fresh : BOOLEAN, stale : BOOLEAN]
    /\ file \in Content
    /\ file.state = "whole" => file.tok.of \in Accounts
    /\ task \in [Tasks -> Step]
    /\ phase # "up" => \A t \in Tasks \ {"main"} : task[t] = Idle
    /\ link \in Owners /\ profile \in Owners
    /\ reset \in {"no", "link", "profile", "file"} /\ (phase # "up" => reset = "no")
    /\ events \in 0..MaxEvents /\ faults \in 0..MaxFaults
    /\ owner \in Owners /\ lost \in BOOLEAN /\ late \in BOOLEAN

Init ==
    /\ phase = "down" /\ tabs = [fresh |-> FALSE, stale |-> FALSE]
    /\ file = [state |-> "none", tok |-> NoToken]
    /\ task = [t \in Tasks |-> Idle]
    /\ link = Nobody /\ profile = Nobody /\ reset = "no"
    /\ events = 0 /\ faults = 0 /\ owner = Nobody /\ lost = FALSE /\ late = FALSE

Event == events < MaxEvents /\ events' = events + 1
Fault == faults < MaxFaults /\ faults' = faults + 1
SetTask(t, pc, tok) == task' = [task EXCEPT ![t] = [pc |-> pc, tok |-> tok]]

\* Mutant: the tasks of the daemon outlive it.
Exit_TasksLive ==
    /\ phase' = "down" /\ reset' = "no"
    /\ tabs' = [fresh |-> FALSE, stale |-> tabs.fresh \/ tabs.stale]
    /\ UNCHANGED task

\* The process ends, as at every ? of main: the page of this attempt becomes one of
\* an earlier attempt.
Exit ==
    /\ phase' = "down" /\ reset' = "no"
    /\ tabs' = [fresh |-> FALSE, stale |-> tabs.fresh \/ tabs.stale]
    /\ task' = [t \in Tasks |-> Idle]

\* get_valid_token or a request returned an error: main gives it to its caller
\* and the daemon ends, others log it.
GiveUp(t) ==
    IF t = "main" THEN Exit
    ELSE task' = [task EXCEPT ![t] = Idle] /\ UNCHANGED <<phase, tabs, reset>>

-----------------------------------------------------------------------------
\* The start of the daemon.

\* Mutant: a file that is there is taken for tokens.
Start_FileExists ==
    /\ phase = "down"
    /\ IF file.state # "none"
       THEN phase' = "connect" /\ UNCHANGED tabs
       ELSE phase' = "authorize" /\ tabs' = [tabs EXCEPT !.fresh = TRUE]
    /\ UNCHANGED <<store, task, reset, events, faults, history>>

\* AppSetup::authenticate: tokens that can be parsed are enough, whether or not
\* OneDrive still takes them.
Start ==
    /\ phase = "down"
    /\ IF file.state = "whole"
       THEN phase' = "connect" /\ UNCHANGED tabs
       ELSE phase' = "authorize" /\ tabs' = [tabs EXCEPT !.fresh = TRUE]
    /\ UNCHANGED <<store, task, reset, events, faults, history>>

Waiting == phase = "authorize" /\ task["main"].pc = "idle"

\* authorize: the browser does not open, the port is taken, the user refuses.
AuthorizeFails ==
    /\ Waiting /\ Fault /\ Exit
    /\ UNCHANGED <<store, events, history>>

\* handle_authorization_callback gets the code of the page it has opened ...
Consent(a) ==
    /\ Waiting /\ tabs.fresh
    /\ tabs' = [tabs EXCEPT !.fresh = FALSE]
    /\ SetTask("main", "exchange", [of |-> a, fresh |-> TRUE, good |-> TRUE])
    /\ UNCHANGED <<phase, store, reset, events, faults, history>>

\* ... or that of a page opened before, which the verifier of this attempt does
\* not fit: the exchange is refused and the daemon ends.
ConsentStale ==
    /\ Waiting /\ tabs.stale /\ Fault
    /\ phase' = "down" /\ tabs' = [fresh |-> FALSE, stale |-> tabs.fresh]
    /\ UNCHANGED <<store, task, reset, events, history>>

\* exchange_code_for_tokens.
Exchange ==
    /\ task["main"].pc = "exchange"
    /\ \E g \in BOOLEAN :
          /\ IF g THEN UNCHANGED <<faults, lost>> ELSE Fault /\ lost' = TRUE
          /\ SetTask("main", "save", [task["main"].tok EXCEPT !.good = @ /\ g])
    /\ UNCHANGED <<phase, tabs, store, reset, events, owner, late>>

ExchangeFails ==
    /\ task["main"].pc = "exchange" /\ Fault /\ Exit
    /\ UNCHANGED <<store, events, history>>

\* setup_infrastructure: without the internet the daemon ends.
Connected ==
    /\ phase = "connect" /\ phase' = "profile"
    /\ UNCHANGED <<tabs, store, task, reset, events, faults, history>>

InfrastructureFails ==
    /\ phase = "connect" /\ Fault /\ Exit
    /\ UNCHANGED <<store, events, history>>

\* setup_user_profile finds a profile, of whatever account, and the rest of main
\* starts the tasks ...
StoredProfile == profile # Nobody

Profile ==
    /\ phase = "profile" /\ task["main"].pc = "idle" /\ StoredProfile
    /\ phase' = "up"
    /\ UNCHANGED <<tabs, store, task, reset, events, faults, history>>

\* ... or has to ask OneDrive for it, with a token: there is none, or the one that
\* is stored cannot be read.
FetchProfile == phase = "profile" /\ IF StoredProfile THEN Fault ELSE UNCHANGED faults

-----------------------------------------------------------------------------
\* get_valid_token.

NeedsToken(t) ==
    /\ task[t].pc = "idle"
    /\ IF t = "main" THEN FetchProfile ELSE phase = "up" /\ UNCHANGED faults

\* There may be no file, or one that cannot be parsed, e.g. as it is being written.
Load(t) ==
    /\ NeedsToken(t)
    /\ IF file.state = "whole"
       THEN /\ SetTask(t, IF Expired(file.tok) THEN "refresh" ELSE "send", file.tok)
            /\ UNCHANGED <<phase, tabs, reset>>
       ELSE GiveUp(t)
    /\ UNCHANGED <<store, events, history>>

\* refresh_token.  Without a new refresh token in the answer, save_tokens stores "".
Refresh(t) ==
    /\ task[t].pc = "refresh" /\ task[t].tok.good
    /\ \E g \in BOOLEAN :
          /\ IF g THEN UNCHANGED <<faults, lost>> ELSE Fault /\ lost' = TRUE
          /\ SetTask(t, "save", [task[t].tok EXCEPT !.fresh = TRUE, !.good = g])
    /\ UNCHANGED <<phase, tabs, store, reset, events, owner, late>>

\* Mutant: tokens that cannot be refreshed are removed.
RefreshFails_SignsOut(t) ==
    /\ task[t].pc = "refresh"
    /\ IF task[t].tok.good THEN Fault ELSE UNCHANGED faults
    /\ GiveUp(t)
    /\ file' = [state |-> "none", tok |-> NoToken]
    /\ UNCHANGED <<link, profile, events, history>>

RefreshFails(t) ==
    /\ task[t].pc = "refresh"
    /\ IF task[t].tok.good THEN Fault ELSE UNCHANGED faults
    /\ GiveUp(t)
    /\ UNCHANGED <<store, events, history>>

\* save_tokens: fs::write empties the file, ...
SaveOpen(t) ==
    /\ task[t].pc = "save"
    /\ file' = [state |-> "empty", tok |-> NoToken]
    /\ SetTask(t, "write", task[t].tok)
    /\ UNCHANGED <<phase, tabs, link, profile, reset, events, faults, history>>

\* After the write the token is used; at sign-in main goes on.
Saved(t) ==
    IF phase = "authorize"
    THEN /\ task' = [task EXCEPT ![t] = Idle] /\ phase' = "connect"
         /\ owner' = task[t].tok.of
         /\ late' = (late \/ owner \notin {Nobody, task[t].tok.of})
    ELSE SetTask(t, "send", task[t].tok) /\ UNCHANGED <<phase, owner, late>>

\* ... and writes the tokens at its start, over what another task has written
\* since; the end of a longer text stays, and what is there is no JSON.
SaveWrite(t) ==
    /\ task[t].pc = "write"
    /\ \/ /\ file' = [state |-> "whole", tok |-> task[t].tok]
          /\ UNCHANGED lost
       \/ /\ file.state # "empty"
          /\ file' = [state |-> "torn", tok |-> NoToken] /\ lost' = TRUE
    /\ Saved(t)
    /\ UNCHANGED <<tabs, link, profile, reset, events, faults>>

\* The file was removed after it was opened.
WriteOrphan(t) ==
    /\ task[t].pc = "orphan"
    /\ SetTask(t, "send", task[t].tok)
    /\ UNCHANGED <<phase, tabs, store, reset, events, faults, history>>

SaveFails(t) ==
    /\ task[t].pc \in {"save", "write"} /\ Fault /\ GiveUp(t)
    /\ lost' = (lost \/ task[t].pc = "write")
    /\ UNCHANGED <<store, events, owner, late>>

-----------------------------------------------------------------------------
\* What the token is for.

Ask(t) ==
    /\ task[t].pc = "send"
    /\ SetTask(t, "store", task[t].tok)
    /\ UNCHANGED <<phase, tabs, store, reset, events, faults, history>>

AskDelta == Ask("cycle")
AskProfile == Ask("main")

\* A call and the status report store nothing of the account.
Done(t) ==
    /\ task[t].pc = "send"
    /\ task' = [task EXCEPT ![t] = Idle]
    /\ UNCHANGED <<phase, tabs, store, reset, events, faults, history>>

Report == Done("status")
CallDone(c) == Done(c)

\* There is no answer, or it cannot be stored.
RequestFails(t) ==
    /\ task[t].pc \in {"send", "store"} /\ Fault /\ GiveUp(t)
    /\ UNCHANGED <<store, events, history>>

StoreLink ==
    /\ task["cycle"].pc = "store"
    /\ link' = task["cycle"].tok.of
    /\ late' = (late \/ reset # "no" \/ owner # link')
    /\ task' = [task EXCEPT !["cycle"] = Idle]
    /\ UNCHANGED <<phase, tabs, file, profile, reset, events, faults, owner, lost>>

\* main goes on with the rest.
StoreProfile ==
    /\ task["main"].pc = "store"
    /\ profile' = task["main"].tok.of
    /\ task' = [task EXCEPT !["main"] = Idle] /\ phase' = "up"
    /\ UNCHANGED <<tabs, file, link, reset, events, faults, history>>

-----------------------------------------------------------------------------
\* full_reset.  Items, their files and the sync folders stay.

ResetRows ==
    /\ phase = "up" /\ reset = "no" /\ Event
    /\ reset' = "link"
    /\ UNCHANGED <<phase, tabs, store, task, faults, history>>

\* Mutant: sync_state is not cleared.
ResetLink_Kept ==
    /\ reset = "link"
    /\ reset' = "profile"
    /\ UNCHANGED <<phase, tabs, store, task, events, faults, history>>

ResetLink ==
    /\ reset = "link"
    /\ link' = Nobody /\ reset' = "profile"
    /\ UNCHANGED <<phase, tabs, file, profile, task, events, faults, history>>

ResetProfile ==
    /\ reset = "profile"
    /\ profile' = Nobody /\ reset' = "file"
    /\ UNCHANGED <<phase, tabs, file, link, task, events, faults, history>>

\* The tokens are removed, and the handler panics: its task ends, the hook of
\* main.rs unmounts the file system, and the process goes on without tokens.
\* A task that has the file open, or tokens to save, brings nothing, or the
\* account, back.
ResetFile ==
    /\ reset = "file" /\ reset' = "no"
    /\ file' = [state |-> "none", tok |-> NoToken]
    /\ task' = [t \in Tasks |-> IF task[t].pc = "write" THEN [task[t] EXCEPT !.pc = "orphan"]
                                ELSE task[t]]
    /\ owner' = Nobody /\ lost' = FALSE
    /\ late' = (late \/ \E t \in Tasks : task[t].pc \in {"refresh", "save"})
    /\ UNCHANGED <<phase, tabs, link, profile, events, faults>>

ResetFails ==
    /\ reset \in {"link", "profile"} /\ Fault
    /\ reset' = "no"
    /\ UNCHANGED <<phase, tabs, store, task, events, history>>

-----------------------------------------------------------------------------
\* The rest of the world.

Expire ==
    /\ file.state = "whole" /\ file.tok.fresh /\ Event
    /\ file' = [file EXCEPT !.tok.fresh = FALSE]
    /\ UNCHANGED <<phase, tabs, link, profile, task, reset, faults, history>>

\* The password was changed, or the tokens were not used for months.
Revoke ==
    /\ file.state = "whole" /\ file.tok.good /\ Event
    /\ file' = [file EXCEPT !.tok.good = FALSE]
    /\ task' = [t \in Tasks |-> [task[t] EXCEPT !.tok.good = FALSE]]
    /\ lost' = TRUE
    /\ UNCHANGED <<phase, tabs, link, profile, reset, faults, owner, late>>

Kill ==
    /\ phase # "down" /\ Fault /\ Exit
    /\ lost' = (lost \/ \E t \in Tasks : task[t].pc = "write")
    /\ UNCHANGED <<store, events, owner, late>>

Main ==
    \/ Start \/ Exchange \/ Connected \/ Profile \/ StoreProfile
    \/ Load("main") \/ Refresh("main") \/ (RefreshFails("main") /\ ~task["main"].tok.good)
    \/ SaveOpen("main") \/ SaveWrite("main") \/ AskProfile
Task(t) ==
    \/ Load(t) \/ Refresh(t) \/ RefreshFails(t) \/ SaveOpen(t) \/ SaveWrite(t)
    \/ WriteOrphan(t) \/ SaveFails(t) \/ RequestFails(t)
Reset == ResetRows \/ ResetLink \/ ResetProfile \/ ResetFile \/ ResetFails

Next ==
    \/ Start \/ AuthorizeFails \/ ConsentStale \/ Exchange \/ ExchangeFails
    \/ Connected \/ InfrastructureFails \/ Profile
    \/ AskDelta \/ StoreLink \/ AskProfile \/ StoreProfile
    \/ Report \/ \E c \in Calls : CallDone(c)
    \/ \E a \in Accounts : Consent(a)
    \/ \E t \in Tasks : Task(t)
    \/ Reset \/ Expire \/ Revoke \/ Kill

\* systemd starts the daemon again, main runs, and the user signs in when asked.
Fairness == WF_vars(Main) /\ WF_vars(\E a \in Accounts : Consent(a))

Spec == Init /\ [][Next]_vars /\ Fairness

-----------------------------------------------------------------------------
\* Properties.

\* The tokens of the account the user has signed in with stay on disk whoever
\* refreshes them and whenever, and after a reset there are none, unless a write
\* failed, was cut or met another one, OneDrive took the refresh token back or
\* gave none, or a refresh was under way at the reset (save_tokens, full_reset).
TokensAgree ==
    /\ owner # Nobody /\ ~lost =>
          \/ file.state = "whole" /\ file.tok.good /\ file.tok.of = owner
          \/ file.state = "empty" /\ \E t \in Tasks : task[t].pc = "write"
    /\ owner = Nobody /\ ~late => file.state # "whole"

\* The delta link and the profile are of the account that is signed in: a reset
\* leaves nothing that the next account would be used with, unless a cycle stores
\* its answer during the reset or after it, or another account signs in without
\* a reset before.
OneAccount == ~late => {link, profile} \subseteq {Nobody, owner}

\* The daemon comes up and stays up, and asks the user again for tokens it cannot
\* read, unless those it can read are refused by OneDrive.
StartsUp == <>[](phase = "up" \/ (file.state = "whole" /\ ~file.tok.good))

=============================================================================
